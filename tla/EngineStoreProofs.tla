-------------------------- MODULE EngineStoreProofs ---------------------------
(***************************************************************************)
(* Proofs about EngineStore: type correctness and the engine lock for any  *)
(* number of threads; for an application that does not delete, that no two *)
(* writes carry one clock and that neither a pull nor a crash takes back   *)
(* the row of a record; and, when it writes whole records, that an edge    *)
(* whose outbox is acknowledged agrees with the HQ.                        *)
(***************************************************************************)
EXTENDS EngineStore, ConflictResolverProofs

-----------------------------------------------------------------------------
(* The operations of a push, one by one.                                   *)

\* The rows of the HQ after the first n operations of the outbox, those of the
\* push integrated.
Run(ids, last, f) ==
    f = [n \in 0 .. last |->
            IF n = 0 THEN hq
            ELSE IF n \in ids THEN Integrate(f[n - 1], outbox[n].body)
            ELSE f[n - 1]]

LEMMA RunExists ==
    ASSUME NEW ids, NEW last \in Nat
    PROVE  \E f : Run(ids, last, f)
  <1> DEFINE T == {n \in Nat : \E f : Run(ids, n, f)}
  <1>1. 0 \in T
    <2> DEFINE f == [n \in 0 .. 0 |-> hq]
    <2>1. Run(ids, 0, f)
      BY DEF Run
    <2> QED
      BY <2>1
  <1>2. ASSUME NEW n \in 0 .. last, n \in T, n < last
        PROVE  n + 1 \in T
    <2>1. PICK f : Run(ids, n, f)
      BY <1>2
    <2> DEFINE new == IF n + 1 \in ids THEN Integrate(f[n], outbox[n + 1].body)
                      ELSE f[n]
               g == [m \in 0 .. n + 1 |-> IF m = n + 1 THEN new ELSE f[m]]
    <2>2. f = [m \in 0 .. n |->
                 IF m = 0 THEN hq
                 ELSE IF m \in ids THEN Integrate(f[m - 1], outbox[m].body)
                 ELSE f[m - 1]]
      BY <2>1 DEF Run
    <2> HIDE DEF new
    <2>3. ASSUME NEW m \in 0 .. n + 1
          PROVE  g[m] = IF m = 0 THEN hq
                        ELSE IF m \in ids
                             THEN Integrate(g[m - 1], outbox[m].body)
                             ELSE g[m - 1]
      <3>1. CASE m = n + 1
        <4>1. g[m] = new /\ g[m - 1] = f[n] /\ m # 0
          BY <3>1
        <4> QED
          BY <3>1, <4>1 DEF new
      <3>2. CASE m # n + 1 /\ m # 0
        <4>1. m \in 0 .. n /\ m - 1 \in 0 .. n + 1 /\ m - 1 # n + 1
          BY <3>2
        <4>2. g[m] = f[m] /\ g[m - 1] = f[m - 1]
          BY <3>2, <4>1
        <4> HIDE DEF g
        <4> QED
          BY <2>2, <3>2, <4>1, <4>2
      <3>3. CASE m = 0
        BY <2>2, <3>3
      <3> QED
        BY <3>1, <3>2, <3>3
    <2>4. Run(ids, n + 1, g)
      BY <2>3 DEF Run
    <2> QED
      BY <2>4
  <1> HIDE DEF T
  <1>3. last \in T
    BY <1>1, <1>2, CountUp
  <1> QED
    BY <1>3 DEF T

LEMMA AtHQIsARun ==
    ASSUME NEW ids, Len(outbox) \in Nat
    PROVE  \E f : Run(ids, Len(outbox), f) /\ AtHQ(ids) = f[Len(outbox)]
  <1> DEFINE f == CHOOSE g : Run(ids, Len(outbox), g)
  <1>1. AtHQ(ids) = f[Len(outbox)]
    BY DEF AtHQ, Run
  <1>2. Run(ids, Len(outbox), f)
    BY RunExists
  <1> QED
    BY <1>1, <1>2

\* The record at the HQ after a push is the one before it or what the HQ made
\* of some operation of the outbox.
LEMMA AfterPush ==
    ASSUME NEW ids, TypeOK
    PROVE  /\ AtHQ(ids) \in Row
           /\ \/ AtHQ(ids) = hq
              \/ \E i \in DOMAIN outbox : \E rec \in Row :
                    AtHQ(ids) = ApplyOperation(rec, outbox[i].body)
  <1> DEFINE last == Len(outbox)
             Made(rec) == \/ rec = hq
                          \/ \E i \in DOMAIN outbox : \E old \in Row :
                                rec = ApplyOperation(old, outbox[i].body)
  <1>1. last \in Nat /\ hq \in Row /\ DOMAIN outbox = 1 .. last
    BY DEF TypeOK
  <1>2. ASSUME NEW i \in 1 .. last
        PROVE  outbox[i].body \in Operation
    <2>1. outbox[i] \in Queued
      BY DEF TypeOK
    <2> QED
      BY <2>1 DEF Queued
  <1>3. PICK f : Run(ids, last, f) /\ AtHQ(ids) = f[last]
    BY <1>1, AtHQIsARun
  <1>4. f = [n \in 0 .. last |->
               IF n = 0 THEN hq
               ELSE IF n \in ids THEN Integrate(f[n - 1], outbox[n].body)
               ELSE f[n - 1]]
    BY <1>3 DEF Run
  <1> DEFINE T == {n \in 0 .. last : f[n] \in Row /\ Made(f[n])}
  <1>5. 0 \in T
    BY <1>1, <1>4
  <1>6. ASSUME NEW n \in 0 .. last, n \in T, n < last
        PROVE  n + 1 \in T
    <2>1. n + 1 \in 1 .. last /\ n + 1 \in 0 .. last /\ (n + 1) - 1 = n
          /\ n + 1 # 0
      BY <1>1, <1>6
    <2>2. f[n + 1] = IF n + 1 \in ids
                     THEN Integrate(f[n], outbox[n + 1].body) ELSE f[n]
      BY <1>4, <2>1
    <2>3. f[n] \in Row /\ Made(f[n])
      BY <1>6
    <2>4. \/ f[n + 1] = f[n]
          \/ f[n + 1] = ApplyOperation(f[n], outbox[n + 1].body)
      BY <2>2 DEF Integrate
    <2>5. ApplyOperation(f[n], outbox[n + 1].body) \in Row
      BY <1>2, <2>1, <2>3, ApplyType DEF Row
    <2>6. Made(ApplyOperation(f[n], outbox[n + 1].body))
      BY <1>1, <2>1, <2>3
    <2> HIDE DEF Made
    <2> QED
      BY <2>1, <2>3, <2>4, <2>5, <2>6
  <1> HIDE DEF T
  <1> HIDE DEF last
  <1>7. \A n \in 0 .. last : n \in T
    BY <1>1, <1>5, <1>6, CountUp
  <1>8. last \in T
    BY <1>1, <1>7
  <1> QED
    BY <1>3, <1>8 DEF T

-----------------------------------------------------------------------------
(* Types, and the lock of the engine around a write.                       *)

WritePlace == {"idle", "load", "merge", "apply", "enqueue"}
SyncPlace == {"idle", "batch", "sent", "load", "merge", "get", "resolve"}

\* The lock is held by the thread that is inside a write and by no other.
Places ==
    /\ \A c \in Callers : pc[c] \in WritePlace
    /\ \A c \in Callers : engineLock = c <=> pc[c] # "idle"
    /\ \A s \in Syncers : pc[s] \in SyncPlace

TypeInv == TypeOK /\ Places

LEMMA ThreadsAreApart ==
    /\ Callers \subseteq Thread /\ Syncers \subseteq Thread
    /\ \A c \in Callers, s \in Syncers : c # s
    /\ Nobody \notin Callers
    /\ Self \in Node /\ Peer \in Node /\ Self # Peer
    /\ WriteTypes \subseteq OpType /\ Payloads \subseteq Data /\ Times \subseteq Nat
  BY EngineStoreAssumption DEF Thread

LEMMA MarkKeepsType ==
    ASSUME outbox \in Seq(Queued), NEW ids,
           NEW state \in {"pending", "synced", "failed"}, Mark(ids, state)
    PROVE  /\ outbox' \in Seq(Queued)
           /\ DOMAIN outbox' = DOMAIN outbox
           /\ \A i \in DOMAIN outbox : outbox'[i].body = outbox[i].body
  <1>1. DOMAIN outbox = 1 .. Len(outbox) /\ Len(outbox) \in Nat
    OBVIOUS
  <1>2. outbox' = [i \in 1 .. Len(outbox) |->
                     IF i \in ids THEN [outbox[i] EXCEPT !.state = state]
                                  ELSE outbox[i]]
    BY <1>1 DEF Mark
  <1>3. ASSUME NEW i \in 1 .. Len(outbox)
        PROVE  outbox'[i] \in Queued /\ outbox'[i].body = outbox[i].body
    <2>1. outbox[i] \in Queued
      BY <1>1
    <2> QED
      BY <1>2, <2>1 DEF Queued
  <1> QED
    BY <1>1, <1>2, <1>3

LEMMA InitEstablishesTypes == Init => TypeInv
  <1> SUFFICES ASSUME Init
               PROVE  TypeInv
    OBVIOUS
  <1>1. EmptyClock \in Clock /\ NoPush \in Push
    BY ClockType DEF NoPush, Push
  <1>2. outbox \in Seq(Queued)
    BY DEF Init
  <1>3. TypeOK
    <2>1. /\ row \in Row /\ hq \in Row /\ peerRow \in Row
          /\ known \in Clock /\ engineLock \in Callers \cup {Nobody}
          /\ peerOutbox \subseteq Operation
      BY <1>1 DEF Init, Row
    <2>2. /\ op \in [Thread -> Operation \cup {NoOperation}]
          /\ clockRead \in [Thread -> Clock]
          /\ rowRead \in [Thread -> Row]
          /\ sent \in [Thread -> Push]
      BY <1>1 DEF Init, Row
    <2>3. /\ {writes, peerWrites, boots} \subseteq Nat /\ counted \in Nat
          /\ lastTime \in [{Self, Peer} -> Nat]
      BY DEF Init
    <2>4. /\ torn \in BOOLEAN /\ overtaken \in BOOLEAN /\ recounted \in BOOLEAN
      BY DEF Init
    <2>5. /\ pc = [t \in Thread |-> "idle"]
          /\ pc \in [Thread -> {"idle", "batch", "sent", "load", "merge",
                                 "get", "resolve", "apply", "enqueue"}]
      BY DEF Init
    <2> QED
      BY <1>2, <2>1, <2>2, <2>3, <2>4, <2>5 DEF TypeOK
  <1>4. Places
    BY ThreadsAreApart DEF Init, Places, WritePlace, SyncPlace
  <1> QED
    BY <1>3, <1>4 DEF TypeInv

\* The two halves of a merge into the global clock.
LEMMA ClockKeepsTypes ==
    ASSUME TypeInv, NEW t \in Thread, NEW next,
           \/ t \in Callers /\ next = "apply"
           \/ t \in Syncers /\ next = "get",
           LoadClock(t) \/ StoreClock(t, next)
    PROVE  TypeInv'
  <1> USE DEF TypeInv
  <1>1. CASE LoadClock(t)
    <2>1. TypeOK'
      BY <1>1 DEF LoadClock, TypeOK, Goto, localVars, remoteVars, inputs, history
    <2>2. Places'
      BY <1>1, ThreadsAreApart
      DEF LoadClock, TypeOK, Places, WritePlace, SyncPlace, Goto, localVars
    <2> QED
      BY <2>1, <2>2
  <1>2. CASE StoreClock(t, next)
    <2>1. Merge(clockRead[t], op[t].vc) \in Clock
      <3>1. op[t] \in Operation
        BY <1>2 DEF StoreClock, TypeOK
      <3> QED
        BY <3>1, ClockType DEF TypeOK, Operation
    <2>2. TypeOK'
      BY <1>2, <2>1 DEF StoreClock, TypeOK, Goto, remoteVars, inputs, history
    <2>3. Places'
      BY <1>2, ThreadsAreApart
      DEF StoreClock, TypeOK, Places, WritePlace, SyncPlace, Goto
    <2> QED
      BY <2>2, <2>3
  <1> QED
    BY <1>1, <1>2

LEMMA WriteKeepsTypes ==
    ASSUME TypeInv, NEW c \in Callers, WriteStep(c)
    PROVE  TypeInv'
  <1> USE DEF TypeInv
  <1>1. /\ c \in Thread
        /\ pc[c] \notin {"idle", "batch", "sent"} => op[c] \in Operation
    BY ThreadsAreApart DEF TypeOK
  <1>2. ASSUME NEW type \in WriteTypes, NEW payload \in Payloads, NEW ts \in Times,
               BeginWrite(c, type, payload, ts)
        PROVE  TypeInv'
    <2>1. NewOperation(row, Self, type, payload, ts) \in Operation
      BY NewOperationType, ThreadsAreApart DEF TypeOK, Row
    <2>2. TypeOK'
      BY <1>1, <1>2, <2>1, ThreadsAreApart
      DEF BeginWrite, Stamp, TypeOK, Goto, remoteVars, history
    <2>3. Places'
      BY <1>1, <1>2, ThreadsAreApart
      DEF BeginWrite, TypeOK, Places, WritePlace, SyncPlace, Goto
    <2> QED
      BY <2>2, <2>3
  <1>3. CASE LoadClock(c) \/ StoreClock(c, "apply")
    BY <1>1, <1>3, ClockKeepsTypes
  <1>4. CASE ApplyLocal(c)
    <2>1. op[c] \in Operation
      BY <1>1, <1>4 DEF ApplyLocal
    <2>2. ApplyOperation(row, op[c]) \in Record
      BY <2>1, ApplyType DEF TypeOK, Row
    <2>3. op[c].vc[Self] \in Nat
      BY <2>1, ThreadsAreApart DEF Operation, Clock
    <2>4. recounted' \in BOOLEAN /\ counted' \in Nat /\ overtaken' \in BOOLEAN
      BY <1>4, <2>3 DEF ApplyLocal, TypeOK
    <2>5. TypeOK'
      BY <1>1, <1>4, <2>2, <2>4
      DEF ApplyLocal, TypeOK, Goto, remoteVars, inputs, Row
    <2>6. Places'
      BY <1>1, <1>4, ThreadsAreApart
      DEF ApplyLocal, TypeOK, Places, WritePlace, SyncPlace, Goto
    <2> QED
      BY <2>5, <2>6
  <1>5. CASE Enqueue(c)
    <2>1. outbox' \in Seq(Queued)
      <3>1. [body |-> op[c], state |-> "pending"] \in Queued
        BY <1>1, <1>5 DEF Enqueue, Queued
      <3> QED
        BY <1>5, <3>1 DEF Enqueue, TypeOK
    <2>2. TypeOK'
      BY <1>1, <1>5, <2>1, ClockType
      DEF Enqueue, Leave, TypeOK, Goto, remoteVars, inputs, history
    <2>3. Places'
      BY <1>1, <1>5, ThreadsAreApart
      DEF Enqueue, Leave, TypeOK, Places, WritePlace, SyncPlace, Goto
    <2> QED
      BY <2>2, <2>3
  <1>6. CASE WriteRaises(c)
    <2>1. TypeOK'
      BY <1>1, <1>6, ClockType
      DEF WriteRaises, Leave, TypeOK, Goto, remoteVars, inputs
    <2>2. Places'
      BY <1>1, <1>6, ThreadsAreApart
      DEF WriteRaises, Leave, TypeOK, Places, WritePlace, SyncPlace, Goto
    <2> QED
      BY <2>1, <2>2
  <1> QED
    BY <1>2, <1>3, <1>4, <1>5, <1>6 DEF WriteStep

LEMMA AsChangeType ==
    ASSUME NEW rec \in Record
    PROVE  AsChange(rec) \in Operation
  BY DEF AsChange, Operation, Record, OpType

\* What an exchange changes: the push is done and its rows are marked.
LEMMA ExchangeKeepsTypes ==
    ASSUME TypeInv, NEW s \in Syncers, Answer(s) \/ ExchangeFails(s)
    PROVE  TypeInv'
  <1> USE DEF TypeInv
  <1>1. s \in Thread /\ sent[s] \in Push
    BY ThreadsAreApart DEF TypeOK
  <1>2. AtHQ(sent[s].ids) \in Row /\ hq \in Row
    BY AfterPush DEF TypeOK
  <1>3. NoPush \in Push
    BY ClockType DEF NoPush, Push
  <1>4. CASE Answer(s)
    <2>1. hq' \in Row
      BY <1>2, <1>4 DEF Answer
    <2>2. outbox' \in Seq(Queued)
      BY <1>4, MarkKeepsType DEF Answer, TypeOK
    <2>3. CASE InDelta(hq', Self, sent[s].vc)
      <3>1. AsChange(hq') \in Operation
        BY <2>1, <2>3, AsChangeType DEF InDelta, Row
      <3>2. op' = [op EXCEPT ![s] = AsChange(hq')] /\ Goto(s, "load")
        BY <1>4, <2>3 DEF Answer
      <3>3. TypeOK'
        BY <1>1, <1>3, <1>4, <2>1, <2>2, <3>1, <3>2
        DEF Answer, TypeOK, Goto, inputs, history
      <3>4. Places'
        BY <1>1, <1>4, <3>2, ThreadsAreApart
        DEF Answer, TypeOK, Places, WritePlace, SyncPlace, Goto
      <3> QED
        BY <3>3, <3>4
    <2>4. CASE ~InDelta(hq', Self, sent[s].vc)
      <3>1. op' = op /\ Goto(s, "idle")
        BY <1>4, <2>4 DEF Answer
      <3>2. TypeOK'
        BY <1>1, <1>3, <1>4, <2>1, <2>2, <3>1
        DEF Answer, TypeOK, Goto, inputs, history
      <3>3. Places'
        BY <1>1, <1>4, <3>1, ThreadsAreApart
        DEF Answer, TypeOK, Places, WritePlace, SyncPlace, Goto
      <3> QED
        BY <3>2, <3>3
    <2> QED
      BY <2>3, <2>4
  <1>5. CASE ExchangeFails(s)
    <2>1. hq' \in Row
      BY <1>2, <1>5 DEF ExchangeFails
    <2>2. outbox' \in Seq(Queued)
      BY <1>5, MarkKeepsType DEF ExchangeFails, TypeOK
    <2>3. TypeOK'
      BY <1>1, <1>3, <1>5, <2>1, <2>2
      DEF ExchangeFails, TypeOK, Goto, inputs, history
    <2>4. Places'
      BY <1>1, <1>5, ThreadsAreApart
      DEF ExchangeFails, TypeOK, Places, WritePlace, SyncPlace, Goto
    <2> QED
      BY <2>3, <2>4
  <1> QED
    BY <1>4, <1>5

LEMMA SyncKeepsTypes ==
    ASSUME TypeInv, NEW s \in Syncers, SyncStep(s)
    PROVE  TypeInv'
  <1> USE DEF TypeInv
  <1>1. /\ s \in Thread
        /\ pc[s] \notin {"idle", "batch", "sent"} => op[s] \in Operation
    BY ThreadsAreApart DEF TypeOK
  <1>2. CASE ReadBatch(s) \/ SendPush(s)
    <2>1. sent' \in [Thread -> Push]
      <3>1. CASE ReadBatch(s)
        <4>1. [sent[s] EXCEPT !.ids = InState("pending")] \in Push
          <5>1. DOMAIN outbox \subseteq Nat /\ sent[s] \in Push
            BY <1>1 DEF TypeOK
          <5> QED
            BY <5>1 DEF InState, Push
        <4> QED
          BY <3>1, <4>1 DEF ReadBatch, TypeOK
      <3>2. CASE SendPush(s)
        <4>1. sent[s] \in Push /\ known \in Clock
          BY <1>1 DEF TypeOK
        <4>2. [sent[s] EXCEPT !.vc = known] \in Push
          BY <4>1 DEF Push
        <4> QED
          BY <3>2, <4>2 DEF SendPush, TypeOK
      <3> QED
        BY <1>2, <3>1, <3>2
    <2>2. TypeOK'
      BY <1>1, <1>2, <2>1
      DEF ReadBatch, SendPush, TypeOK, Goto, localVars, remoteVars, inputs, history
    <2>3. Places'
      BY <1>1, <1>2, ThreadsAreApart
      DEF ReadBatch, SendPush, TypeOK, Places, WritePlace, SyncPlace, Goto, localVars
    <2> QED
      BY <2>2, <2>3
  <1>3. CASE Answer(s) \/ ExchangeFails(s)
    BY <1>3, ExchangeKeepsTypes
  <1>4. CASE LoadClock(s) \/ StoreClock(s, "get")
    BY <1>1, <1>4, ClockKeepsTypes
  <1>5. CASE GetLocal(s)
    <2>1. TypeOK'
      BY <1>1, <1>5
      DEF GetLocal, TypeOK, Goto, localVars, remoteVars, inputs, history
    <2>2. Places'
      BY <1>1, <1>5, ThreadsAreApart
      DEF GetLocal, TypeOK, Places, WritePlace, SyncPlace, Goto, localVars
    <2> QED
      BY <2>1, <2>2
  <1>6. CASE ApplyPulled(s)
    <2>1. op[s] \in Operation
      BY <1>1, <1>6 DEF ApplyPulled
    <2>2. row' \in Row
      BY <1>6, <2>1, ApplyType DEF ApplyPulled, TypeOK, Row
    <2>3. overtaken' \in BOOLEAN
      BY <1>6 DEF ApplyPulled
    <2>4. TypeOK'
      BY <1>1, <1>6, <2>2, <2>3, ClockType
      DEF ApplyPulled, TypeOK, Goto, remoteVars, inputs, Row
    <2>5. Places'
      BY <1>1, <1>6, ThreadsAreApart
      DEF ApplyPulled, TypeOK, Places, WritePlace, SyncPlace, Goto
    <2> QED
      BY <2>4, <2>5
  <1>7. CASE PullRaises(s)
    <2>1. TypeOK'
      BY <1>1, <1>7, ClockType
      DEF PullRaises, TypeOK, Goto, localVars, remoteVars, inputs, history, Row
    <2>2. Places'
      BY <1>1, <1>7, ThreadsAreApart
      DEF PullRaises, TypeOK, Places, WritePlace, SyncPlace, Goto, localVars
    <2> QED
      BY <2>1, <2>2
  <1> QED
    BY <1>2, <1>3, <1>4, <1>5, <1>6, <1>7 DEF SyncStep

LEMMA RestartKeepsTypes ==
    ASSUME TypeInv, Restart
    PROVE  TypeInv'
  <1> USE DEF TypeInv
  <1>1. outbox' \in Seq(Queued)
    BY MarkKeepsType DEF Restart, TypeOK
  <1>2. /\ known' \in Clock
        /\ op' \in [Thread -> Operation \cup {NoOperation}]
        /\ clockRead' \in [Thread -> Clock]
        /\ rowRead' \in [Thread -> Row]
        /\ sent' \in [Thread -> Push]
    BY ClockType DEF Restart, NoPush, Push, Row
  <1>3. pc' = [t \in Thread |-> "idle"]
    BY DEF Restart
  <1>4. pc' \in [Thread -> {"idle", "batch", "sent", "load", "merge", "get",
                            "resolve", "apply", "enqueue"}]
    BY <1>3
  <1>5. boots' \in Nat
    BY DEF Restart, TypeOK
  <1>6. torn' \in BOOLEAN
    BY DEF Restart
  <1>7. engineLock' = Nobody
    BY DEF Restart
  <1>8. TypeOK'
    BY <1>1, <1>2, <1>3, <1>4, <1>5, <1>6, <1>7
    DEF Restart, TypeOK, remoteVars
  <1>9. Places'
    BY <1>3, <1>7, ThreadsAreApart DEF Places, WritePlace, SyncPlace
  <1> QED
    BY <1>8, <1>9

LEMMA OthersKeepTypes ==
    ASSUME TypeInv, Others
    PROVE  TypeInv'
  <1> USE DEF TypeInv
  <1>1. ASSUME NEW type \in WriteTypes, NEW payload \in Payloads, NEW ts \in Times,
               PeerWrites(type, payload, ts)
        PROVE  TypeInv'
    <2> DEFINE write == NewOperation(peerRow, Peer, type, payload, ts)
    <2>1. write \in Operation
      BY NewOperationType, ThreadsAreApart DEF TypeOK, Row
    <2>2. peerRow' \in Row /\ peerOutbox' \subseteq Operation
      BY <1>1, <2>1, ApplyType DEF PeerWrites, TypeOK, Row
    <2>3. TypeOK'
      BY <1>1, <2>2, ThreadsAreApart
      DEF PeerWrites, Stamp, TypeOK, localVars, threadVars, history
    <2>4. Places'
      BY <1>1 DEF PeerWrites, Places, localVars, threadVars
    <2> QED
      BY <2>3, <2>4
  <1>2. ASSUME NEW o \in peerOutbox, PeerPushes(o)
        PROVE  TypeInv'
    <2>1. o \in Operation
      BY DEF TypeOK
    <2>2. hq' \in Row /\ peerOutbox' \subseteq Operation
      BY <1>2, <2>1, IntegrateType DEF PeerPushes, TypeOK, Row
    <2>3. TypeOK'
      BY <1>2, <2>2
      DEF PeerPushes, TypeOK, localVars, threadVars, inputs, history
    <2>4. Places'
      BY <1>2 DEF PeerPushes, Places, localVars, threadVars
    <2> QED
      BY <2>3, <2>4
  <1>3. CASE PeerPulls
    <2>1. AsChange(hq) \in Operation
      BY <1>3, AsChangeType DEF PeerPulls, InDelta, TypeOK, Row
    <2>2. peerRow' \in Row
      BY <1>3, <2>1, IntegrateType DEF PeerPulls, TypeOK, Row
    <2>3. TypeOK'
      BY <1>3, <2>2
      DEF PeerPulls, TypeOK, localVars, threadVars, inputs, history
    <2>4. Places'
      BY <1>3 DEF PeerPulls, Places, localVars, threadVars
    <2> QED
      BY <2>3, <2>4
  <1> QED
    BY <1>1, <1>2, <1>3 DEF Others

LEMMA NextKeepsTypes == TypeInv /\ [Next]_vars => TypeInv'
  <1> SUFFICES ASSUME TypeInv, [Next]_vars
               PROVE  TypeInv'
    OBVIOUS
  <1>1. CASE UNCHANGED vars
    BY <1>1 DEF vars, localVars, threadVars, remoteVars, inputs, history,
                TypeInv, TypeOK, Places
  <1> QED
    BY <1>1, WriteKeepsTypes, SyncKeepsTypes, RestartKeepsTypes, OthersKeepTypes
    DEF Next

THEOREM TypesHold == Spec => []TypeInv
  BY InitEstablishesTypes, NextKeepsTypes, PTL DEF Spec

\* Rows, operations and clocks keep their types, and a write has an operation
\* in hand from the read of its row on, whatever the threads do.
THEOREM TypeCorrect == Spec => []TypeOK
  BY TypesHold, PTL DEF TypeInv

\* At most one thread is inside a write, from the read of the row to the entry
\* in the outbox (the engine lock of create, update, merge and delete).
THEOREM WritesExclude ==
    Spec => [](\A c, d \in Callers : pc[c] # "idle" /\ pc[d] # "idle" => c = d)
  <1>1. TypeInv => \A c, d \in Callers : pc[c] # "idle" /\ pc[d] # "idle" => c = d
    BY DEF TypeInv, Places
  <1> QED
    BY <1>1, TypesHold, PTL

-----------------------------------------------------------------------------
(* The versions of the record, when the applications do not delete it.     *)

NoDeletes == "delete" \notin WriteTypes

\* Only the two edges count in the clock of the record.
OurClock == {v \in Clock : \A n \in Node \ {Self, Peer} : v[n] = 0}

OurRow == {r \in Record : /\ r.vc \in OurClock /\ r.by \in {Self, Peer}
                          /\ ~r.deleted /\ r.vc[r.by] >= 1}

OpOf(n) == {o \in Operation : /\ o.vc \in OurClock /\ o.node = n
                              /\ o.type # "delete" /\ o.vc[n] >= 1}

\* A thread in sync_now that has a pulled operation in hand.
Holding(s) == pc[s] \in {"load", "merge", "get", "resolve"}

Shape ==
    /\ row \in OurRow \cup {NoRecord}
    /\ hq \in OurRow \cup {NoRecord}
    /\ peerRow \in OurRow \cup {NoRecord}
    /\ \A t \in Thread : rowRead[t] \in OurRow \cup {NoRecord}
    /\ \A i \in DOMAIN outbox : outbox[i].body \in OpOf(Self)
    /\ \A c \in Callers : pc[c] # "idle" => op[c] \in OpOf(Self)
    /\ \A s \in Syncers : Holding(s) => op[s] \in OpOf(Peer)
    /\ peerOutbox \subseteq OpOf(Peer)

LEMMA OurApply ==
    ASSUME NEW rec \in Row, NEW n \in {Self, Peer}, NEW o \in OpOf(n)
    PROVE  /\ ApplyOperation(rec, o) \in OurRow
           /\ ApplyOperation(rec, o).by = n
           /\ ApplyOperation(rec, o).vc = o.vc
           /\ ApplyOperation(rec, o).ts = o.ts
           /\ ApplyOperation(rec, o) # NoRecord
  <1>1. o \in Operation /\ o.type # "delete" /\ o.node = n
        /\ o.vc \in OurClock /\ o.vc[n] >= 1
    BY DEF OpOf
  <1>2. ApplyOperation(rec, o) \in Record
    BY <1>1, ApplyType DEF Row
  <1> QED
    BY <1>1, <1>2 DEF ApplyOperation, OurRow, NoRecord

LEMMA OurRowClock ==
    ASSUME NEW rec \in OurRow \cup {NoRecord}
    PROVE  RecordClock(rec) \in OurClock /\ rec \in Row
  <1>1. EmptyClock \in OurClock
    BY ClockType DEF OurClock, EmptyClock
  <1> QED
    BY <1>1 DEF RecordClock, OurRow, Row

LEMMA OurWrite ==
    ASSUME NoDeletes, NEW rec \in OurRow \cup {NoRecord}, NEW n \in {Self, Peer},
           NEW type \in WriteTypes, NEW payload \in Payloads, NEW ts \in Times
    PROVE  /\ NewOperation(rec, n, type, payload, ts) \in OpOf(n)
           /\ NewOperation(rec, n, type, payload, ts).vc
                 = Increment(RecordClock(rec), n)
  <1> DEFINE o == NewOperation(rec, n, type, payload, ts)
             v == RecordClock(rec)
  <1>1. n \in Node /\ type # "delete"
    BY ThreadsAreApart DEF NoDeletes
  <1>2. o \in Operation
    BY <1>1, OurRowClock, NewOperationType, ThreadsAreApart DEF Row
  <1>3. v \in OurClock
    BY OurRowClock
  <1>4. Increment(v, n) \in OurClock /\ Increment(v, n)[n] >= 1
    <2>1. Increment(v, n) \in Clock
      BY <1>1, <1>3, ClockType DEF OurClock
    <2>2. \A m \in Node \ {Self, Peer} : Increment(v, n)[m] = 0
      BY <1>3 DEF OurClock, Clock, Increment
    <2>3. Increment(v, n)[n] = v[n] + 1 /\ v[n] \in Nat
      BY <1>1, <1>3 DEF OurClock, Clock, Increment
    <2> QED
      BY <2>1, <2>2, <2>3 DEF OurClock
  <1>5. o.vc = Increment(v, n) /\ o.node = n /\ o.type = type
    BY DEF NewOperation
  <1> QED
    BY <1>1, <1>2, <1>4, <1>5 DEF OpOf

LEMMA OurChange ==
    ASSUME NEW rec \in OurRow
    PROVE  AsChange(rec) \in OpOf(rec.by) /\ AsChange(rec).vc = rec.vc
  <1>1. AsChange(rec) \in Operation
    BY AsChangeType DEF OurRow
  <1> QED
    BY <1>1 DEF AsChange, OurRow, OpOf

\* What the HQ has after a push: the row it had, or a version of this edge.
LEMMA OurAfterPush ==
    ASSUME TypeInv, Shape, NEW ids
    PROVE  /\ AtHQ(ids) \in OurRow \cup {NoRecord}
           /\ \/ AtHQ(ids) = hq
              \/ /\ AtHQ(ids) \in OurRow /\ AtHQ(ids).by = Self
                 /\ \E i \in DOMAIN outbox : /\ AtHQ(ids).vc = outbox[i].body.vc
                                             /\ AtHQ(ids).ts = outbox[i].body.ts
  <1>1. CASE AtHQ(ids) = hq
    BY <1>1 DEF Shape
  <1>2. CASE AtHQ(ids) # hq
    <2>1. PICK i \in DOMAIN outbox, rec \in Row :
             AtHQ(ids) = ApplyOperation(rec, outbox[i].body)
      BY <1>2, AfterPush DEF TypeInv
    <2>2. outbox[i].body \in OpOf(Self)
      BY DEF Shape
    <2> QED
      BY <2>1, <2>2, OurApply
  <1> QED
    BY <1>1, <1>2

-----------------------------------------------------------------------------
(* The counts of the two edges.                                            *)

\* Leq for the clocks of this record.
Below(v, w) == v[Self] =< w[Self] /\ v[Peer] =< w[Peer]

LEMMA Counts ==
    \A v \in Clock : v[Self] \in Nat /\ v[Peer] \in Nat
  BY ThreadsAreApart DEF Clock

LEMMA CountsAfterIncrement ==
    ASSUME NEW v \in Clock
    PROVE  /\ Increment(v, Self) \in Clock /\ Increment(v, Peer) \in Clock
           /\ Increment(v, Self)[Self] = v[Self] + 1
           /\ Increment(v, Self)[Peer] = v[Peer]
           /\ Increment(v, Peer)[Self] = v[Self]
           /\ Increment(v, Peer)[Peer] = v[Peer] + 1
  BY ThreadsAreApart, ClockType DEF Clock, Increment

LEMMA BelowIsLeq ==
    ASSUME NEW v \in OurClock, NEW w \in OurClock
    PROVE  /\ Leq(v, w) <=> Below(v, w)
           /\ Compare(v, w) = "before" <=> Below(v, w) /\ ~Below(w, v)
           /\ Compare(v, w) \in {"before", "concurrent"} <=> ~Below(w, v)
  <1>1. Leq(v, w) <=> Below(v, w)
    BY ThreadsAreApart DEF Leq, Below, OurClock
  <1>2. Leq(w, v) <=> Below(w, v)
    BY ThreadsAreApart DEF Leq, Below, OurClock
  <1> QED
    BY <1>1, <1>2 DEF Compare

-----------------------------------------------------------------------------
(* The shape of the rows and operations is kept.                           *)

LEMMA InitShape == Init => Shape
  BY ThreadsAreApart DEF Init, Shape, Holding

LEMMA WriteKeepsShape ==
    ASSUME NoDeletes, TypeInv, Shape, NEW c \in Callers, WriteStep(c)
    PROVE  Shape'
  <1> USE ThreadsAreApart
  <1>1. ASSUME NEW type \in WriteTypes, NEW payload \in Payloads, NEW ts \in Times,
               BeginWrite(c, type, payload, ts)
        PROVE  Shape'
    <2>1. NewOperation(row, Self, type, payload, ts) \in OpOf(Self)
      BY OurWrite DEF Shape
    <2> QED
      BY <1>1, <2>1
      DEF BeginWrite, Shape, Holding, Goto, TypeInv, TypeOK, remoteVars
  <1>2. CASE LoadClock(c)
    BY <1>2 DEF LoadClock, Shape, Holding, Goto, TypeInv, TypeOK, remoteVars,
                localVars
  <1>3. CASE StoreClock(c, "apply")
    BY <1>3 DEF StoreClock, Shape, Holding, Goto, TypeInv, TypeOK, remoteVars
  <1>4. CASE ApplyLocal(c)
    <2>1. op[c] \in OpOf(Self)
      BY <1>4 DEF ApplyLocal, Shape
    <2>2. row' \in OurRow
      BY <1>4, <2>1, OurApply DEF ApplyLocal, TypeInv, TypeOK
    <2> QED
      BY <1>4, <2>2
      DEF ApplyLocal, Shape, Holding, Goto, TypeInv, TypeOK, remoteVars
  <1>5. CASE Enqueue(c)
    <2>1. op[c] \in OpOf(Self)
      BY <1>5 DEF Enqueue, Shape
    <2>2. /\ DOMAIN outbox \subseteq DOMAIN outbox'
          /\ \A i \in DOMAIN outbox : outbox'[i] = outbox[i]
          /\ \A i \in DOMAIN outbox' :
                i \in DOMAIN outbox \/ outbox'[i].body = op[c]
      BY <1>5 DEF Enqueue, TypeInv, TypeOK
    <2>3. \A i \in DOMAIN outbox' : outbox'[i].body \in OpOf(Self)
      BY <2>1, <2>2 DEF Shape
    <2>4. /\ row' = row /\ hq' = hq /\ peerRow' = peerRow /\ rowRead' = rowRead
          /\ peerOutbox' = peerOutbox
      BY <1>5 DEF Enqueue, remoteVars
    <2>5. \A d \in Callers : pc'[d] # "idle" => op'[d] \in OpOf(Self)
      BY <1>5 DEF Enqueue, Leave, Goto, Shape, TypeInv, TypeOK
    <2>6. \A s \in Syncers : Holding(s)' => op'[s] \in OpOf(Peer)
      BY <1>5 DEF Enqueue, Leave, Goto, Shape, Holding, TypeInv, TypeOK
    <2> QED
      BY <2>3, <2>4, <2>5, <2>6 DEF Shape
  <1>6. CASE WriteRaises(c)
    BY <1>6 DEF WriteRaises, Leave, Shape, Holding, Goto, TypeInv, TypeOK,
                remoteVars
  <1> QED
    BY <1>1, <1>2, <1>3, <1>4, <1>5, <1>6 DEF WriteStep

\* What an answered or failed exchange leaves at the HQ.
LEMMA ExchangeAtHQ ==
    ASSUME TypeInv, Shape, NEW s \in Syncers, Answer(s) \/ ExchangeFails(s)
    PROVE  /\ hq' \in OurRow \cup {NoRecord}
           /\ \/ hq' = hq
              \/ /\ hq' \in OurRow /\ hq'.by = Self
                 /\ \E i \in DOMAIN outbox : /\ hq'.vc = outbox[i].body.vc
                                             /\ hq'.ts = outbox[i].body.ts
           /\ DOMAIN outbox' = DOMAIN outbox
           /\ \A i \in DOMAIN outbox : outbox'[i].body = outbox[i].body
  <1>1. hq' = hq \/ hq' = AtHQ(sent[s].ids)
    BY DEF Answer, ExchangeFails
  <1>2. /\ DOMAIN outbox' = DOMAIN outbox
        /\ \A i \in DOMAIN outbox : outbox'[i].body = outbox[i].body
    BY MarkKeepsType DEF Answer, ExchangeFails, TypeInv, TypeOK
  <1>3. CASE hq' = hq
    BY <1>2, <1>3 DEF Shape
  <1>4. CASE hq' = AtHQ(sent[s].ids)
    BY <1>2, <1>4, OurAfterPush
  <1> QED
    BY <1>1, <1>3, <1>4

LEMMA SyncKeepsShape ==
    ASSUME TypeInv, Shape, NEW s \in Syncers, SyncStep(s)
    PROVE  Shape'
  <1> USE ThreadsAreApart
  <1>1. CASE ReadBatch(s) \/ SendPush(s)
    BY <1>1 DEF ReadBatch, SendPush, Shape, Holding, Goto, TypeInv, TypeOK,
                remoteVars, localVars
  <1>2. CASE Answer(s) \/ ExchangeFails(s)
    <2>1. /\ row' = row /\ peerRow' = peerRow /\ rowRead' = rowRead
          /\ peerOutbox' = peerOutbox
      BY <1>2 DEF Answer, ExchangeFails
    <2>2. \A i \in DOMAIN outbox' : outbox'[i].body \in OpOf(Self)
      BY <1>2, ExchangeAtHQ DEF Shape
    <2>3. hq' \in OurRow \cup {NoRecord}
      BY <1>2, ExchangeAtHQ
    <2>4. \A c \in Callers : pc'[c] = pc[c] /\ op'[c] = op[c]
      <3>1. CASE Answer(s)
        BY <3>1 DEF Answer, Goto, TypeInv, TypeOK
      <3>2. CASE ExchangeFails(s)
        BY <3>2 DEF ExchangeFails, Goto, TypeInv, TypeOK
      <3> QED
        BY <1>2, <3>1, <3>2
    <2>5. \A t \in Syncers : Holding(t)' => op'[t] \in OpOf(Peer)
      <3>1. CASE ExchangeFails(s)
        BY <3>1 DEF ExchangeFails, Goto, Shape, Holding, TypeInv, TypeOK
      <3>2. CASE Answer(s) /\ ~InDelta(hq', Self, sent[s].vc)
        BY <3>2 DEF Answer, Goto, Shape, Holding, TypeInv, TypeOK
      <3>3. CASE Answer(s) /\ InDelta(hq', Self, sent[s].vc)
        <4>1. hq' \in OurRow /\ hq'.by # Self
          BY <3>3, ExchangeAtHQ DEF InDelta
        <4>2. AsChange(hq') \in OpOf(Peer)
          BY <4>1, OurChange DEF OurRow
        <4>3. op' = [op EXCEPT ![s] = AsChange(hq')] /\ Goto(s, "load")
          BY <3>3 DEF Answer
        <4> QED
          BY <4>2, <4>3 DEF Goto, Shape, Holding, TypeInv, TypeOK
      <3> QED
        BY <1>2, <3>1, <3>2, <3>3
    <2> QED
      BY <2>1, <2>2, <2>3, <2>4, <2>5 DEF Shape
  <1>3. CASE LoadClock(s)
    BY <1>3 DEF LoadClock, Shape, Holding, Goto, TypeInv, TypeOK, remoteVars,
                localVars
  <1>4. CASE StoreClock(s, "get")
    BY <1>4 DEF StoreClock, Shape, Holding, Goto, TypeInv, TypeOK, remoteVars
  <1>5. CASE GetLocal(s)
    BY <1>5 DEF GetLocal, Shape, Holding, Goto, TypeInv, TypeOK, remoteVars,
                localVars
  <1>6. CASE ApplyPulled(s)
    <2>1. op[s] \in OpOf(Peer)
      BY <1>6 DEF ApplyPulled, Shape, Holding
    <2>2. row' \in OurRow \cup {NoRecord}
      BY <1>6, <2>1, OurApply DEF ApplyPulled, Shape, TypeInv, TypeOK
    <2> QED
      BY <1>6, <2>2
      DEF ApplyPulled, Shape, Holding, Goto, TypeInv, TypeOK, remoteVars
  <1>7. CASE PullRaises(s)
    BY <1>7 DEF PullRaises, Shape, Holding, Goto, TypeInv, TypeOK, remoteVars,
                localVars
  <1> QED
    BY <1>1, <1>2, <1>3, <1>4, <1>5, <1>6, <1>7 DEF SyncStep

LEMMA RestartKeepsShape ==
    ASSUME TypeInv, Shape, Restart
    PROVE  Shape'
  <1>1. /\ DOMAIN outbox' = DOMAIN outbox
        /\ \A i \in DOMAIN outbox : outbox'[i].body = outbox[i].body
    BY MarkKeepsType DEF Restart, TypeInv, TypeOK
  <1>2. pc' = [t \in Thread |-> "idle"] /\ rowRead' = [t \in Thread |-> NoRecord]
        /\ row' = row /\ hq' = hq /\ peerRow' = peerRow /\ peerOutbox' = peerOutbox
    BY DEF Restart, remoteVars
  <1> QED
    BY <1>1, <1>2, ThreadsAreApart DEF Shape, Holding

LEMMA OthersKeepShape ==
    ASSUME NoDeletes, TypeInv, Shape, Others
    PROVE  Shape'
  <1>1. ASSUME NEW type \in WriteTypes, NEW payload \in Payloads, NEW ts \in Times,
               PeerWrites(type, payload, ts)
        PROVE  Shape'
    <2> DEFINE write == NewOperation(peerRow, Peer, type, payload, ts)
    <2>1. write \in OpOf(Peer)
      BY OurWrite DEF Shape
    <2> HIDE DEF write
    <2>2. peerRow' \in OurRow
      BY <1>1, <2>1, OurApply DEF PeerWrites, TypeInv, TypeOK, write
    <2>3. peerOutbox' = peerOutbox \cup {write}
      BY <1>1 DEF PeerWrites, write
    <2> QED
      BY <1>1, <2>1, <2>2, <2>3
      DEF PeerWrites, Shape, Holding, localVars, threadVars
  <1>2. ASSUME NEW o \in peerOutbox, PeerPushes(o)
        PROVE  Shape'
    <2>1. o \in OpOf(Peer)
      BY DEF Shape
    <2>2. hq' \in OurRow \cup {NoRecord}
      BY <1>2, <2>1, OurApply DEF PeerPushes, Integrate, Shape, TypeInv, TypeOK
    <2> QED
      BY <1>2, <2>2
      DEF PeerPushes, Shape, Holding, localVars, threadVars
  <1>3. CASE PeerPulls
    <2>1. hq \in OurRow
      BY <1>3 DEF PeerPulls, InDelta, Shape
    <2>2. AsChange(hq) \in OpOf(hq.by) /\ hq.by \in {Self, Peer}
      BY <2>1, OurChange DEF OurRow
    <2>3. peerRow' \in OurRow \cup {NoRecord}
      BY <1>3, <2>2, OurApply
      DEF PeerPulls, Integrate, Shape, TypeInv, TypeOK
    <2> QED
      BY <1>3, <2>3
      DEF PeerPulls, Shape, Holding, localVars, threadVars
  <1> QED
    BY <1>1, <1>2, <1>3 DEF Others

LEMMA NextKeepsShape ==
    ASSUME NoDeletes, TypeInv, Shape, Next
    PROVE  Shape'
  BY WriteKeepsShape, SyncKeepsShape, RestartKeepsShape, OthersKeepShape DEF Next

-----------------------------------------------------------------------------
(* The eras of the record.  An era begins when a site takes over a version *)
(* of the other: that version is its base, and from it each edge counts a  *)
(* run of its own versions.  The winner of the two runs is the base of the *)
(* next era.  A pull that replaces a row it has not read, or a count given *)
(* twice, breaks this only together: see Eras.                             *)

\* A version of edge x, stamped ts, wins over a concurrent one of y, stamped old.
Beats(x, ts, y, old) ==
    \/ ts > old + Tolerance
    \/ old =< ts + Tolerance /\ x > y

LEMMA BeatsIsAsymmetric ==
    ASSUME NEW x \in Nat, NEW y \in Nat, NEW ts \in Nat, NEW old \in Nat
    PROVE  /\ x # y /\ Beats(x, ts, y, old) => ~Beats(y, old, x, ts)
           /\ ts =< old => ~Beats(x, ts, x, old)
  BY ResolverAssumption DEF Beats

LEMMA BeatsIsTotal ==
    ASSUME NEW x \in Nat, NEW y \in Nat, NEW ts \in Nat, NEW old \in Nat,
           x # y, ~Beats(x, ts, y, old)
    PROVE  Beats(y, old, x, ts)
  BY ResolverAssumption DEF Beats

\* What the eras see of a version: the count of its author, the count of the
\* other edge that its author had seen, and the time.
Version == [count : Nat, seen : Nat, ts : Nat]

VersionOf(z, x, y) == [count |-> z.vc[x], seen |-> z.vc[y], ts |-> z.ts]

\* A version counted from the base <<i, k>>.
InRun(v, i, k) == v.seen = k /\ v.count > i

\* Where the versions of edge x stand in an era whose base counts i for x and k
\* for the other edge y: the base has seen a version, or has beaten it, or it is
\* one of the n of the run.  The run is no older than f, the versions that y can
\* still show no older than g.
Side(vs, x, y, i, k, f, g, n, now) ==
    /\ f =< now
    /\ \A v \in vs :
          /\ v.count >= 1 /\ v.ts =< now
          /\ \/ v.count =< i /\ v.seen =< k
             \/ v.seen < k /\ v.ts =< f /\ ~Beats(x, v.ts, y, g)
             \/ InRun(v, i, k) /\ v.count =< i + n /\ f =< v.ts
    /\ \A v, w \in vs :
          InRun(v, i, k) /\ InRun(w, i, k) /\ v.count =< w.count
             => v.ts =< w.ts

LEMMA SideShrinks ==
    ASSUME NEW vs, NEW x, NEW y, NEW i, NEW k, NEW f, NEW g, NEW n, NEW now,
           Side(vs, x, y, i, k, f, g, n, now), NEW ws \in SUBSET vs
    PROVE  Side(ws, x, y, i, k, f, g, n, now)
  BY DEF Side

\* The edge writes the next version of its run.
LEMMA SideGrows ==
    ASSUME NEW vs \in SUBSET Version, NEW x \in Nat, NEW y \in Nat,
           NEW i \in Nat, NEW k \in Nat, NEW f \in Nat, NEW g \in Nat,
           NEW n \in Nat, NEW now \in Nat, NEW ts \in Nat, now =< ts,
           Side(vs, x, y, i, k, f, g, n, now)
    PROVE  LET v == [count |-> i + n + 1, seen |-> k, ts |-> ts]
           IN  Side(vs \cup {v}, x, y, i, k, f, g, n + 1, ts)
  <1> DEFINE v == [count |-> i + n + 1, seen |-> k, ts |-> ts]
  <1>1. \A w \in vs : w.count \in Nat /\ w.seen \in Nat /\ w.ts \in Nat
    BY DEF Version
  <1>2. v.count = i + n + 1 /\ v.seen = k /\ v.ts = ts
    OBVIOUS
  <1> HIDE DEF v
  <1>3. f =< ts
    BY DEF Side
  <1>4. ASSUME NEW w \in vs \cup {v}
        PROVE  /\ w.count >= 1 /\ w.ts =< ts
               /\ \/ w.count =< i /\ w.seen =< k
                  \/ w.seen < k /\ w.ts =< f /\ ~Beats(x, w.ts, y, g)
                  \/ InRun(w, i, k) /\ w.count =< i + (n + 1) /\ f =< w.ts
    BY <1>1, <1>2, <1>3 DEF Side, InRun
  <1>5. \A w \in vs : InRun(w, i, k) => w.count =< i + n /\ w.ts =< ts
    BY <1>1 DEF Side, InRun
  <1>6. ASSUME NEW u \in vs \cup {v}, NEW w \in vs \cup {v},
               InRun(u, i, k), InRun(w, i, k), u.count =< w.count
        PROVE  u.ts =< w.ts
    <2>1. CASE w = v
      BY <1>2, <1>5, <1>6, <2>1
    <2>2. CASE w \in vs
      <3>1. u \in vs
        BY <1>1, <1>2, <1>5, <1>6, <2>2
      <3> QED
        BY <1>6, <2>2, <3>1 DEF Side
    <2> QED
      BY <2>1, <2>2
  <1>7. Side(vs \cup {v}, x, y, i, k, f, g, n + 1, ts)
    BY <1>3, <1>4, <1>6 DEF Side
  <1> QED
    BY <1>7 DEF v

\* A site that stood on the run of x takes over the version <<i, l>> of y, which
\* beats the run: none of the versions of x is left to win.
LEMMA SideLoses ==
    ASSUME NEW vs \in SUBSET Version, NEW x \in Nat, NEW y \in Nat,
           NEW i \in Nat, NEW k \in Nat, NEW f \in Nat, NEW g \in Nat,
           NEW n \in Nat, NEW now \in Nat,
           Side(vs, x, y, i, k, f, g, n, now),
           NEW l \in Nat, k < l, NEW ts \in Nat, g =< ts,
           \A v \in vs : InRun(v, i, k) => ~Beats(x, v.ts, y, ts)
    PROVE  Side(vs, x, y, i, l, now, ts, 0, now)
  <1>1. \A w \in vs : w.count \in Nat /\ w.seen \in Nat /\ w.ts \in Nat
    BY DEF Version
  <1>2. ASSUME NEW v \in vs
        PROVE  /\ v.count >= 1 /\ v.ts =< now
               /\ \/ v.count =< i /\ v.seen =< l
                  \/ v.seen < l /\ v.ts =< now /\ ~Beats(x, v.ts, y, ts)
    <2>1. v.count >= 1 /\ v.ts =< now
      BY DEF Side
    <2>2. CASE v.count =< i /\ v.seen =< k
      BY <1>1, <2>1, <2>2
    <2>3. CASE v.seen < k /\ ~Beats(x, v.ts, y, g)
      <3>1. ~Beats(x, v.ts, y, ts)
        BY <1>1, <2>3, ResolverAssumption DEF Beats
      <3> QED
        BY <1>1, <2>1, <2>3, <3>1
    <2>4. CASE InRun(v, i, k)
      BY <1>1, <2>1, <2>4 DEF InRun
    <2> QED
      BY <2>2, <2>3, <2>4 DEF Side
  <1>3. \A v \in vs : ~InRun(v, i, l)
    BY <1>1 DEF Side, InRun
  <1> QED
    BY <1>2, <1>3 DEF Side

\* The run of x goes on from its version q, which the other site has taken over.
LEMMA SideWins ==
    ASSUME NEW vs \in SUBSET Version, NEW x \in Nat, NEW y \in Nat,
           NEW i \in Nat, NEW k \in Nat, NEW f \in Nat, NEW g \in Nat,
           NEW n \in Nat, NEW now \in Nat,
           Side(vs, x, y, i, k, f, g, n, now),
           NEW q \in vs, InRun(q, i, k), NEW h \in Nat, g =< h
    PROVE  /\ q.count > i /\ q.count =< i + n /\ f =< q.ts /\ q.ts =< now
           /\ i + n - q.count \in Nat
           /\ Side(vs, x, y, q.count, k, q.ts, h, i + n - q.count, now)
  <1>1. \A w \in vs : w.count \in Nat /\ w.seen \in Nat /\ w.ts \in Nat
    BY DEF Version
  <1>2. q.count > i /\ q.count =< i + n /\ f =< q.ts /\ q.ts =< now
    BY <1>1 DEF Side, InRun
  <1>3. i + n - q.count \in Nat
    BY <1>1, <1>2
  <1> DEFINE rest == i + n - q.count
  <1>4. q.count + rest = i + n
    BY <1>1
  <1> HIDE DEF rest
  <1>5. ASSUME NEW v \in vs
        PROVE  /\ v.count >= 1 /\ v.ts =< now
               /\ \/ v.count =< q.count /\ v.seen =< k
                  \/ v.seen < k /\ v.ts =< q.ts /\ ~Beats(x, v.ts, y, h)
                  \/ InRun(v, q.count, k) /\ v.count =< q.count + rest
                     /\ q.ts =< v.ts
    <2>1. v.count >= 1 /\ v.ts =< now
      BY DEF Side
    <2>2. CASE v.count =< i /\ v.seen =< k
      BY <1>1, <1>2, <2>1, <2>2
    <2>3. CASE v.seen < k /\ v.ts =< f /\ ~Beats(x, v.ts, y, g)
      <3>1. ~Beats(x, v.ts, y, h)
        BY <1>1, <2>3, ResolverAssumption DEF Beats
      <3> QED
        BY <1>1, <1>2, <2>1, <2>3, <3>1
    <2>4. CASE InRun(v, i, k) /\ v.count =< i + n /\ v.count =< q.count
      BY <1>1, <2>1, <2>4 DEF InRun
    <2>5. CASE InRun(v, i, k) /\ v.count =< i + n /\ v.count > q.count
      <3>1. q.ts =< v.ts
        BY <1>1, <2>5 DEF Side
      <3> QED
        BY <1>4, <2>1, <2>5, <3>1 DEF InRun
    <2> QED
      BY <1>1, <2>2, <2>3, <2>4, <2>5 DEF Side
  <1>6. ASSUME NEW v \in vs, NEW w \in vs, InRun(v, q.count, k),
               InRun(w, q.count, k), v.count =< w.count
        PROVE  v.ts =< w.ts
    <2>1. InRun(v, i, k) /\ InRun(w, i, k)
      BY <1>1, <1>2, <1>6 DEF InRun
    <2> QED
      BY <1>6, <2>1 DEF Side
  <1>7. Side(vs, x, y, q.count, k, q.ts, h, rest, now)
    BY <1>2, <1>5, <1>6 DEF Side
  <1> QED
    BY <1>2, <1>3, <1>7 DEF rest

\* The clock of the edge goes on.
LEMMA SideAges ==
    ASSUME NEW vs \in SUBSET Version, NEW x, NEW y, NEW i, NEW k, NEW f \in Nat,
           NEW g, NEW n, NEW now \in Nat, NEW later \in Nat, now =< later,
           Side(vs, x, y, i, k, f, g, n, now)
    PROVE  Side(vs, x, y, i, k, f, g, n, later)
  <1>1. \A v \in vs : v.ts \in Nat
    BY DEF Version
  <1>2. f =< later /\ \A v \in vs : v.ts =< later
    BY <1>1 DEF Side
  <1> QED
    BY <1>2 DEF Side

\* When the resolver accepts an operation of edge n.
LEMMA AcceptsByCounts ==
    ASSUME NEW rec \in OurRow \cup {NoRecord}, NEW n \in {Self, Peer},
           NEW o \in OpOf(n), Accepts(rec, o)
    PROVE  \/ rec = NoRecord
           \/ /\ ~Below(o.vc, rec.vc)
              /\ Below(rec.vc, o.vc) \/ Beats(n, o.ts, rec.by, rec.ts)
  <1> SUFFICES ASSUME rec # NoRecord
               PROVE  /\ ~Below(o.vc, rec.vc)
                      /\ Below(rec.vc, o.vc) \/ Beats(n, o.ts, rec.by, rec.ts)
    OBVIOUS
  <1>1. o.vc \in OurClock /\ o.node = n
    BY DEF OpOf
  <1>2. rec.vc \in OurClock /\ ~rec.deleted
    BY DEF OurRow
  <1>3. Comparison(rec, o) = Compare(rec.vc, o.vc)
    BY <1>2 DEF Comparison
  <1>4. Compare(rec.vc, o.vc) # "non_existent"
    BY DEF Compare
  <1>5. Compare(rec.vc, o.vc) \in {"before", "concurrent"}
    BY <1>3, <1>4 DEF Accepts
  <1>6. ~Below(o.vc, rec.vc)
    BY <1>1, <1>2, <1>5, BelowIsLeq
  <1>7. CASE Compare(rec.vc, o.vc) = "before"
    BY <1>1, <1>2, <1>6, <1>7, BelowIsLeq
  <1>8. CASE Compare(rec.vc, o.vc) = "concurrent"
    BY <1>1, <1>3, <1>6, <1>8 DEF Accepts, RemoteWins, Beats
  <1> QED
    BY <1>5, <1>6, <1>7, <1>8

LEMMA VersionType ==
    ASSUME NEW z, z.vc \in Clock, z.ts \in Nat,
           NEW x \in {Self, Peer}, NEW y \in {Self, Peer}
    PROVE  /\ VersionOf(z, x, y) \in Version
           /\ VersionOf(z, x, y).count = z.vc[x]
           /\ VersionOf(z, x, y).seen = z.vc[y]
           /\ VersionOf(z, x, y).ts = z.ts
  <1>1. z.vc[x] \in Nat /\ z.vc[y] \in Nat
    BY Counts
  <1> QED
    BY <1>1 DEF VersionOf, Version

\* A row of the era is not replaced by a version that the base has seen or beaten.
LEMMA OnlyTheRunIsAccepted ==
    ASSUME NEW x \in {Self, Peer}, NEW y \in {Self, Peer}, x # y,
           NEW vs \in SUBSET Version,
           NEW i \in Nat, NEW k \in Nat, NEW f \in Nat, NEW g \in Nat,
           NEW n \in Nat, NEW now \in Nat,
           Side(vs, x, y, i, k, f, g, n, now),
           NEW rec \in OurRow \cup {NoRecord},
           i =< RecordClock(rec)[x], k =< RecordClock(rec)[y],
           rec # NoRecord => rec.ts >= IF rec.by = x THEN f ELSE g,
           NEW o \in OpOf(x), VersionOf(o, x, y) \in vs, Accepts(rec, o)
    PROVE  InRun(VersionOf(o, x, y), i, k)
  <1> DEFINE v == VersionOf(o, x, y)
  <1> SUFFICES InRun(v, i, k)
    OBVIOUS
  <1>1. o.vc \in Clock /\ o.ts \in Nat
    BY DEF OpOf, OurClock, Operation
  <1>2. /\ v.count = o.vc[x] /\ v.seen = o.vc[y] /\ v.ts = o.ts
        /\ v.count \in Nat /\ v.seen \in Nat /\ v.ts \in Nat
    BY <1>1, VersionType DEF Version
  <1> HIDE DEF v
  <1>3. v \in vs
    BY DEF v
  <1>4. /\ v.count >= 1
        /\ \/ v.count =< i /\ v.seen =< k
           \/ v.seen < k /\ v.ts =< f /\ ~Beats(x, v.ts, y, g)
           \/ InRun(v, i, k)
    BY <1>3 DEF Side
  <1>5. x \in Nat /\ y \in Nat
    BY ThreadsAreApart, ResolverAssumption
  <1>6. CASE rec = NoRecord
    <2>1. i = 0 /\ k = 0
      <3>1. RecordClock(rec)[x] = 0 /\ RecordClock(rec)[y] = 0
        BY <1>6, ThreadsAreApart DEF RecordClock, EmptyClock
      <3> QED
        BY <3>1
    <2> QED
      BY <1>2, <1>4, <2>1
  <1>7. CASE rec # NoRecord
    <2>1. /\ rec.vc \in Clock /\ rec.ts \in Nat /\ rec.by \in {x, y}
          /\ RecordClock(rec) = rec.vc
      BY <1>7 DEF OurRow, OurClock, Record, RecordClock
    <2>2. /\ rec.vc[x] \in Nat /\ rec.vc[y] \in Nat
          /\ i =< rec.vc[x] /\ k =< rec.vc[y]
      BY <2>1, Counts
    <2>3. /\ ~Below(o.vc, rec.vc)
          /\ Below(rec.vc, o.vc) \/ Beats(x, o.ts, rec.by, rec.ts)
      BY <1>7, AcceptsByCounts
    <2>4. v.count > rec.vc[x] \/ v.seen > rec.vc[y]
      BY <1>2, <2>2, <2>3 DEF Below
    <2>5. CASE v.count =< i /\ v.seen =< k
      BY <1>2, <2>2, <2>4, <2>5
    <2>6. CASE v.seen < k /\ v.ts =< f /\ ~Beats(x, v.ts, y, g)
      <3>1. ~Below(rec.vc, o.vc)
        BY <1>2, <2>2, <2>6 DEF Below
      <3>2. Beats(x, v.ts, rec.by, rec.ts)
        BY <1>2, <2>3, <3>1
      <3>3. CASE rec.by = x
        <4>1. v.ts =< rec.ts
          BY <1>2, <1>7, <2>1, <2>6, <3>3
        <4> QED
          BY <1>2, <1>5, <2>1, <3>2, <3>3, <4>1, BeatsIsAsymmetric
      <3>4. CASE rec.by = y
        <4>1. g =< rec.ts
          BY <1>7, <2>1, <3>4
        <4>2. Beats(x, v.ts, y, g)
          BY <1>2, <1>5, <2>1, <3>2, <3>4, <4>1, ResolverAssumption DEF Beats
        <4> QED
          BY <2>6, <4>2
      <3> QED
        BY <2>1, <3>3, <3>4
    <2> QED
      BY <1>4, <2>5, <2>6
  <1> QED
    BY <1>6, <1>7

-----------------------------------------------------------------------------
(* The era of a state.                                                     *)

\* The counts and the times of the base, and the versions written on it.
Era == [own : Nat, peer : Nat, ownTime : Nat, peerTime : Nat,
        ownRun : Nat, peerRun : Nat]

\* The versions of this edge that a site may still show.
Mine ==
    {v \in Version :
        \/ \E i \in DOMAIN outbox : v = VersionOf(outbox[i].body, Self, Peer)
        \/ \E c \in Callers :
              pc[c] = "enqueue" /\ v = VersionOf(op[c], Self, Peer)
        \/ \E rec \in {row, hq, peerRow} :
              rec # NoRecord /\ rec.by = Self /\ v = VersionOf(rec, Self, Peer)}

\* The versions of the other edge that the HQ has handed out or has,
Reached ==
    {v \in Version :
        \/ \E s \in Syncers : Holding(s) /\ v = VersionOf(op[s], Peer, Self)
        \/ \E rec \in {row, hq} :
              rec # NoRecord /\ rec.by = Peer /\ v = VersionOf(rec, Peer, Self)}

\* and with them the ones that have not come so far.
Theirs ==
    Reached \cup
    {v \in Version :
        \/ \E o \in peerOutbox : v = VersionOf(o, Peer, Self)
        \/ /\ peerRow # NoRecord /\ peerRow.by = Peer
           /\ v = VersionOf(peerRow, Peer, Self)}

\* The versions of this edge that the HQ acknowledged.
Synced ==
    {v \in Version : \E i \in DOMAIN outbox :
                        /\ outbox[i].state = "synced"
                        /\ v = VersionOf(outbox[i].body, Self, Peer)}

\* A row of the era is no older than its base.
Recent(e, rec) ==
    rec # NoRecord => rec.ts >= IF rec.by = Self THEN e.ownTime ELSE e.peerTime

\* The other edge stands on its run.
InEra(e, mine, theirs, rec, now) ==
    /\ Side(mine, Self, Peer, e.own, e.peer, e.ownTime, e.peerTime, e.ownRun,
            now[Self])
    /\ Side(theirs, Peer, Self, e.peer, e.own, e.peerTime, e.ownTime, e.peerRun,
            now[Peer])
    /\ RecordClock(rec)[Self] = e.own
    /\ RecordClock(rec)[Peer] = e.peer + e.peerRun
    /\ e.peerRun > 0 => rec.by = Peer
    /\ Recent(e, rec)

\* So does this one,
OnRun(e, rec) ==
    /\ RecordClock(rec)[Self] = e.own + e.ownRun
    /\ RecordClock(rec)[Peer] = e.peer
    /\ e.ownRun > 0 => rec.by = Self
    /\ Recent(e, rec)

\* or it has taken over a version of the other, which beats its run,
Pulled(e, rec, mine) ==
    /\ rec # NoRecord /\ rec.by = Peer
    /\ rec.vc[Self] = e.own /\ rec.vc[Peer] > e.peer
    /\ Recent(e, rec)
    /\ \A v \in mine :
          InRun(v, e.own, e.peer) => ~Beats(Self, v.ts, Peer, rec.ts)

\* or one that need not, and the next write repeats a count.
Taken(e, rec, top) ==
    /\ rec # NoRecord /\ rec.by = Peer
    /\ rec.vc[Self] =< e.own /\ rec.vc[Self] < top /\ rec.vc[Peer] > e.peer

\* The HQ holds the base: no version of the runs has come to it,
AtBase(rec, x, y, i, k, f, g, vs, us) ==
    /\ RecordClock(rec)[x] = i /\ RecordClock(rec)[y] = k
    /\ rec # NoRecord => rec.ts >= IF rec.by = x THEN f ELSE g
    /\ \A v \in vs : ~InRun(v, i, k)
    /\ \A u \in us : ~InRun(u, k, i)

\* or the last one of x that came, which beats those of y.
OnTop(rec, x, y, i, k, vs, us) ==
    /\ rec # NoRecord /\ rec.by = x /\ rec.vc[x] > i /\ rec.vc[y] = k
    /\ \A v \in vs : InRun(v, i, k) => v.count =< rec.vc[x]
    /\ \A u \in us : InRun(u, k, i) => Beats(x, rec.ts, y, u.ts)

Holds(rec, x, y, i, k, f, g, vs, us) ==
    \/ AtBase(rec, x, y, i, k, f, g, vs, us)
    \/ OnTop(rec, x, y, i, k, vs, us)
    \/ OnTop(rec, y, x, k, i, us, vs)

AtHub(e, rec, vs, us) ==
    Holds(rec, Self, Peer, e.own, e.peer, e.ownTime, e.peerTime, vs, us)

\* A site shows the version it has.
Shown(rec, mine, theirs) ==
    /\ rec \in OurRow \cup {NoRecord}
    /\ rec # NoRecord /\ rec.by = Self => VersionOf(rec, Self, Peer) \in mine
    /\ rec # NoRecord /\ rec.by = Peer => VersionOf(rec, Peer, Self) \in theirs

\* A write that has its clock and is not stored yet.
Writing(c) == pc[c] \in {"load", "merge", "apply"}

\* It is the next of the run.
NextOfRun(e, o, now) ==
    /\ o.vc[Self] = e.own + e.ownRun + 1 /\ o.vc[Peer] = e.peer
    /\ o.ts = now[Self]

\* What a thread pulls is of the run of the other edge and no older than the row;
\* the row it resolves against can only have been replaced by a write.
InHand(e, o, place, read) ==
    /\ hq # NoRecord /\ hq.by = Peer
    /\ o.vc[Self] = e.own /\ o.vc[Peer] >= e.peer
    /\ row # NoRecord /\ row.by = Peer =>
          IF row.vc[Self] = e.own THEN row.vc[Peer] =< o.vc[Peer]
                                  ELSE o.vc[Peer] > e.peer
    /\ place = "resolve" =>
          /\ o.vc[Peer] = e.peer => Below(o.vc, RecordClock(read))
          /\ row # NoRecord /\ row.by = Peer => read = row

Alone(e) ==
    /\ e.own + e.ownRun =< counted
    /\ \A s \in Syncers : Holding(s) => InHand(e, op[s], pc[s], rowRead[s])
    /\ /\ row # NoRecord /\ row.by = Peer /\ row.vc[Self] < e.own
       /\ hq # NoRecord /\ hq.by = Peer
       => hq.vc[Peer] > e.peer

\* A pull under a write in hand does not end the era before the write is given up.
\* The eras are kept on either of two conditions: the pulls replace what they have
\* read, or (loose) there is one thread that pulls and no count is given twice.
Eras(loose) ==
    \E e \in Era :
        /\ InEra(e, Mine, Theirs, peerRow, lastTime)
        /\ AtHub(e, hq, Synced, Reached)
        /\ \/ OnRun(e, row)
           \/ Pulled(e, row, Mine) /\ \E c \in Callers : Writing(c)
           \/ loose /\ Taken(e, row, counted)
        /\ \A c \in Callers : Writing(c) =>
              \/ NextOfRun(e, op[c], lastTime)
              \/ loose /\ op[c].vc[Self] =< counted
        /\ loose => Alone(e)

\* Only one thread at a time is in sync_now.
OneSync == \A s, t \in Syncers : s = t

LEMMA SetsOfVersions ==
    /\ Mine \in SUBSET Version /\ Theirs \in SUBSET Version
    /\ Reached \in SUBSET Theirs /\ Synced \in SUBSET Mine
  BY DEF Mine, Theirs, Reached, Synced

LEMMA RowType ==
    ASSUME NEW rec \in OurRow
    PROVE  /\ rec.vc \in Clock /\ rec.vc \in OurClock /\ rec.ts \in Nat
           /\ rec.by \in {Self, Peer} /\ rec.vc[rec.by] >= 1
           /\ rec.vc[Self] \in Nat /\ rec.vc[Peer] \in Nat
  BY Counts DEF OurRow, OurClock, Record

LEMMA OurOpType ==
    ASSUME NEW n \in {Self, Peer}, NEW o \in OpOf(n)
    PROVE  /\ o.vc \in Clock /\ o.vc \in OurClock /\ o.ts \in Nat
           /\ o.vc[n] >= 1
           /\ o.vc[Self] \in Nat /\ o.vc[Peer] \in Nat
  BY Counts DEF OpOf, OurClock, Operation

\* The rows and operations show versions of the era.
LEMMA Shows ==
    ASSUME Shape
    PROVE  /\ Shown(row, Mine, Reached) /\ Shown(hq, Mine, Reached)
           /\ Shown(peerRow, Mine, Theirs)
           /\ \A s \in Syncers :
                 Holding(s) => VersionOf(op[s], Peer, Self) \in Reached
           /\ \A o \in peerOutbox : VersionOf(o, Peer, Self) \in Theirs
  <1> USE ThreadsAreApart
  <1>1. ASSUME NEW rec \in OurRow
        PROVE  /\ VersionOf(rec, Self, Peer) \in Version
               /\ VersionOf(rec, Peer, Self) \in Version
    BY RowType, VersionType
  <1>2. ASSUME NEW o \in OpOf(Peer)
        PROVE  VersionOf(o, Peer, Self) \in Version
    BY OurOpType, VersionType
  <1>3. Shown(row, Mine, Reached) /\ Shown(hq, Mine, Reached)
    BY <1>1 DEF Shape, Shown, Mine, Reached
  <1>4. Shown(peerRow, Mine, Theirs)
    BY <1>1 DEF Shape, Shown, Mine, Theirs
  <1>5. \A s \in Syncers : Holding(s) => VersionOf(op[s], Peer, Self) \in Reached
    BY <1>2 DEF Shape, Reached
  <1>6. \A o \in peerOutbox : VersionOf(o, Peer, Self) \in Theirs
    BY <1>2 DEF Shape, Theirs
  <1> QED
    BY <1>3, <1>4, <1>5, <1>6

\* This edge has taken the version r of the other from the HQ.
RowTakes(e, mine, theirs, p, r, now, hub, vs, us) ==
    /\ e \in Era /\ mine \in SUBSET Version /\ theirs \in SUBSET Version
    /\ p \in OurRow \cup {NoRecord} /\ now \in [{Self, Peer} -> Nat]
    /\ InEra(e, mine, theirs, p, now)
    /\ p # NoRecord /\ p.by = Peer => VersionOf(p, Peer, Self) \in theirs
    /\ vs \in SUBSET mine /\ us \in SUBSET theirs
    /\ r \in OurRow /\ Pulled(e, r, mine) /\ VersionOf(r, Peer, Self) \in us
    /\ Shown(hub, mine, us) /\ AtHub(e, hub, vs, us)

\* The era that begins with a version of the other edge in the row.
LEMMA TheRowTurns ==
    ASSUME NEW e, NEW mine, NEW theirs, NEW p, NEW r, NEW now, NEW hub, NEW vs,
           NEW us, RowTakes(e, mine, theirs, p, r, now, hub, vs, us)
    PROVE  \E d \in Era : /\ InEra(d, mine, theirs, p, now) /\ OnRun(d, r)
                          /\ AtHub(d, hub, vs, us)
                          /\ d.own = e.own /\ d.ownRun = 0 /\ d.peer = r.vc[Peer]
  <1> SUFFICES ASSUME e \in Era, mine \in SUBSET Version, theirs \in SUBSET Version,
                      p \in OurRow \cup {NoRecord}, now \in [{Self, Peer} -> Nat],
                      InEra(e, mine, theirs, p, now),
                      p # NoRecord /\ p.by = Peer
                         => VersionOf(p, Peer, Self) \in theirs,
                      vs \in SUBSET mine, us \in SUBSET theirs,
                      r \in OurRow, Pulled(e, r, mine),
                      VersionOf(r, Peer, Self) \in us,
                      Shown(hub, mine, us), AtHub(e, hub, vs, us)
               PROVE  \E d \in Era :
                         /\ InEra(d, mine, theirs, p, now) /\ OnRun(d, r)
                         /\ AtHub(d, hub, vs, us)
                         /\ d.own = e.own /\ d.ownRun = 0 /\ d.peer = r.vc[Peer]
    BY DEF RowTakes
  <1> DEFINE q == VersionOf(r, Peer, Self)
             d == [own |-> e.own, peer |-> r.vc[Peer],
                   ownTime |-> now[Self], peerTime |-> r.ts,
                   ownRun |-> 0, peerRun |-> e.peer + e.peerRun - r.vc[Peer]]
  <1>1. /\ e.own \in Nat /\ e.peer \in Nat /\ e.ownTime \in Nat /\ e.peerTime \in Nat
        /\ e.ownRun \in Nat /\ e.peerRun \in Nat
        /\ now[Self] \in Nat /\ now[Peer] \in Nat
        /\ Self \in Nat /\ Peer \in Nat /\ Self # Peer
    BY ThreadsAreApart, ResolverAssumption DEF Era
  <1>2. /\ r.vc \in Clock /\ r.ts \in Nat /\ r.vc[Self] = e.own
        /\ r.vc[Peer] \in Nat /\ r.vc[Peer] > e.peer /\ r.by = Peer
        /\ e.peerTime =< r.ts
    BY RowType, ThreadsAreApart DEF Pulled, Recent
  <1>3. q \in us /\ q \in theirs
        /\ q.count = r.vc[Peer] /\ q.seen = e.own /\ q.ts = r.ts
        /\ InRun(q, e.peer, e.own)
    BY <1>2, VersionType DEF InRun
  <1>4. Side(theirs, Peer, Self, e.peer, e.own, e.peerTime, e.ownTime, e.peerRun,
             now[Peer])
    BY DEF InEra
  <1>5. e.ownTime =< now[Self]
    BY DEF InEra, Side
  <1> HIDE DEF q
  <1>6. /\ q.count =< e.peer + e.peerRun
        /\ e.peer + e.peerRun - q.count \in Nat
        /\ Side(theirs, Peer, Self, q.count, e.own, q.ts, now[Self],
                e.peer + e.peerRun - q.count, now[Peer])
    BY <1>1, <1>3, <1>4, <1>5, SideWins
  <1>7. Side(mine, Self, Peer, e.own, r.vc[Peer], now[Self], r.ts, 0, now[Self])
    BY <1>1, <1>2, SideLoses DEF InEra, Pulled
  <1>8. d \in Era
    BY <1>1, <1>2, <1>3, <1>6 DEF Era
  <1>9. /\ d.own = e.own /\ d.peer = r.vc[Peer] /\ d.ownTime = now[Self]
        /\ d.peerTime = r.ts /\ d.ownRun = 0
        /\ d.peerRun = e.peer + e.peerRun - r.vc[Peer]
    OBVIOUS
  <1> HIDE DEF d
  <1>10. OnRun(d, r)
    <2>1. RecordClock(r) = r.vc
      BY DEF RecordClock, Pulled
    <2> QED
      BY <1>1, <1>2, <1>9, <2>1 DEF OnRun, Recent
  <1>11. RecordClock(p)[Self] = d.own /\ RecordClock(p)[Peer] = d.peer + d.peerRun
    BY <1>1, <1>2, <1>3, <1>6, <1>9 DEF InEra
  <1>12. p # NoRecord /\ p.by = Peer /\ p.ts >= r.ts
    <2>1. e.peerRun > 0
      BY <1>1, <1>2, <1>3, <1>6
    <2>2. p.by = Peer /\ RecordClock(p)[Peer] = e.peer + e.peerRun
          /\ RecordClock(p)[Self] = e.own
      BY <2>1 DEF InEra
    <2>3. p # NoRecord
      <3>1. RecordClock(p)[Peer] > 0
        BY <1>1, <2>1, <2>2
      <3> QED
        BY <3>1, ThreadsAreApart DEF RecordClock, EmptyClock
    <2>4. RecordClock(p) = p.vc /\ p.vc \in Clock /\ p.ts \in Nat
      BY <2>3, RowType DEF RecordClock
    <2> DEFINE u == VersionOf(p, Peer, Self)
    <2>5. u \in theirs /\ u.count = e.peer + e.peerRun /\ u.seen = e.own
          /\ u.ts = p.ts
      BY <2>2, <2>3, <2>4, VersionType
    <2> HIDE DEF u
    <2>6. InRun(u, e.peer, e.own) /\ q.count =< u.count
      BY <1>1, <1>6, <2>1, <2>5 DEF InRun
    <2>7. q.ts =< u.ts
      BY <1>3, <1>4, <2>5, <2>6 DEF Side
    <2> QED
      BY <1>2, <1>3, <2>2, <2>3, <2>4, <2>5, <2>7
  <1>13. Recent(d, p)
    BY <1>1, <1>9, <1>12 DEF Recent
  <1>14. InEra(d, mine, theirs, p, now)
    BY <1>3, <1>6, <1>7, <1>9, <1>11, <1>12, <1>13 DEF InEra
  <1>15. \A v \in mine : v.count \in Nat /\ ~InRun(v, d.own, d.peer)
    BY <1>1, <1>7, <1>9 DEF Version, Side, InRun
  <1>16. hub # NoRecord =>
            /\ hub \in OurRow /\ RecordClock(hub) = hub.vc /\ hub.vc \in Clock
            /\ hub.ts \in Nat /\ hub.vc[Self] \in Nat /\ hub.vc[Peer] \in Nat
    BY RowType DEF Shown, RecordClock
  <1>17. \A u \in us : u.count \in Nat /\ u.seen \in Nat /\ u.ts \in Nat
    BY DEF Version
  <1>18. AtHub(d, hub, vs, us)
    <2>1. OnTop(hub, Peer, Self, e.peer, e.own, us, vs)
      <3>1. ~AtBase(hub, Self, Peer, e.own, e.peer, e.ownTime, e.peerTime, vs, us)
        BY <1>3 DEF AtBase
      <3>2. ASSUME OnTop(hub, Self, Peer, e.own, e.peer, vs, us)
            PROVE  FALSE
        <4> DEFINE u == VersionOf(hub, Self, Peer)
        <4>1. /\ hub # NoRecord /\ hub.by = Self /\ Beats(Self, hub.ts, Peer, q.ts)
              /\ hub.vc[Self] > e.own /\ hub.vc[Peer] = e.peer
          BY <1>3, <3>2 DEF OnTop
        <4>2. u \in mine /\ u.ts = hub.ts /\ InRun(u, e.own, e.peer)
          BY <4>1 DEF Shown, VersionOf, InRun
        <4> HIDE DEF u
        <4> QED
          BY <1>3, <4>1, <4>2 DEF Pulled
      <3> QED
        BY <3>1, <3>2 DEF AtHub, Holds
    <2>2. /\ hub # NoRecord /\ hub.by = Peer /\ hub.vc[Self] = d.own
          /\ q.count =< hub.vc[Peer] /\ d.peer = q.count
      BY <1>3, <1>9, <2>1 DEF OnTop
    <2>3. \A u \in us : InRun(u, d.peer, d.own)
                        => InRun(u, e.peer, e.own) /\ u.count =< hub.vc[Peer]
      BY <1>1, <1>2, <1>9, <1>17, <2>1 DEF OnTop, InRun
    <2>4. \A v \in vs : ~InRun(v, d.own, d.peer)
      BY <1>15
    <2>5. CASE hub.vc[Peer] > d.peer
      <3>1. OnTop(hub, Peer, Self, d.peer, d.own, us, vs)
        BY <2>2, <2>3, <2>4, <2>5 DEF OnTop
      <3> QED
        BY <3>1 DEF AtHub, Holds
    <2>6. CASE hub.vc[Peer] = d.peer
      <3> DEFINE u == VersionOf(hub, Peer, Self)
      <3>1. /\ u \in theirs /\ u.ts = hub.ts /\ u.count = hub.vc[Peer]
            /\ u.seen = e.own
        BY <1>9, <2>2 DEF Shown, VersionOf
      <3> HIDE DEF u
      <3>2. InRun(u, e.peer, e.own) /\ q.count =< u.count
        BY <2>1, <2>2, <3>1 DEF OnTop, InRun
      <3>3. q.ts =< hub.ts
        BY <1>3, <1>4, <3>1, <3>2 DEF Side
      <3>4. \A w \in us : ~InRun(w, d.peer, d.own)
        BY <1>2, <1>9, <1>16, <1>17, <2>2, <2>3, <2>6 DEF InRun
      <3>5. AtBase(hub, Self, Peer, d.own, d.peer, d.ownTime, d.peerTime, vs, us)
        BY <1>1, <1>3, <1>9, <1>16, <2>2, <2>4, <2>6, <3>3, <3>4 DEF AtBase
      <3> QED
        BY <3>5 DEF AtHub, Holds
    <2> QED
      BY <1>3, <1>9, <1>16, <1>2, <2>2, <2>5, <2>6
  <1> QED
    BY <1>8, <1>9, <1>10, <1>14, <1>18

\* The row of edge x is its last version of the run, or the base.
IsTop(rec, vs, x, y, i, k, f, g, n, now) ==
    /\ Side(vs, x, y, i, k, f, g, n, now)
    /\ RecordClock(rec)[x] = i + n /\ RecordClock(rec)[y] = k
    /\ n > 0 => rec.by = x
    /\ rec # NoRecord /\ rec.by = x => VersionOf(rec, x, y) \in vs

LEMMA TopOfTheRun ==
    ASSUME NEW x \in {Self, Peer}, NEW y \in {Self, Peer}, x # y,
           NEW vs \in SUBSET Version,
           NEW i \in Nat, NEW k \in Nat, NEW f \in Nat, NEW g \in Nat,
           NEW n \in Nat, NEW now \in Nat,
           NEW rec \in OurRow \cup {NoRecord},
           IsTop(rec, vs, x, y, i, k, f, g, n, now),
           NEW v \in vs, InRun(v, i, k)
    PROVE  /\ n > 0 /\ rec \in OurRow /\ rec # NoRecord /\ rec.by = x
           /\ v.count =< i + n /\ v.ts =< rec.ts
  <1>1. \A w \in vs : w.count \in Nat /\ w.seen \in Nat /\ w.ts \in Nat
    BY DEF Version
  <1>2. v.count =< i + n
    BY <1>1 DEF IsTop, Side, InRun
  <1>3. n > 0 /\ rec.by = x
    BY <1>1, <1>2 DEF IsTop, InRun
  <1>4. rec # NoRecord
    <2>1. RecordClock(rec)[x] > 0
      BY <1>3 DEF IsTop
    <2> QED
      BY <2>1, ThreadsAreApart DEF RecordClock, EmptyClock
  <1>5. RecordClock(rec) = rec.vc /\ rec.vc \in Clock /\ rec.ts \in Nat
    BY <1>4, RowType DEF RecordClock
  <1> DEFINE u == VersionOf(rec, x, y)
  <1>6. u \in vs /\ u.count = i + n /\ u.seen = k /\ u.ts = rec.ts
    BY <1>3, <1>4, <1>5, VersionType DEF IsTop
  <1> HIDE DEF u
  <1>7. InRun(u, i, k) /\ v.count =< u.count
    BY <1>1, <1>2, <1>3, <1>6 DEF InRun
  <1>8. v.ts =< rec.ts
    BY <1>6, <1>7 DEF IsTop, Side
  <1> QED
    BY <1>2, <1>3, <1>4, <1>8

\* The other edge, whose row is p, takes the version o of this one, whose row is r,
\* from the HQ.
PeerTakes(e, mine, theirs, p, r, top, now, o, hub, vs, us) ==
    /\ e \in Era /\ mine \in SUBSET Version /\ theirs \in SUBSET Version
    /\ p \in OurRow \cup {NoRecord} /\ r \in OurRow \cup {NoRecord}
    /\ now \in [{Self, Peer} -> Nat]
    /\ InEra(e, mine, theirs, p, now)
    /\ OnRun(e, r) \/ Pulled(e, r, mine) \/ Taken(e, r, top)
    /\ r # NoRecord /\ r.by = Self => VersionOf(r, Self, Peer) \in mine
    /\ r # NoRecord /\ r.by = Peer => VersionOf(r, Peer, Self) \in theirs
    /\ p # NoRecord /\ p.by = Peer => VersionOf(p, Peer, Self) \in theirs
    /\ o \in OpOf(Self) /\ VersionOf(o, Self, Peer) \in mine /\ Accepts(p, o)
    /\ hub \in OurRow /\ hub # NoRecord /\ hub.by = Self
    /\ hub.vc = o.vc /\ hub.ts = o.ts
    /\ vs \in SUBSET mine /\ us \in SUBSET theirs /\ AtHub(e, hub, vs, us)

\* The era that begins with a version of this edge in the row of the other.
LEMMA ThePeerTurns ==
    ASSUME NEW e, NEW mine, NEW theirs, NEW p, NEW r, NEW top, NEW now, NEW o,
           NEW hub, NEW vs, NEW us,
           PeerTakes(e, mine, theirs, p, r, top, now, o, hub, vs, us),
           NEW new \in OurRow, new # NoRecord, new.by = Self, new.vc = o.vc,
           new.ts = o.ts
    PROVE  \E d \in Era : /\ InEra(d, mine, theirs, new, now)
                          /\ \/ OnRun(d, r)
                             \/ Taken(e, r, top) /\ Taken(d, r, top)
                          /\ AtHub(d, hub, vs, us)
                          /\ d.own + d.ownRun = e.own + e.ownRun
                          /\ d.peer = e.peer
  <1> SUFFICES ASSUME e \in Era, mine \in SUBSET Version, theirs \in SUBSET Version,
                      p \in OurRow \cup {NoRecord}, r \in OurRow \cup {NoRecord},
                      now \in [{Self, Peer} -> Nat],
                      InEra(e, mine, theirs, p, now),
                      OnRun(e, r) \/ Pulled(e, r, mine) \/ Taken(e, r, top),
                      r # NoRecord /\ r.by = Self =>
                         VersionOf(r, Self, Peer) \in mine,
                      r # NoRecord /\ r.by = Peer =>
                         VersionOf(r, Peer, Self) \in theirs,
                      p # NoRecord /\ p.by = Peer =>
                         VersionOf(p, Peer, Self) \in theirs,
                      o \in OpOf(Self), VersionOf(o, Self, Peer) \in mine,
                      Accepts(p, o), hub \in OurRow, hub # NoRecord,
                      hub.by = Self, hub.vc = o.vc, hub.ts = o.ts,
                      vs \in SUBSET mine, us \in SUBSET theirs, AtHub(e, hub, vs, us)
               PROVE  \E d \in Era : /\ InEra(d, mine, theirs, new, now)
                                     /\ \/ OnRun(d, r)
                                        \/ Taken(e, r, top) /\ Taken(d, r, top)
                                     /\ AtHub(d, hub, vs, us)
                                     /\ d.own + d.ownRun = e.own + e.ownRun
                                     /\ d.peer = e.peer
    BY DEF PeerTakes
  <1> DEFINE q == VersionOf(o, Self, Peer)
             d == [own |-> q.count, peer |-> e.peer,
                   ownTime |-> q.ts, peerTime |-> now[Peer],
                   ownRun |-> e.own + e.ownRun - q.count, peerRun |-> 0]
  <1>1. /\ e.own \in Nat /\ e.peer \in Nat /\ e.ownTime \in Nat /\ e.peerTime \in Nat
        /\ e.ownRun \in Nat /\ e.peerRun \in Nat
        /\ now[Self] \in Nat /\ now[Peer] \in Nat
        /\ Self \in Nat /\ Peer \in Nat /\ Self # Peer
    BY ThreadsAreApart, ResolverAssumption DEF Era
  <1>2. /\ q.count = o.vc[Self] /\ q.seen = o.vc[Peer] /\ q.ts = o.ts
        /\ q.count \in Nat /\ q.seen \in Nat /\ q.ts \in Nat
        /\ q \in mine
    BY OurOpType, VersionType DEF Version
  <1>3. /\ Side(mine, Self, Peer, e.own, e.peer, e.ownTime, e.peerTime, e.ownRun,
                now[Self])
        /\ Side(theirs, Peer, Self, e.peer, e.own, e.peerTime, e.ownTime,
                e.peerRun, now[Peer])
        /\ RecordClock(p)[Self] = e.own
        /\ RecordClock(p)[Peer] = e.peer + e.peerRun
        /\ e.peerRun > 0 => p.by = Peer
        /\ Recent(e, p)
    BY DEF InEra
  <1>4. InRun(q, e.own, e.peer)
    <2>1. e.peer =< RecordClock(p)[Peer] /\ e.own =< RecordClock(p)[Self]
      BY <1>1, <1>3
    <2> QED
      BY <1>1, <1>2, <1>3, <2>1, OnlyTheRunIsAccepted DEF Recent
  <1> HIDE DEF q
  \* the run of the other edge is beaten
  <1>5. ASSUME NEW v \in theirs, InRun(v, e.peer, e.own)
        PROVE  Beats(Self, q.ts, Peer, v.ts)
    <2>1. IsTop(p, theirs, Peer, Self, e.peer, e.own, e.peerTime, e.ownTime,
                e.peerRun, now[Peer])
      BY <1>3 DEF IsTop
    <2>2. /\ e.peerRun > 0 /\ p \in OurRow /\ p # NoRecord /\ p.by = Peer
          /\ v.ts =< p.ts
      BY <1>1, <1>5, <2>1, TopOfTheRun
    <2>3. RecordClock(p) = p.vc /\ p.ts \in Nat /\ v.ts \in Nat
      BY <2>2, RowType DEF RecordClock, Version
    <2>4. ~Below(p.vc, o.vc)
      BY <1>1, <1>2, <1>3, <1>4, <2>2, <2>3 DEF Below, InRun
    <2>5. Beats(Self, o.ts, Peer, p.ts)
      BY <2>2, <2>4, AcceptsByCounts
    <2> QED
      BY <1>1, <1>2, <2>2, <2>3, <2>5, ResolverAssumption DEF Beats
  <1>6. OnRun(e, r) \/ Taken(e, r, top)
    <2> SUFFICES ASSUME Pulled(e, r, mine)
                 PROVE  FALSE
      OBVIOUS
    <2>1. /\ r # NoRecord /\ r \in OurRow /\ r.by = Peer
          /\ r.vc[Self] = e.own /\ r.vc[Peer] > e.peer
      BY DEF Pulled
    <2> DEFINE u == VersionOf(r, Peer, Self)
    <2>2. u \in theirs /\ u.ts = r.ts /\ InRun(u, e.peer, e.own)
      BY <2>1, RowType, VersionType DEF InRun
    <2> HIDE DEF u
    <2>3. Beats(Self, q.ts, Peer, r.ts)
      BY <1>5, <2>2
    <2> QED
      BY <1>2, <1>4, <2>3 DEF Pulled
  <1>7. e.peerTime =< now[Peer]
    BY <1>3 DEF Side
  <1>8. /\ q.count > e.own /\ q.count =< e.own + e.ownRun
        /\ e.ownTime =< q.ts /\ q.ts =< now[Self]
        /\ e.own + e.ownRun - q.count \in Nat
        /\ Side(mine, Self, Peer, q.count, e.peer, q.ts, now[Peer],
                e.own + e.ownRun - q.count, now[Self])
    BY <1>1, <1>2, <1>3, <1>4, <1>7, SideWins
  <1>9. Side(theirs, Peer, Self, e.peer, q.count, now[Peer], q.ts, 0, now[Peer])
    <2>1. \A v \in theirs :
             InRun(v, e.peer, e.own) => ~Beats(Peer, v.ts, Self, q.ts)
      <3>1. \A v \in theirs : v.ts \in Nat
        BY DEF Version
      <3> QED
        BY <1>1, <1>2, <1>5, <3>1, BeatsIsAsymmetric
    <2> QED
      BY <1>1, <1>2, <1>3, <1>8, <2>1, SideLoses
  <1>10. d \in Era
    BY <1>1, <1>2, <1>8 DEF Era
  <1>11. /\ d.own = q.count /\ d.peer = e.peer /\ d.ownTime = q.ts
         /\ d.peerTime = now[Peer] /\ d.peerRun = 0
         /\ d.ownRun = e.own + e.ownRun - q.count
    OBVIOUS
  <1> HIDE DEF d
  <1>12. d.own + d.ownRun = e.own + e.ownRun
    BY <1>1, <1>2, <1>11
  <1>13. OnRun(d, r) \/ (Taken(e, r, top) /\ Taken(d, r, top))
    <2>1. CASE Taken(e, r, top)
      <3>1. r \in OurRow /\ r.vc[Self] \in Nat
        BY <2>1, RowType DEF Taken
      <3> QED
        BY <1>1, <1>2, <1>8, <1>11, <2>1, <3>1 DEF Taken
    <2>2. CASE OnRun(e, r)
      <3>1. /\ RecordClock(r)[Self] = e.own + e.ownRun
            /\ RecordClock(r)[Peer] = e.peer
            /\ e.ownRun > 0 => r.by = Self
        BY <2>2 DEF OnRun
      <3>2. IsTop(r, mine, Self, Peer, e.own, e.peer, e.ownTime, e.peerTime,
                  e.ownRun, now[Self])
        BY <1>3, <3>1 DEF IsTop
      <3>3. /\ r \in OurRow /\ r # NoRecord /\ r.by = Self /\ q.ts =< r.ts
        BY <1>1, <1>2, <1>4, <3>2, TopOfTheRun
      <3>4. Recent(d, r)
        BY <1>1, <1>2, <1>11, <3>3, RowType DEF Recent
      <3> QED
        BY <1>11, <1>12, <3>1, <3>3, <3>4 DEF OnRun
    <2> QED
      BY <1>6, <2>1, <2>2
  <1>14. InEra(d, mine, theirs, new, now)
    <2>1. RecordClock(new) = o.vc
      BY DEF RecordClock
    <2>2. o.vc[Self] = d.own /\ o.vc[Peer] = d.peer /\ d.peer + d.peerRun = d.peer
      BY <1>1, <1>2, <1>4, <1>11 DEF InRun
    <2>3. Recent(d, new)
      BY <1>1, <1>2, <1>11 DEF Recent
    <2>4. ~(d.peerRun > 0)
      BY <1>11
    <2> QED
      BY <1>8, <1>9, <1>11, <2>1, <2>2, <2>3, <2>4 DEF InEra
  <1>15. AtHub(d, hub, vs, us)
    <2>1. /\ RecordClock(hub) = hub.vc /\ hub.vc[Self] = q.count
          /\ hub.vc[Peer] = q.seen /\ hub.ts = q.ts
      BY <1>2 DEF RecordClock
    <2>2. q.count > e.own /\ q.seen = e.peer
      BY <1>4 DEF InRun
    <2>3. OnTop(hub, Self, Peer, e.own, e.peer, vs, us)
      BY <1>1, <1>2, <2>1, <2>2, ThreadsAreApart DEF AtHub, Holds, AtBase, OnTop
    <2>4. ASSUME NEW v \in vs
          PROVE  ~InRun(v, d.own, d.peer)
      <3>1. v.count \in Nat
        BY DEF Version
      <3> QED
        BY <1>1, <1>2, <1>11, <2>1, <2>2, <2>3, <3>1 DEF OnTop, InRun
    <2>5. ASSUME NEW u \in us
          PROVE  ~InRun(u, d.peer, d.own)
      <3>1. u.count \in Nat /\ u.seen \in Nat
        BY DEF Version
      <3> QED
        BY <1>1, <1>2, <1>9, <1>11, <3>1 DEF Side, InRun
    <2>6. AtBase(hub, Self, Peer, d.own, d.peer, d.ownTime, d.peerTime, vs, us)
      BY <1>2, <1>11, <2>1, <2>2, <2>4, <2>5 DEF AtBase
    <2> QED
      BY <2>6 DEF AtHub, Holds
  <1> QED
    BY <1>10, <1>11, <1>12, <1>13, <1>14, <1>15

-----------------------------------------------------------------------------
(* The HQ in an era.                                                       *)

\* When the resolver discards an operation of edge n.
LEMMA DiscardsByCounts ==
    ASSUME NEW rec \in OurRow \cup {NoRecord}, NEW n \in {Self, Peer},
           NEW o \in OpOf(n), ~Accepts(rec, o)
    PROVE  /\ rec \in OurRow /\ rec # NoRecord
           /\ \/ Below(o.vc, rec.vc)
              \/ ~Below(rec.vc, o.vc) /\ ~Beats(n, o.ts, rec.by, rec.ts)
  <1>1. o.vc \in OurClock /\ o.node = n /\ o.type # "delete"
    BY DEF OpOf
  <1>2. rec \in OurRow /\ rec # NoRecord
    BY <1>1 DEF Accepts, Comparison
  <1>3. rec.vc \in OurClock /\ ~rec.deleted
    BY <1>2 DEF OurRow
  <1>4. Comparison(rec, o) = Compare(rec.vc, o.vc)
    BY <1>2, <1>3 DEF Comparison
  <1>5. CASE ~Below(o.vc, rec.vc) /\ Below(rec.vc, o.vc)
    <2>1. Compare(rec.vc, o.vc) = "before"
      BY <1>1, <1>3, <1>5, BelowIsLeq
    <2> QED
      BY <1>4, <2>1 DEF Accepts
  <1>6. CASE ~Below(o.vc, rec.vc) /\ ~Below(rec.vc, o.vc)
    <2>1. Compare(rec.vc, o.vc) = "concurrent"
      <3>1. ~Leq(rec.vc, o.vc) /\ ~Leq(o.vc, rec.vc)
        BY <1>1, <1>3, <1>6, ThreadsAreApart DEF Leq, Below, OurClock
      <3> QED
        BY <3>1 DEF Compare
    <2>2. ~RemoteWins(rec, o)
      BY <1>4, <2>1 DEF Accepts
    <2> QED
      BY <1>1, <1>2, <1>6, <2>2 DEF RemoteWins, Beats
  <1> QED
    BY <1>2, <1>5, <1>6

LEMMA HubShrinks ==
    ASSUME NEW e, NEW rec, NEW vs, NEW us, AtHub(e, rec, vs, us),
           NEW ws \in SUBSET vs, NEW ys \in SUBSET us,
           NEW d, d.own = e.own, d.peer = e.peer, d.ownTime = e.ownTime,
           d.peerTime = e.peerTime
    PROVE  AtHub(d, rec, ws, ys)
  BY DEF AtHub, Holds, AtBase, OnTop

\* The two sides of an era, and what the HQ holds of the versions that came to it.
Hub(rec, xs, ys, x, y, i, k, f, g, n, m, now, then, vs, us) ==
    /\ x \in {Self, Peer} /\ y \in {Self, Peer} /\ x # y
    /\ xs \in SUBSET Version /\ ys \in SUBSET Version
    /\ vs \in SUBSET xs /\ us \in SUBSET ys
    /\ {i, k, f, g, n, m, now, then} \subseteq Nat
    /\ Side(xs, x, y, i, k, f, g, n, now)
    /\ Side(ys, y, x, k, i, g, f, m, then)
    /\ rec \in OurRow \cup {NoRecord}
    /\ rec # NoRecord /\ rec.by = x => VersionOf(rec, x, y) \in xs
    /\ rec # NoRecord /\ rec.by = y => VersionOf(rec, y, x) \in ys
    /\ Holds(rec, x, y, i, k, f, g, vs, us)

LEMMA HubTurns ==
    ASSUME NEW rec, NEW xs, NEW ys, NEW x, NEW y, NEW i, NEW k, NEW f, NEW g,
           NEW n, NEW m, NEW now, NEW then, NEW vs, NEW us,
           Hub(rec, xs, ys, x, y, i, k, f, g, n, m, now, then, vs, us)
    PROVE  Hub(rec, ys, xs, y, x, k, i, g, f, m, n, then, now, us, vs)
  <1>1. rec # NoRecord => rec.by \in {x, y}
    BY ThreadsAreApart DEF Hub, OurRow
  <1>2. Holds(rec, y, x, k, i, g, f, us, vs)
    BY <1>1 DEF Hub, Holds, AtBase
  <1> QED
    BY <1>2 DEF Hub

LEMMA HubType ==
    ASSUME NEW rec, NEW xs, NEW ys, NEW x, NEW y, NEW i, NEW k, NEW f, NEW g,
           NEW n, NEW m, NEW now, NEW then, NEW vs, NEW us,
           Hub(rec, xs, ys, x, y, i, k, f, g, n, m, now, then, vs, us)
    PROVE  /\ i \in Nat /\ k \in Nat /\ f \in Nat /\ g \in Nat /\ n \in Nat
           /\ m \in Nat /\ now \in Nat /\ then \in Nat
           /\ x \in Nat /\ y \in Nat
           /\ \A v \in xs \cup ys :
                 v.count \in Nat /\ v.seen \in Nat /\ v.ts \in Nat
           /\ rec # NoRecord =>
                 /\ rec \in OurRow /\ RecordClock(rec) = rec.vc
                 /\ rec.vc \in Clock /\ rec.ts \in Nat /\ rec.by \in {x, y}
                 /\ rec.vc[x] \in Nat /\ rec.vc[y] \in Nat
           /\ rec = NoRecord =>
                 RecordClock(rec)[x] = 0 /\ RecordClock(rec)[y] = 0
  <1>1. /\ i \in Nat /\ k \in Nat /\ f \in Nat /\ g \in Nat /\ n \in Nat
        /\ m \in Nat /\ now \in Nat /\ then \in Nat
        /\ x \in {Self, Peer} /\ y \in {Self, Peer} /\ x # y
        /\ xs \in SUBSET Version /\ ys \in SUBSET Version
        /\ rec \in OurRow \cup {NoRecord}
    BY DEF Hub
  <1>2. \A v \in xs \cup ys : v.count \in Nat /\ v.seen \in Nat /\ v.ts \in Nat
    BY <1>1 DEF Version
  <1>3. rec # NoRecord => rec \in OurRow /\ RecordClock(rec) = rec.vc
    BY <1>1 DEF RecordClock
  <1>4. rec = NoRecord => RecordClock(rec)[x] = 0 /\ RecordClock(rec)[y] = 0
    BY <1>1, ThreadsAreApart DEF RecordClock, EmptyClock
  <1>5. rec # NoRecord =>
           /\ rec.vc \in Clock /\ rec.ts \in Nat /\ rec.by \in {x, y}
           /\ rec.vc[x] \in Nat /\ rec.vc[y] \in Nat
    BY <1>1, <1>3, RowType, ThreadsAreApart
  <1>6. x \in Nat /\ y \in Nat
    BY <1>1, ThreadsAreApart, ResolverAssumption
  <1> QED
    BY <1>1, <1>2, <1>3, <1>4, <1>5, <1>6

\* A version of the run is no older than the base.
LEMMA TopIsRecent ==
    ASSUME NEW rec, NEW xs, NEW ys, NEW x, NEW y, NEW i, NEW k, NEW f, NEW g,
           NEW n, NEW m, NEW now, NEW then, NEW vs, NEW us,
           Hub(rec, xs, ys, x, y, i, k, f, g, n, m, now, then, vs, us),
           OnTop(rec, x, y, i, k, vs, us)
    PROVE  /\ VersionOf(rec, x, y) \in xs /\ InRun(VersionOf(rec, x, y), i, k)
           /\ VersionOf(rec, x, y).count = rec.vc[x]
           /\ VersionOf(rec, x, y).ts = rec.ts /\ f =< rec.ts
  <1> DEFINE v == VersionOf(rec, x, y)
  <1>1. /\ rec # NoRecord /\ rec.by = x /\ rec.vc[x] > i /\ rec.vc[y] = k
    BY DEF OnTop
  <1>2. v \in xs /\ v.count = rec.vc[x] /\ v.seen = k /\ v.ts = rec.ts
    BY <1>1 DEF Hub, VersionOf
  <1> HIDE DEF v
  <1>3. InRun(v, i, k)
    BY <1>1, <1>2 DEF InRun
  <1>4. Side(xs, x, y, i, k, f, g, n, now) /\ i \in Nat /\ k \in Nat
        /\ v.count \in Nat /\ v.seen \in Nat
    BY <1>2, HubType DEF Hub
  <1>5. f =< v.ts
    BY <1>2, <1>3, <1>4 DEF Side, InRun
  <1> QED
    BY <1>2, <1>3, <1>5 DEF v

\* What the row of the HQ has seen of the base.
LEMMA HubHasTheBase ==
    ASSUME NEW rec, NEW xs, NEW ys, NEW x, NEW y, NEW i, NEW k, NEW f, NEW g,
           NEW n, NEW m, NEW now, NEW then, NEW vs, NEW us,
           Hub(rec, xs, ys, x, y, i, k, f, g, n, m, now, then, vs, us)
    PROVE  /\ i =< RecordClock(rec)[x] /\ k =< RecordClock(rec)[y]
           /\ rec # NoRecord => rec.ts >= IF rec.by = x THEN f ELSE g
  <1>1. x # y /\ Holds(rec, x, y, i, k, f, g, vs, us)
    BY DEF Hub
  <1>2. CASE AtBase(rec, x, y, i, k, f, g, vs, us)
    BY <1>2, HubType DEF AtBase
  <1>3. CASE OnTop(rec, x, y, i, k, vs, us)
    <2>1. f =< rec.ts
      BY <1>3, TopIsRecent
    <2> QED
      BY <1>3, <2>1, HubType DEF OnTop
  <1>4. CASE OnTop(rec, y, x, k, i, us, vs)
    <2>1. Hub(rec, ys, xs, y, x, k, i, g, f, m, n, then, now, us, vs)
      BY HubTurns
    <2>2. g =< rec.ts
      BY <1>4, <2>1, TopIsRecent
    <2> QED
      BY <1>1, <1>4, <2>2, HubType DEF OnTop
  <1> QED
    BY <1>1, <1>2, <1>3, <1>4 DEF Holds

\* The HQ is sent a version of x.
LEMMA HubTakes ==
    ASSUME NEW rec, NEW xs, NEW ys, NEW x, NEW y, NEW i, NEW k, NEW f, NEW g,
           NEW n, NEW m, NEW now, NEW then, NEW vs, NEW us,
           Hub(rec, xs, ys, x, y, i, k, f, g, n, m, now, then, vs, us),
           NEW o \in OpOf(x), VersionOf(o, x, y) \in xs
    PROVE  LET new == Integrate(rec, o)
               q == VersionOf(o, x, y)
           IN  /\ Hub(new, xs, ys, x, y, i, k, f, g, n, m, now, then,
                      vs \cup {q}, us)
               /\ new = rec \/ OnTop(new, x, y, i, k, vs \cup {q}, us)
  <1> DEFINE q == VersionOf(o, x, y)
             new == Integrate(rec, o)
  <1>1. /\ i \in Nat /\ k \in Nat /\ f \in Nat /\ g \in Nat /\ n \in Nat
        /\ m \in Nat /\ now \in Nat /\ then \in Nat
        /\ x \in Nat /\ y \in Nat
        /\ \A v \in xs \cup ys :
              v.count \in Nat /\ v.seen \in Nat /\ v.ts \in Nat
    BY HubType
  <1>2. rec # NoRecord =>
           /\ rec \in OurRow /\ RecordClock(rec) = rec.vc
           /\ rec.vc \in Clock /\ rec.ts \in Nat /\ rec.by \in {x, y}
           /\ rec.vc[x] \in Nat /\ rec.vc[y] \in Nat
    BY HubType
  <1>3. /\ x \in {Self, Peer} /\ y \in {Self, Peer} /\ x # y
        /\ xs \in SUBSET Version /\ ys \in SUBSET Version
        /\ vs \in SUBSET xs /\ us \in SUBSET ys
        /\ {i, k, f, g, n, m, now, then} \subseteq Nat
        /\ Side(xs, x, y, i, k, f, g, n, now)
        /\ Side(ys, y, x, k, i, g, f, m, then)
        /\ rec \in OurRow \cup {NoRecord}
        /\ rec # NoRecord /\ rec.by = y => VersionOf(rec, y, x) \in ys
        /\ Holds(rec, x, y, i, k, f, g, vs, us)
    BY DEF Hub
  <1>4. /\ q.count = o.vc[x] /\ q.seen = o.vc[y] /\ q.ts = o.ts
        /\ q.count \in Nat /\ q.seen \in Nat /\ q.ts \in Nat /\ q \in xs
        /\ o.vc \in Clock /\ o.ts \in Nat
    <2>1. o.vc \in Clock /\ o.ts \in Nat
      BY <1>3, OurOpType
    <2> QED
      BY <1>3, <2>1, VersionType DEF Version
  <1>5. Accepts(rec, o) => InRun(q, i, k)
    <2>1. /\ i =< RecordClock(rec)[x] /\ k =< RecordClock(rec)[y]
          /\ rec # NoRecord => rec.ts >= IF rec.by = x THEN f ELSE g
      BY HubHasTheBase
    <2> QED
      BY <1>1, <1>3, <1>4, <2>1, OnlyTheRunIsAccepted
  <1> HIDE DEF q
  <1>6. CASE ~Accepts(rec, o)
    <2>1. new = rec
      BY <1>6 DEF Integrate, Resolve
    <2>2. /\ rec \in OurRow /\ rec # NoRecord
          /\ \/ q.count =< rec.vc[x] /\ q.seen =< rec.vc[y]
             \/ /\ ~(rec.vc[x] =< q.count /\ rec.vc[y] =< q.seen)
                /\ ~Beats(x, q.ts, rec.by, rec.ts)
      <3>1. /\ rec \in OurRow /\ rec # NoRecord
            /\ \/ Below(o.vc, rec.vc)
               \/ ~Below(rec.vc, o.vc) /\ ~Beats(x, o.ts, rec.by, rec.ts)
        BY <1>3, <1>6, DiscardsByCounts
      <3>2. \A v, w : Below(v, w) <=> v[x] =< w[x] /\ v[y] =< w[y]
        BY <1>3 DEF Below
      <3> QED
        BY <1>4, <3>1, <3>2
    <2>3. Holds(rec, x, y, i, k, f, g, vs \cup {q}, us)
      <3>1. CASE AtBase(rec, x, y, i, k, f, g, vs, us)
        <4>1. ~InRun(q, i, k)
          BY <1>1, <1>2, <1>4, <2>2, <3>1 DEF AtBase, InRun
        <4> QED
          BY <3>1, <4>1 DEF AtBase, Holds
      <3>2. CASE OnTop(rec, x, y, i, k, vs, us)
        <4>1. InRun(q, i, k) => q.count =< rec.vc[x]
          BY <1>1, <1>2, <1>4, <2>2, <3>2 DEF OnTop, InRun
        <4> QED
          BY <3>2, <4>1 DEF OnTop, Holds
      <3>3. CASE OnTop(rec, y, x, k, i, us, vs)
        <4>1. ASSUME InRun(q, i, k)
              PROVE  Beats(y, rec.ts, x, q.ts)
          <5>1. ~Beats(x, q.ts, y, rec.ts)
            BY <1>1, <1>2, <1>4, <2>2, <3>3, <4>1 DEF OnTop, InRun
          <5> QED
            BY <1>1, <1>2, <1>3, <1>4, <2>2, <5>1, BeatsIsTotal
        <4> QED
          BY <3>3, <4>1 DEF OnTop, Holds
      <3> QED
        BY <1>3, <3>1, <3>2, <3>3 DEF Holds
    <2> QED
      BY <1>4, <2>1, <2>3 DEF Hub, q
  <1>7. CASE Accepts(rec, o)
    <2>1. /\ new \in OurRow /\ new # NoRecord /\ new.by = x
          /\ new.vc = o.vc /\ new.ts = o.ts
      <3>1. new = ApplyOperation(rec, o) /\ rec \in Row
        BY <1>3, <1>7, OurRowClock DEF Integrate, Resolve
      <3> QED
        BY <1>3, <3>1, OurApply
    <2> HIDE DEF new
    <2>2. InRun(q, i, k) /\ q.count > i /\ q.seen = k
      BY <1>5, <1>7 DEF InRun
    <2>3. \/ rec = NoRecord
          \/ /\ ~(q.count =< rec.vc[x] /\ q.seen =< rec.vc[y])
             /\ \/ rec.vc[x] =< q.count /\ rec.vc[y] =< q.seen
                \/ Beats(x, q.ts, rec.by, rec.ts)
      <3>1. \/ rec = NoRecord
            \/ /\ ~Below(o.vc, rec.vc)
               /\ Below(rec.vc, o.vc) \/ Beats(x, o.ts, rec.by, rec.ts)
        BY <1>3, <1>7, AcceptsByCounts
      <3>2. \A v, w : Below(v, w) <=> v[x] =< w[x] /\ v[y] =< w[y]
        BY <1>3 DEF Below
      <3> QED
        BY <1>4, <3>1, <3>2
    <2>4. /\ \A v \in vs : InRun(v, i, k) => v.count =< q.count
          /\ \A u \in us : InRun(u, k, i) => Beats(x, q.ts, y, u.ts)
      <3>1. CASE AtBase(rec, x, y, i, k, f, g, vs, us)
        BY <3>1 DEF AtBase
      <3>2. CASE OnTop(rec, x, y, i, k, vs, us)
        <4> DEFINE w == VersionOf(rec, x, y)
        <4>1. /\ rec # NoRecord /\ rec.by = x /\ rec.vc[x] > i /\ rec.vc[y] = k
          BY <3>2 DEF OnTop
        <4>2. w \in xs /\ w.count = rec.vc[x] /\ w.ts = rec.ts /\ InRun(w, i, k)
          BY <3>2, TopIsRecent
        <4> HIDE DEF w
        <4>3. q.count > rec.vc[x]
          BY <1>1, <1>2, <1>4, <2>2, <2>3, <4>1
        <4>4. rec.ts =< q.ts
          BY <1>2, <1>3, <1>4, <2>2, <4>1, <4>2, <4>3 DEF Side
        <4>5. \A v \in vs : InRun(v, i, k) => v.count =< q.count
          BY <1>1, <1>2, <1>3, <1>4, <3>2, <4>1, <4>3 DEF OnTop
        <4>6. ASSUME NEW u \in us, InRun(u, k, i)
              PROVE  Beats(x, q.ts, y, u.ts)
          <5>1. Beats(x, rec.ts, y, u.ts) /\ u.ts \in Nat
            BY <1>1, <1>3, <3>2, <4>6 DEF OnTop
          <5> QED
            BY <1>1, <1>2, <1>4, <4>1, <4>4, <5>1, ResolverAssumption DEF Beats
        <4> QED
          BY <4>5, <4>6
      <3>3. CASE OnTop(rec, y, x, k, i, us, vs)
        <4> DEFINE w == VersionOf(rec, y, x)
        <4>1. /\ rec # NoRecord /\ rec.by = y /\ rec.vc[y] > k /\ rec.vc[x] = i
          BY <3>3 DEF OnTop
        <4>2. w \in ys /\ w.count = rec.vc[y] /\ w.seen = i /\ w.ts = rec.ts
          BY <1>3, <4>1 DEF VersionOf
        <4> HIDE DEF w
        <4>3. Beats(x, q.ts, y, rec.ts)
          BY <1>1, <1>2, <1>4, <2>2, <2>3, <4>1
        <4>4. ASSUME NEW v \in vs, InRun(v, i, k)
              PROVE  v.count =< q.count
          <5>1. v \in xs /\ v.count \in Nat /\ v.ts \in Nat
            BY <1>1, <1>3
          <5>2. ~Beats(x, v.ts, y, rec.ts)
            <6>1. Beats(y, rec.ts, x, v.ts)
              BY <3>3, <4>4 DEF OnTop
            <6> QED
              BY <1>1, <1>2, <1>3, <4>1, <5>1, <6>1, BeatsIsAsymmetric
          <5>3. CASE v.count > q.count
            <6>1. q.ts =< v.ts
              BY <1>3, <1>4, <2>2, <4>4, <5>1, <5>3 DEF Side
            <6> QED
              BY <1>2, <1>4, <4>1, <4>3, <5>1, <5>2, <6>1, ResolverAssumption
              DEF Beats
          <5> QED
            BY <1>4, <5>1, <5>3
        <4>5. ASSUME NEW u \in us, InRun(u, k, i)
              PROVE  Beats(x, q.ts, y, u.ts)
          <5>1. u \in ys /\ u.ts \in Nat
            BY <1>1, <1>3
          <5>2. InRun(w, k, i) /\ u.count =< w.count
            BY <3>3, <4>1, <4>2, <4>5 DEF OnTop, InRun
          <5>3. u.ts =< rec.ts
            BY <1>3, <4>2, <4>5, <5>1, <5>2 DEF Side
          <5> QED
            BY <1>1, <1>2, <1>4, <4>1, <4>3, <5>1, <5>3, ResolverAssumption
            DEF Beats
        <4> QED
          BY <4>4, <4>5
      <3> QED
        BY <1>3, <3>1, <3>2, <3>3 DEF Holds
    <2>5. OnTop(new, x, y, i, k, vs \cup {q}, us)
      <3>1. new.vc[x] = q.count /\ new.vc[y] = q.seen /\ new.ts = q.ts
        BY <1>4, <2>1
      <3>2. \A v \in vs \cup {q} : InRun(v, i, k) => v.count =< q.count
        BY <1>4, <2>4
      <3> QED
        BY <2>1, <2>2, <2>4, <3>1, <3>2 DEF OnTop
    <2>6. VersionOf(new, x, y) = q
      BY <2>1 DEF VersionOf, q
    <2>7. Hub(new, xs, ys, x, y, i, k, f, g, n, m, now, then, vs \cup {q}, us)
      BY <1>3, <1>4, <2>1, <2>5, <2>6 DEF Hub, Holds
    <2> QED
      BY <2>5, <2>7 DEF q, new
  <1> QED
    BY <1>6, <1>7

\* What the HQ holds in an era of the state.
HubInEra(e, rec, vs, us) ==
    Hub(rec, Mine, Theirs, Self, Peer, e.own, e.peer, e.ownTime, e.peerTime,
        e.ownRun, e.peerRun, lastTime[Self], lastTime[Peer], vs, us)

LEMMA SitesAreInEra ==
    ASSUME TypeInv, Shape, NEW e \in Era,
           InEra(e, Mine, Theirs, peerRow, lastTime),
           AtHub(e, hq, Synced, Reached)
    PROVE  HubInEra(e, hq, Synced, Reached)
  <1>1. {e.own, e.peer, e.ownTime, e.peerTime, e.ownRun, e.peerRun} \subseteq Nat
    BY DEF Era
  <1>2. {lastTime[Self], lastTime[Peer]} \subseteq Nat
    BY DEF TypeInv, TypeOK
  <1>3. Shown(hq, Mine, Theirs)
    BY Shows, SetsOfVersions DEF Shown
  <1> QED
    BY <1>1, <1>2, <1>3, SetsOfVersions, ThreadsAreApart
    DEF HubInEra, Hub, InEra, AtHub, Shown

-----------------------------------------------------------------------------
(* The eras are kept.                                                      *)

LEMMA EraFound ==
    ASSUME TypeInv', Shape', NEW loose \in BOOLEAN, NEW e \in Era,
           InEra(e, Mine', Theirs', peerRow', lastTime'),
           AtHub(e, hq', Synced', Reached'),
           \/ OnRun(e, row') \/ Pulled(e, row', Mine')
           \/ loose /\ Taken(e, row', counted'),
           \A c \in Callers : Writing(c)' =>
              \/ NextOfRun(e, op'[c], lastTime')
              \/ loose /\ op'[c].vc[Self] =< counted',
           loose => Alone(e)'
    PROVE  Eras(loose)'
  <1>1. CASE \/ OnRun(e, row') \/ \E c \in Callers : Writing(c)'
             \/ loose /\ Taken(e, row', counted')
    BY <1>1 DEF Eras
  <1>2. CASE /\ ~OnRun(e, row') /\ \A c \in Callers : ~Writing(c)'
             /\ Pulled(e, row', Mine')
    <2>1. /\ Mine' \in SUBSET Version /\ Theirs' \in SUBSET Version
          /\ Reached' \in SUBSET Theirs' /\ Synced' \in SUBSET Mine'
          /\ lastTime' \in [{Self, Peer} -> Nat]
          /\ peerRow' \in OurRow \cup {NoRecord}
      BY DEF Mine, Theirs, Reached, Synced, TypeInv, TypeOK, Shape
    <2>2. row' \in OurRow /\ row' # NoRecord /\ row'.by = Peer
      BY <1>2 DEF Pulled, Shape
    <2>3. ASSUME NEW rec \in OurRow
          PROVE  /\ VersionOf(rec, Self, Peer) \in Version
                 /\ VersionOf(rec, Peer, Self) \in Version
      BY RowType, VersionType
    <2>4. VersionOf(row', Peer, Self) \in Reached'
      BY <2>2, <2>3 DEF Reached
    <2>5. Shown(hq', Mine', Reached')
      BY <2>3 DEF Shape, Shown, Mine, Reached
    <2>6. peerRow' # NoRecord /\ peerRow'.by = Peer
             => VersionOf(peerRow', Peer, Self) \in Theirs'
      BY <2>1, <2>3 DEF Theirs
    <2>7. PICK d \in Era : /\ InEra(d, Mine', Theirs', peerRow', lastTime')
                           /\ OnRun(d, row') /\ AtHub(d, hq', Synced', Reached')
                           /\ d.own = e.own /\ d.ownRun = 0
                           /\ d.peer = row'.vc[Peer]
      <3>1. RowTakes(e, Mine', Theirs', peerRow', row', lastTime', hq', Synced',
                     Reached')
        BY <1>2, <2>1, <2>2, <2>4, <2>5, <2>6 DEF RowTakes
      <3> QED
        BY <3>1, TheRowTurns
    <2>8. loose => Alone(d)'
      <3> SUFFICES ASSUME loose
                   PROVE  Alone(d)'
        OBVIOUS
      <3>1. /\ row'.vc \in Clock /\ RecordClock(row') = row'.vc
            /\ row'.vc[Self] = e.own /\ row'.vc[Peer] \in Nat
            /\ e.own \in Nat /\ e.peer \in Nat /\ e.ownRun \in Nat
            /\ row'.vc[Peer] > e.peer
        BY <1>2, <2>2, RowType DEF RecordClock, Pulled, Era
      <3>2. d.own + d.ownRun =< counted'
        <4>1. e.own + e.ownRun =< counted' /\ counted' \in Nat
          BY DEF Alone, TypeInv, TypeOK
        <4> QED
          BY <2>7, <3>1, <4>1
      <3>3. ASSUME NEW s \in Syncers, Holding(s)'
            PROVE  InHand(d, op[s], pc[s], rowRead[s])'
        <4>1. InHand(e, op[s], pc[s], rowRead[s])'
          BY <3>3 DEF Alone
        <4>2. /\ op'[s].vc[Self] = d.own /\ op'[s].vc[Peer] >= d.peer
              /\ row'.vc[Peer] =< op'[s].vc[Peer]
          BY <2>2, <2>7, <3>1, <4>1 DEF InHand
        <4>3. pc'[s] = "resolve" =>
                 /\ rowRead'[s] = row'
                 /\ op'[s].vc[Peer] = d.peer => Below(op'[s].vc, RecordClock(row'))
          BY <2>2, <2>7, <3>1, <4>1, <4>2 DEF InHand, Below
        <4> QED
          BY <2>2, <2>7, <3>1, <4>1, <4>2, <4>3 DEF InHand
      <3> QED
        BY <2>7, <3>1, <3>2, <3>3 DEF Alone
    <2> QED
      BY <1>2, <2>7, <2>8 DEF Eras
  <1> QED
    BY <1>1, <1>2

\* What holds in an era of the state.
LEMMA EraOfState ==
    ASSUME NEW loose \in BOOLEAN, Eras(loose), TypeInv, Shape
    PROVE  \E e \in Era :
              /\ InEra(e, Mine, Theirs, peerRow, lastTime)
              /\ AtHub(e, hq, Synced, Reached)
              /\ \/ OnRun(e, row) \/ Pulled(e, row, Mine)
                 \/ loose /\ Taken(e, row, counted)
              /\ \A c \in Callers : Writing(c) =>
                    \/ NextOfRun(e, op[c], lastTime)
                    \/ loose /\ op[c].vc[Self] =< counted
              /\ loose => Alone(e)
              /\ {e.own, e.peer, e.ownTime, e.peerTime, e.ownRun, e.peerRun}
                    \subseteq Nat
  BY DEF Eras, Era

\* What a thread reads when it gets the row.
LEMMA ReadInHand ==
    ASSUME TypeInv, Shape, NEW e \in Era,
           \/ OnRun(e, row) \/ Pulled(e, row, Mine) \/ Taken(e, row, counted),
           NEW s \in Syncers, Holding(s), InHand(e, op[s], pc[s], rowRead[s]),
           NEW place
    PROVE  InHand(e, op[s], place, row)
  <1>1. /\ e.own \in Nat /\ e.peer \in Nat /\ e.ownRun \in Nat
        /\ op[s].vc[Self] = e.own /\ op[s].vc[Peer] >= e.peer
    BY DEF InHand, Era
  <1>2. op[s].vc[Peer] \in Nat /\ row \in OurRow \cup {NoRecord}
    BY OurOpType, ThreadsAreApart DEF Shape
  <1>3. ASSUME op[s].vc[Peer] = e.peer
        PROVE  Below(op[s].vc, RecordClock(row))
    <2>1. CASE OnRun(e, row)
      BY <1>1, <1>3, <2>1 DEF OnRun, Below
    <2>2. CASE Pulled(e, row, Mine) \/ Taken(e, row, counted)
      <3>1. /\ row \in OurRow /\ row # NoRecord /\ row.by = Peer
            /\ row.vc[Peer] \in Nat /\ row.vc[Peer] > e.peer
        BY <1>2, <2>2, RowType DEF Pulled, Taken
      <3> QED
        BY <1>1, <1>2, <1>3, <3>1 DEF InHand
    <2> QED
      BY <2>1, <2>2
  <1> QED
    BY <1>3 DEF InHand

\* Steps that write nothing and at most give up what is in hand.
LEMMA QuietKeepsEras ==
    ASSUME NEW loose \in BOOLEAN, Eras(loose), TypeInv, Shape, TypeInv', Shape',
           row' = row, hq' = hq, peerRow' = peerRow, lastTime' = lastTime,
           counted' = counted,
           Mine' \subseteq Mine, Theirs' \subseteq Theirs,
           Reached' \subseteq Reached, Synced' \subseteq Synced,
           \A c \in Callers : Writing(c)' => Writing(c) /\ op'[c] = op[c],
           \A s \in Syncers : Holding(s)' =>
              /\ Holding(s) /\ op'[s] = op[s]
              /\ pc'[s] = "resolve" =>
                    \/ rowRead'[s] = row
                    \/ pc[s] = "resolve" /\ rowRead'[s] = rowRead[s]
    PROVE  Eras(loose)'
  <1>1. PICK e \in Era :
           /\ InEra(e, Mine, Theirs, peerRow, lastTime)
           /\ AtHub(e, hq, Synced, Reached)
           /\ \/ OnRun(e, row) \/ Pulled(e, row, Mine)
              \/ loose /\ Taken(e, row, counted)
           /\ \A c \in Callers : Writing(c) =>
                 \/ NextOfRun(e, op[c], lastTime)
                 \/ loose /\ op[c].vc[Self] =< counted
           /\ loose => Alone(e)
    BY EraOfState
  <1>2. InEra(e, Mine', Theirs', peerRow', lastTime')
    BY <1>1, SideShrinks DEF InEra
  <1>3. \/ OnRun(e, row') \/ Pulled(e, row', Mine')
        \/ loose /\ Taken(e, row', counted')
    BY <1>1 DEF Pulled
  <1>4. \A c \in Callers : Writing(c)' =>
           \/ NextOfRun(e, op'[c], lastTime')
           \/ loose /\ op'[c].vc[Self] =< counted'
    BY <1>1
  <1>5. AtHub(e, hq', Synced', Reached')
    BY <1>1, HubShrinks
  <1>6. loose => Alone(e)'
    <2> SUFFICES ASSUME loose
                 PROVE  Alone(e)'
      OBVIOUS
    <2>1. ASSUME NEW s \in Syncers, Holding(s)'
          PROVE  InHand(e, op[s], pc[s], rowRead[s])'
      <3>1. /\ Holding(s) /\ op'[s] = op[s]
            /\ InHand(e, op[s], pc[s], rowRead[s])
        BY <1>1, <2>1 DEF Alone
      <3>2. InHand(e, op[s], pc'[s], row)
        BY <1>1, <3>1, ReadInHand
      <3>3. pc'[s] = "resolve" =>
               rowRead'[s] = row \/ (pc[s] = "resolve" /\ rowRead'[s] = rowRead[s])
        BY <2>1
      <3> QED
        BY <3>1, <3>2, <3>3 DEF InHand
    <2> QED
      BY <1>1, <2>1 DEF Alone
  <1> QED
    BY <1>2, <1>3, <1>4, <1>5, <1>6, EraFound

LEMMA BeginKeepsEras ==
    ASSUME NEW loose \in BOOLEAN, Eras(loose), TypeInv, Shape, TypeInv', Shape',
           NEW c \in Callers, NEW type \in WriteTypes, NEW payload \in Payloads,
           NEW ts \in Times, BeginWrite(c, type, payload, ts)
    PROVE  Eras(loose)'
  <1> USE ThreadsAreApart
  <1>1. /\ row' = row /\ hq' = hq /\ peerRow' = peerRow /\ outbox' = outbox
        /\ peerOutbox' = peerOutbox /\ rowRead' = rowRead /\ counted' = counted
    BY DEF BeginWrite, remoteVars, history
  <1>2. \A d \in Callers : /\ ~Writing(d) /\ pc[d] # "enqueue" /\ pc'[d] # "enqueue"
                           /\ d # c => ~Writing(d)'
    BY DEF BeginWrite, Writing, Goto, TypeInv, TypeOK, Places
  <1>3. \A s \in Syncers : pc'[s] = pc[s] /\ op'[s] = op[s]
    BY DEF BeginWrite, Goto, TypeInv, TypeOK
  <1>4. /\ lastTime \in [{Self, Peer} -> Nat] /\ lastTime'[Peer] = lastTime[Peer]
        /\ lastTime[Self] =< ts /\ lastTime'[Self] = ts /\ ts \in Nat
    BY DEF BeginWrite, Stamp, TypeInv, TypeOK
  <1>5. op'[c].vc = Increment(RecordClock(row), Self) /\ op'[c].ts = ts
    <2>1. op'[c] = NewOperation(row, Self, type, payload, ts)
      BY DEF BeginWrite, TypeInv, TypeOK
    <2> QED
      BY <2>1 DEF NewOperation
  <1>6. Mine' = Mine /\ Synced' = Synced
    BY <1>1, <1>2 DEF Mine, Synced
  <1>7. Reached' = Reached /\ Theirs' = Theirs
    BY <1>1, <1>3 DEF Reached, Theirs, Holding
  <1>8. PICK e \in Era : /\ InEra(e, Mine, Theirs, peerRow, lastTime)
                         /\ AtHub(e, hq, Synced, Reached)
                         /\ OnRun(e, row) \/ (loose /\ Taken(e, row, counted))
                         /\ loose => Alone(e)
    BY <1>2 DEF Eras
  <1>9. Side(Mine, Self, Peer, e.own, e.peer, e.ownTime, e.peerTime, e.ownRun, ts)
    <2>1. Side(Mine, Self, Peer, e.own, e.peer, e.ownTime, e.peerTime, e.ownRun,
               lastTime[Self])
      BY <1>8 DEF InEra
    <2>2. lastTime[Self] \in Nat /\ e.ownTime \in Nat
      BY <1>4 DEF Era
    <2> QED
      BY <1>4, <2>1, <2>2, SetsOfVersions, SideAges
  <1>10. InEra(e, Mine', Theirs', peerRow', lastTime')
    BY <1>1, <1>4, <1>6, <1>7, <1>8, <1>9 DEF InEra
  <1>11. \/ NextOfRun(e, op'[c], lastTime')
         \/ loose /\ op'[c].vc[Self] =< counted'
    <2>1. RecordClock(row) \in Clock
      BY OurRowClock DEF Shape, OurClock
    <2>2. /\ op'[c].vc[Self] = RecordClock(row)[Self] + 1
          /\ op'[c].vc[Peer] = RecordClock(row)[Peer]
      BY <1>5, <2>1, CountsAfterIncrement
    <2>3. CASE OnRun(e, row)
      BY <1>4, <1>5, <2>2, <2>3 DEF NextOfRun, OnRun, Era
    <2>4. CASE loose /\ Taken(e, row, counted)
      <3>1. RecordClock(row) = row.vc /\ row.vc[Self] \in Nat
        BY <2>1, <2>4, Counts DEF Taken, RecordClock
      <3> QED
        BY <1>1, <2>2, <2>4, <3>1 DEF Taken, TypeInv, TypeOK
    <2> QED
      BY <1>8, <2>3, <2>4
  <1>12. \A d \in Callers : Writing(d)' => \/ NextOfRun(e, op'[d], lastTime')
                                           \/ loose /\ op'[d].vc[Self] =< counted'
    BY <1>2, <1>11
  <1>13. OnRun(e, row') \/ (loose /\ Taken(e, row', counted'))
    BY <1>1, <1>8
  <1>14. AtHub(e, hq', Synced', Reached')
    BY <1>1, <1>6, <1>7, <1>8
  <1>15. loose => Alone(e)'
    BY <1>1, <1>3, <1>8 DEF Alone, InHand, Holding
  <1> QED
    BY <1>10, <1>12, <1>13, <1>14, <1>15, EraFound

\* The write that is stored is the next of the run, and its clock is a new one.
LEMMA StoreKeepsEras ==
    ASSUME NEW loose \in BOOLEAN, Eras(loose), TypeInv, Shape, TypeInv', Shape',
           NEW c \in Callers, ApplyLocal(c), loose => ~recounted'
    PROVE  /\ Eras(loose)'
           /\ \A i \in DOMAIN outbox : outbox[i].body.vc # op[c].vc
           /\ ~Below(RecordClock(row'), RecordClock(row))
  <1> DEFINE o == op[c]
             w == VersionOf(o, Self, Peer)
  <1> USE ThreadsAreApart
  <1>1. /\ hq' = hq /\ peerRow' = peerRow /\ outbox' = outbox /\ op' = op
        /\ peerOutbox' = peerOutbox /\ rowRead' = rowRead /\ lastTime' = lastTime
    BY DEF ApplyLocal, remoteVars, inputs
  <1>2. Writing(c) /\ pc'[c] = "enqueue" /\ o \in OpOf(Self)
    BY DEF ApplyLocal, Writing, Goto, TypeInv, TypeOK, Shape
  <1>3. \A d \in Callers : ~Writing(d)' /\ (d # c => pc'[d] = "idle")
    BY DEF ApplyLocal, Writing, Goto, TypeInv, TypeOK, Places
  <1>4. \A s \in Syncers : pc'[s] = pc[s]
    BY DEF ApplyLocal, Goto, TypeInv, TypeOK
  <1>5. /\ row' \in OurRow /\ row' # NoRecord /\ row'.by = Self
        /\ row'.vc = o.vc /\ row'.ts = o.ts /\ RecordClock(row') = o.vc
    <2>1. row' = ApplyOperation(row, o)
      BY DEF ApplyLocal
    <2> QED
      BY <1>2, <2>1, OurApply DEF TypeInv, TypeOK, RecordClock
  <1>6. PICK e \in Era :
           /\ InEra(e, Mine, Theirs, peerRow, lastTime)
           /\ AtHub(e, hq, Synced, Reached)
           /\ OnRun(e, row) \/ Pulled(e, row, Mine) \/ Taken(e, row, counted)
           /\ NextOfRun(e, o, lastTime)
           /\ loose => Alone(e)
    <2>1. loose => ~(o.vc[Self] =< counted)
      BY DEF ApplyLocal
    <2> QED
      BY <1>2, <2>1 DEF Eras
  <1>7. /\ e.own \in Nat /\ e.peer \in Nat /\ e.ownTime \in Nat /\ e.peerTime \in Nat
        /\ e.ownRun \in Nat /\ e.peerRun \in Nat
        /\ lastTime[Self] \in Nat /\ Self \in Nat /\ Peer \in Nat
    BY ResolverAssumption DEF Era, TypeInv, TypeOK
  <1>8. /\ o.vc \in Clock /\ o.ts = lastTime[Self]
        /\ o.vc[Self] = e.own + e.ownRun + 1 /\ o.vc[Peer] = e.peer
    BY <1>2, <1>6, OurOpType DEF NextOfRun
  <1> DEFINE z == [count |-> e.own + e.ownRun + 1, seen |-> e.peer,
                   ts |-> lastTime[Self]]
  <1>9. w = z
    BY <1>8 DEF VersionOf
  <1> DEFINE d == [e EXCEPT !.ownRun = @ + 1]
  <1>10. /\ d \in Era
         /\ d.own = e.own /\ d.peer = e.peer /\ d.ownTime = e.ownTime
         /\ d.peerTime = e.peerTime /\ d.ownRun = e.ownRun + 1
         /\ d.peerRun = e.peerRun
    BY DEF Era
  <1> HIDE DEF d, z
  <1>11. Side(Mine, Self, Peer, e.own, e.peer, e.ownTime, e.peerTime, e.ownRun,
              lastTime[Self])
    BY <1>6 DEF InEra
  <1>12. Side(Mine \cup {z}, Self, Peer, e.own, e.peer, e.ownTime, e.peerTime,
              e.ownRun + 1, lastTime[Self])
    BY <1>7, <1>11, SetsOfVersions, SideGrows DEF z
  <1>13. Mine' \subseteq Mine \cup {z}
    <2>1. \A rec \in {row', hq', peerRow'} :
             rec # NoRecord /\ rec.by = Self =>
                rec \in {row, hq, peerRow} \/ VersionOf(rec, Self, Peer) = w
      BY <1>1, <1>5 DEF VersionOf
    <2>2. \A b \in Callers : pc'[b] = "enqueue" => op'[b] = o
      BY <1>1, <1>3
    <2> QED
      BY <1>1, <1>9, <2>1, <2>2 DEF Mine
  <1>14. Reached' \subseteq Reached /\ Theirs' \subseteq Theirs
    <2>1. Reached' \subseteq Reached
      BY <1>1, <1>4, <1>5 DEF Reached, Holding
    <2> QED
      BY <1>1, <2>1 DEF Theirs
  <1>15. InEra(d, Mine', Theirs', peerRow', lastTime')
    <2>1. Side(Mine', Self, Peer, e.own, e.peer, e.ownTime, e.peerTime,
               e.ownRun + 1, lastTime[Self])
      BY <1>12, <1>13, SideShrinks
    <2>2. Side(Theirs', Peer, Self, e.peer, e.own, e.peerTime, e.ownTime, e.peerRun,
               lastTime[Peer])
      BY <1>6, <1>14, SideShrinks DEF InEra
    <2> QED
      BY <1>1, <1>6, <1>10, <2>1, <2>2 DEF InEra, Recent
  <1>16. e.ownTime =< lastTime[Self]
    BY <1>11 DEF Side
  <1>17. OnRun(d, row')
    BY <1>5, <1>7, <1>8, <1>10, <1>16 DEF OnRun, Recent
  <1>18. Eras(loose)'
    <2>1. Synced' = Synced
      BY <1>1 DEF Synced
    <2>2. AtHub(d, hq', Synced', Reached')
      BY <1>1, <1>6, <1>10, <1>14, <2>1, HubShrinks
    <2>3. d.own + d.ownRun =< counted'
      <3>1. o.vc[Self] =< counted'
        <4>1. counted' = IF o.vc[Self] > counted THEN o.vc[Self] ELSE counted
          BY DEF ApplyLocal
        <4>2. counted \in Nat
          BY DEF TypeInv, TypeOK
        <4>3. o.vc[Self] \in Nat
          BY <1>7, <1>8
        <4> QED
          BY <4>1, <4>2, <4>3
      <3> QED
        BY <1>7, <1>8, <1>10, <3>1
    <2>4. loose => Alone(d)'
      BY <1>1, <1>4, <1>5, <1>6, <1>10, <2>3 DEF Alone, InHand, Holding
    <2> QED
      BY <1>3, <1>10, <1>15, <1>17, <2>2, <2>4, EraFound
  <1>19. ASSUME NEW i \in DOMAIN outbox
         PROVE  outbox[i].body.vc # o.vc
    <2> DEFINE v == VersionOf(outbox[i].body, Self, Peer)
    <2>1. outbox[i].body \in OpOf(Self)
      BY DEF Shape
    <2>2. v \in Version /\ v.count = outbox[i].body.vc[Self]
          /\ v.seen = outbox[i].body.vc[Peer]
      BY <2>1, OurOpType, VersionType
    <2>3. v \in Mine
      BY <2>2 DEF Mine
    <2> HIDE DEF v
    <2>4. ~(v.count = e.own + e.ownRun + 1 /\ v.seen = e.peer)
      <3>1. v.count \in Nat /\ v.seen \in Nat
        BY <2>2 DEF Version
      <3> QED
        BY <1>7, <1>11, <2>3, <3>1 DEF Side
    <2> QED
      BY <1>8, <2>2, <2>4
  <1>20. ~Below(o.vc, RecordClock(row))
    <2>1. CASE OnRun(e, row)
      BY <1>7, <1>8, <2>1 DEF OnRun, Below
    <2>2. CASE Pulled(e, row, Mine)
      BY <1>7, <1>8, <2>2 DEF Pulled, RecordClock, Below
    <2>3. CASE Taken(e, row, counted)
      <3>1. RecordClock(row) = row.vc /\ row.vc[Self] \in Nat
        <4>1. row \in OurRow /\ row # NoRecord
          BY <2>3 DEF Taken, Shape
        <4> QED
          BY <4>1, RowType DEF RecordClock
      <3> QED
        BY <1>7, <1>8, <2>3, <3>1 DEF Taken, Below
    <2> QED
      BY <1>6, <2>1, <2>2, <2>3
  <1> QED
    BY <1>5, <1>18, <1>19, <1>20

\* A version that resolving against the row accepts is of the run of the other edge
\* and beats the run of this one.
LEMMA PullOfTheRun ==
    ASSUME TypeInv, Shape, NEW e \in Era,
           InEra(e, Mine, Theirs, peerRow, lastTime),
           OnRun(e, row) \/ Pulled(e, row, Mine),
           NEW s \in Syncers, Holding(s), Accepts(row, op[s])
    PROVE  /\ op[s].vc[Self] = e.own /\ op[s].vc[Peer] > e.peer
           /\ op[s].ts >= e.peerTime
           /\ \A v \in Mine :
                 InRun(v, e.own, e.peer) => ~Beats(Self, v.ts, Peer, op[s].ts)
           /\ ~Below(op[s].vc, RecordClock(row))
  <1> DEFINE o == op[s]
             w == VersionOf(o, Peer, Self)
  <1> USE ThreadsAreApart
  <1>1. /\ e.own \in Nat /\ e.peer \in Nat /\ e.ownTime \in Nat
        /\ e.peerTime \in Nat /\ e.ownRun \in Nat /\ e.peerRun \in Nat
        /\ lastTime[Self] \in Nat /\ lastTime[Peer] \in Nat
        /\ Self \in Nat /\ Peer \in Nat
    BY ResolverAssumption DEF Era, TypeInv, TypeOK
  <1>2. /\ o \in OpOf(Peer)
        /\ Side(Mine, Self, Peer, e.own, e.peer, e.ownTime, e.peerTime, e.ownRun,
                lastTime[Self])
        /\ Side(Theirs, Peer, Self, e.peer, e.own, e.peerTime, e.ownTime,
                e.peerRun, lastTime[Peer])
    BY DEF InEra, Shape
  <1>3. /\ w \in Theirs /\ w \in Version
        /\ w.count = o.vc[Peer] /\ w.seen = o.vc[Self] /\ w.ts = o.ts
        /\ w.count \in Nat /\ w.seen \in Nat /\ w.ts \in Nat
    <2>1. w \in Theirs /\ w \in Version
      BY Shows, SetsOfVersions
    <2> QED
      BY <1>2, <2>1, OurOpType, VersionType DEF Version
  <1>4. /\ row \in OurRow \cup {NoRecord}
        /\ e.own =< RecordClock(row)[Self] /\ e.peer =< RecordClock(row)[Peer]
        /\ Recent(e, row)
    <2>1. row \in OurRow \cup {NoRecord}
      BY DEF Shape
    <2>2. CASE OnRun(e, row)
      BY <1>1, <2>1, <2>2 DEF OnRun
    <2>3. CASE Pulled(e, row, Mine)
      <3>1. row \in OurRow /\ RecordClock(row) = row.vc
        BY <2>1, <2>3 DEF Pulled, RecordClock
      <3>2. row.vc[Peer] \in Nat
        BY <3>1, RowType
      <3> QED
        BY <1>1, <2>1, <2>3, <3>1, <3>2 DEF Pulled
    <2> QED
      BY <2>2, <2>3
  <1>5. InRun(w, e.peer, e.own)
    <2>1. row # NoRecord =>
             row.ts >= IF row.by = Peer THEN e.peerTime ELSE e.ownTime
      <3>1. row # NoRecord => row.by \in {Self, Peer}
        BY <1>4 DEF OurRow
      <3> QED
        BY <1>4, <3>1 DEF Recent
    <2> HIDE DEF w, o
    <2>2. /\ o \in OpOf(Peer) /\ VersionOf(o, Peer, Self) \in Theirs
          /\ Accepts(row, o)
      BY <1>2, <1>3 DEF w, o
    <2>3. InRun(VersionOf(o, Peer, Self), e.peer, e.own)
      BY <1>1, <1>2, <1>4, <2>1, <2>2, SetsOfVersions,
         OnlyTheRunIsAccepted
    <2> QED
      BY <2>3 DEF w
  <1> HIDE DEF w
  <1>6. w.count > e.peer /\ w.seen = e.own /\ w.ts >= e.peerTime
    BY <1>1, <1>2, <1>3, <1>5 DEF InRun, Side
  <1>7. ASSUME NEW v \in Mine, InRun(v, e.own, e.peer)
        PROVE  ~Beats(Self, v.ts, Peer, o.ts)
    <2>1. v.ts \in Nat
      BY SetsOfVersions DEF Version
    <2>2. CASE OnRun(e, row)
      <3>1. row # NoRecord /\ row.by = Self
               => VersionOf(row, Self, Peer) \in Mine
        <4>1. row # NoRecord => VersionOf(row, Self, Peer) \in Version
          BY <1>4, RowType, VersionType
        <4> QED
          BY <4>1 DEF Mine
      <3>2. IsTop(row, Mine, Self, Peer, e.own, e.peer, e.ownTime, e.peerTime,
                  e.ownRun, lastTime[Self])
        BY <1>2, <2>2, <3>1 DEF IsTop, OnRun
      <3>3. /\ e.ownRun > 0 /\ row \in OurRow /\ row # NoRecord
            /\ row.by = Self /\ v.ts =< row.ts
        BY <1>1, <1>4, <1>7, <3>2, SetsOfVersions, TopOfTheRun
      <3>4. RecordClock(row) = row.vc /\ row.ts \in Nat
        BY <3>3, RowType DEF RecordClock
      <3>5. ~Below(row.vc, o.vc)
        BY <1>1, <1>3, <1>6, <2>2, <3>3, <3>4 DEF OnRun, Below
      <3>6. Beats(Peer, o.ts, Self, row.ts)
        BY <1>2, <3>3, <3>5, AcceptsByCounts
      <3>7. Beats(Peer, o.ts, Self, v.ts)
        BY <1>1, <1>3, <2>1, <3>3, <3>4, <3>6, ResolverAssumption DEF Beats
      <3> QED
        BY <1>1, <1>3, <2>1, <3>7, BeatsIsAsymmetric
    <2>3. CASE Pulled(e, row, Mine)
      <3>1. row \in OurRow /\ row.by = Peer /\ row # NoRecord
            /\ row.vc[Self] = e.own /\ ~Beats(Self, v.ts, Peer, row.ts)
        BY <1>4, <1>7, <2>3 DEF Pulled
      <3> DEFINE u == VersionOf(row, Peer, Self)
      <3>2. u \in Theirs /\ u.count = row.vc[Peer] /\ u.seen = e.own
            /\ u.ts = row.ts /\ row.ts \in Nat /\ row.vc[Peer] \in Nat
        <4>1. u \in Theirs
          BY <3>1, Shows, SetsOfVersions DEF Shown
        <4> QED
          BY <3>1, <4>1, RowType, VersionType
      <3> HIDE DEF u
      <3>3. ~Below(o.vc, row.vc)
        BY <1>2, <3>1, AcceptsByCounts
      <3>4. u.count =< w.count
        BY <1>1, <1>3, <1>6, <3>1, <3>2, <3>3 DEF Below
      <3>5. InRun(u, e.peer, e.own)
        BY <2>3, <3>2 DEF InRun, Pulled
      <3>6. u.ts =< w.ts
        BY <1>2, <1>3, <1>5, <3>2, <3>4, <3>5 DEF Side
      <3> QED
        BY <1>1, <1>3, <2>1, <3>1, <3>2, <3>6, ResolverAssumption DEF Beats
    <2> QED
      BY <2>2, <2>3
  <1>8. ~Below(o.vc, RecordClock(row))
    <2>1. CASE row = NoRecord
      <3>1. RecordClock(row)[Peer] = 0
        BY <2>1 DEF RecordClock, EmptyClock
      <3> QED
        BY <1>1, <1>3, <1>6, <3>1 DEF Below
    <2>2. CASE row # NoRecord
      <3>1. RecordClock(row) = row.vc
        BY <2>2 DEF RecordClock
      <3> QED
        BY <1>2, <1>4, <2>2, <3>1, AcceptsByCounts
    <2> QED
      BY <2>1, <2>2
  <1> QED
    BY <1>3, <1>6, <1>7, <1>8

\* So is one that resolving against what was read accepts, but it need not beat the
\* run.
LEMMA PullAlone ==
    ASSUME TypeInv, Shape, NEW e \in Era,
           InEra(e, Mine, Theirs, peerRow, lastTime), Alone(e),
           OnRun(e, row) \/ Pulled(e, row, Mine) \/ Taken(e, row, counted),
           NEW s \in Syncers, pc[s] = "resolve", Accepts(rowRead[s], op[s])
    PROVE  /\ op[s].vc[Self] = e.own /\ op[s].vc[Peer] > e.peer
           /\ op[s].ts >= e.peerTime
           /\ \A v \in Mine : InRun(v, e.own, e.peer) => e.own < counted
           /\ ~Below(op[s].vc, RecordClock(row))
  <1> DEFINE o == op[s]
             w == VersionOf(o, Peer, Self)
  <1> USE ThreadsAreApart
  <1>1. /\ e.own \in Nat /\ e.peer \in Nat /\ e.ownRun \in Nat /\ counted \in Nat
    BY DEF Era, TypeInv, TypeOK
  <1>2. /\ o \in OpOf(Peer) /\ InHand(e, o, "resolve", rowRead[s])
        /\ rowRead[s] \in OurRow \cup {NoRecord} /\ row \in OurRow \cup {NoRecord}
    BY DEF Alone, Holding, Shape
  <1>3. o.vc[Self] \in Nat /\ o.vc[Peer] \in Nat /\ o.vc[Peer] >= 1
    BY <1>2, OurOpType
  <1>4. ~Below(o.vc, RecordClock(rowRead[s]))
    <2>1. CASE rowRead[s] = NoRecord
      BY <1>3, <2>1 DEF RecordClock, EmptyClock, Below
    <2>2. CASE rowRead[s] # NoRecord
      BY <1>2, <2>2, AcceptsByCounts DEF RecordClock
    <2> QED
      BY <2>1, <2>2
  <1>5. o.vc[Self] = e.own /\ o.vc[Peer] > e.peer
    BY <1>1, <1>2, <1>3, <1>4 DEF InHand
  <1>6. o.ts >= e.peerTime
    <2>1. w \in Theirs /\ w \in Version
      BY Shows, SetsOfVersions DEF Holding
    <2>2. w.count = o.vc[Peer] /\ w.seen = o.vc[Self] /\ w.ts = o.ts
      BY <1>2, OurOpType, VersionType
    <2> HIDE DEF w
    <2> QED
      BY <1>1, <1>3, <1>5, <2>1, <2>2 DEF InEra, Side, InRun
  <1>7. ASSUME NEW v \in Mine, InRun(v, e.own, e.peer)
        PROVE  e.own < counted
    <2>1. v.count \in Nat
      BY SetsOfVersions DEF Version
    <2> QED
      BY <1>1, <1>7, <2>1 DEF Alone, InEra, Side, InRun
  <1>8. ~Below(o.vc, RecordClock(row))
    <2>1. CASE row # NoRecord /\ row.by = Peer
      BY <1>2, <1>4, <2>1 DEF InHand
    <2>2. CASE OnRun(e, row)
      BY <1>1, <1>3, <1>5, <2>2 DEF OnRun, Below
    <2> QED
      BY <2>1, <2>2 DEF Pulled, Taken
  <1> QED
    BY <1>5, <1>6, <1>7, <1>8

\* A pull that does to the row what resolving against it says, and one that is alone.
LEMMA PullKeepsEras ==
    ASSUME NEW loose \in BOOLEAN, Eras(loose), TypeInv, Shape, TypeInv', Shape',
           NEW s \in Syncers, ApplyPulled(s),
           IF loose THEN OneSync ELSE row' = Integrate(row, op[s])
    PROVE  /\ Eras(loose)'
           /\ row' = row \/ ~Below(RecordClock(row'), RecordClock(row))
  <1> DEFINE o == op[s]
             w == VersionOf(o, Peer, Self)
  <1> USE ThreadsAreApart
  <1>1. /\ hq' = hq /\ peerRow' = peerRow /\ outbox' = outbox
        /\ peerOutbox' = peerOutbox /\ lastTime' = lastTime /\ counted' = counted
    BY DEF ApplyPulled, remoteVars, inputs
  <1>2. \A c \in Callers : pc'[c] = pc[c] /\ op'[c] = op[c]
    BY DEF ApplyPulled, Goto, TypeInv, TypeOK
  <1>3. \A t \in Syncers : Holding(t)' =>
           /\ Holding(t) /\ op'[t] = op[t] /\ t # s
           /\ pc'[t] = pc[t] /\ rowRead'[t] = rowRead[t]
    BY DEF ApplyPulled, Goto, Holding, TypeInv, TypeOK
  <1>4. pc[s] = "resolve" /\ Holding(s) /\ o \in OpOf(Peer)
    BY DEF ApplyPulled, Holding, Shape
  <1>5. CASE row' = row
    <2>1. Mine' = Mine /\ Synced' = Synced
      BY <1>1, <1>2, <1>5 DEF Mine, Synced
    <2>2. Reached' \subseteq Reached
      BY <1>1, <1>3, <1>5 DEF Reached
    <2>3. Theirs' \subseteq Theirs
      BY <1>1, <2>2 DEF Theirs
    <2>4. \A c \in Callers : Writing(c)' => Writing(c) /\ op'[c] = op[c]
      BY <1>2 DEF Writing
    <2> QED
      BY <1>1, <1>3, <1>5, <2>1, <2>2, <2>3, <2>4, QuietKeepsEras
  <1>6. CASE row' # row
    <2>1. /\ row' = ApplyOperation(row, o)
          /\ Accepts(IF loose THEN rowRead[s] ELSE row, o)
      BY <1>6 DEF ApplyPulled, Integrate, Resolve
    <2>2. /\ row' \in OurRow /\ row' # NoRecord /\ row'.by = Peer
          /\ row'.vc = o.vc /\ row'.ts = o.ts /\ RecordClock(row') = o.vc
      BY <1>4, <2>1, OurApply DEF TypeInv, TypeOK, RecordClock
    <2>3. PICK e \in Era :
             /\ InEra(e, Mine, Theirs, peerRow, lastTime)
             /\ AtHub(e, hq, Synced, Reached)
             /\ \/ OnRun(e, row) \/ Pulled(e, row, Mine)
                \/ loose /\ Taken(e, row, counted)
             /\ \A c \in Callers : Writing(c) =>
                   \/ NextOfRun(e, op[c], lastTime)
                   \/ loose /\ op[c].vc[Self] =< counted
             /\ loose => Alone(e)
      BY EraOfState
    <2>4. /\ o.vc[Self] = e.own /\ o.vc[Peer] > e.peer /\ o.ts >= e.peerTime
          /\ \A v \in Mine : InRun(v, e.own, e.peer) =>
                \/ ~Beats(Self, v.ts, Peer, o.ts)
                \/ loose /\ e.own < counted
          /\ ~Below(o.vc, RecordClock(row))
      BY <1>4, <2>1, <2>3, PullOfTheRun, PullAlone
    <2>5. Mine' \subseteq Mine /\ Synced' = Synced
      BY <1>1, <1>2, <2>2 DEF Mine, Synced
    <2>6. Reached' \subseteq Reached
      <3>1. VersionOf(row', Peer, Self) = w /\ w \in Reached
        BY <1>4, <2>2, Shows DEF VersionOf
      <3> QED
        BY <1>1, <1>3, <3>1 DEF Reached
    <2>7. Theirs' \subseteq Theirs
      BY <1>1, <2>6 DEF Theirs
    <2>8. Recent(e, row')
      BY <2>2, <2>4 DEF Recent
    <2>9. Pulled(e, row', Mine') \/ (loose /\ Taken(e, row', counted'))
      <3>1. CASE \A v \in Mine :
                    InRun(v, e.own, e.peer) => ~Beats(Self, v.ts, Peer, o.ts)
        BY <2>2, <2>4, <2>5, <2>8, <3>1 DEF Pulled
      <3>2. CASE loose /\ e.own < counted
        <4>1. e.own \in Nat
          BY DEF Era
        <4> QED
          BY <1>1, <2>2, <2>4, <3>2, <4>1 DEF Taken
      <3> QED
        BY <2>4, <3>1, <3>2
    <2>10. InEra(e, Mine', Theirs', peerRow', lastTime')
      BY <1>1, <2>3, <2>5, <2>7, SideShrinks DEF InEra
    <2>11. \A c \in Callers : Writing(c)' =>
              \/ NextOfRun(e, op'[c], lastTime')
              \/ loose /\ op'[c].vc[Self] =< counted'
      BY <1>1, <1>2, <2>3 DEF Writing
    <2>12. AtHub(e, hq', Synced', Reached')
      BY <1>1, <2>3, <2>5, <2>6, HubShrinks
    <2>13. loose => Alone(e)'
      <3> SUFFICES ASSUME loose
                   PROVE  Alone(e)'
        OBVIOUS
      <3>1. \A t \in Syncers : ~Holding(t)'
        BY <1>3 DEF OneSync
      <3>2. row'.vc[Self] = e.own /\ e.own \in Nat
        BY <2>2, <2>4 DEF Era
      <3> QED
        BY <1>1, <2>3, <3>1, <3>2 DEF Alone
    <2> QED
      BY <2>2, <2>4, <2>9, <2>10, <2>11, <2>12, <2>13, EraFound
  <1> QED
    BY <1>5, <1>6

\* Steps of a write that neither begin nor store it.
LEMMA QuietWrite ==
    ASSUME TypeInv, NEW c \in Callers,
           \/ LoadClock(c) \/ StoreClock(c, "apply") \/ Enqueue(c)
           \/ WriteRaises(c)
    PROVE  /\ row' = row /\ hq' = hq /\ peerRow' = peerRow /\ rowRead' = rowRead
           /\ lastTime' = lastTime /\ peerOutbox' = peerOutbox /\ counted' = counted
           /\ \A s \in Syncers : pc'[s] = pc[s] /\ op'[s] = op[s]
           /\ \A d \in Callers : pc'[d] = "enqueue" =>
                 pc[d] = "enqueue" /\ op'[d] = op[d]
           /\ \A d \in Callers : Writing(d)' => Writing(d) /\ op'[d] = op[d]
           /\ \A i \in DOMAIN outbox' :
                 \/ i \in DOMAIN outbox /\ outbox'[i] = outbox[i]
                 \/ /\ Enqueue(c) /\ pc[c] = "enqueue" /\ i = Len(outbox) + 1
                    /\ outbox'[i].body = op[c] /\ outbox'[i].state = "pending"
  <1> USE ThreadsAreApart
  <1>1. CASE LoadClock(c) \/ StoreClock(c, "apply")
    BY <1>1 DEF LoadClock, StoreClock, Goto, Writing, TypeInv, TypeOK, localVars,
                remoteVars, inputs, history
  <1>2. CASE Enqueue(c) \/ WriteRaises(c)
    <2>1. \A s \in Syncers : pc'[s] = pc[s] /\ op'[s] = op[s]
      BY <1>2 DEF Enqueue, WriteRaises, Leave, Goto, TypeInv, TypeOK
    <2>2. \A d \in Callers : pc'[d] = "idle" \/ (pc'[d] = pc[d] /\ op'[d] = op[d])
      <3>1. pc' = [pc EXCEPT ![c] = "idle"] /\ op' = [op EXCEPT ![c] = NoOperation]
        BY <1>2 DEF Enqueue, WriteRaises, Leave, Goto
      <3>2. DOMAIN pc = Thread /\ DOMAIN op = Thread
        BY DEF TypeInv, TypeOK
      <3>3. pc'[c] = "idle"
        BY <3>1, <3>2
      <3>4. \A d \in Callers : d # c => pc'[d] = pc[d] /\ op'[d] = op[d]
        BY <3>1, <3>2
      <3> QED
        BY <3>3, <3>4
    <2>3. /\ row' = row /\ hq' = hq /\ peerRow' = peerRow /\ rowRead' = rowRead
          /\ lastTime' = lastTime /\ peerOutbox' = peerOutbox /\ counted' = counted
      BY <1>2 DEF Enqueue, WriteRaises, remoteVars, inputs, history
    <2>4. \A i \in DOMAIN outbox' :
             \/ i \in DOMAIN outbox /\ outbox'[i] = outbox[i]
             \/ /\ Enqueue(c) /\ pc[c] = "enqueue" /\ i = Len(outbox) + 1
                /\ outbox'[i].body = op[c] /\ outbox'[i].state = "pending"
      <3>1. CASE WriteRaises(c)
        BY <3>1 DEF WriteRaises
      <3>2. CASE Enqueue(c)
        <4>1. /\ outbox \in Seq(Queued) /\ pc[c] = "enqueue"
              /\ outbox' = Append(outbox, [body |-> op[c], state |-> "pending"])
          BY <3>2 DEF Enqueue, TypeInv, TypeOK
        <4> QED
          BY <3>2, <4>1
      <3> QED
        BY <1>2, <3>1, <3>2
    <2> QED
      BY <2>1, <2>2, <2>3, <2>4 DEF Writing
  <1> QED
    BY <1>1, <1>2

LEMMA QuietWriteKeepsEras ==
    ASSUME NEW loose \in BOOLEAN, Eras(loose), TypeInv, Shape, TypeInv', Shape',
           NEW c \in Callers,
           \/ LoadClock(c) \/ StoreClock(c, "apply") \/ Enqueue(c)
           \/ WriteRaises(c)
    PROVE  Eras(loose)'
  <1>1. /\ row' = row /\ hq' = hq /\ peerRow' = peerRow /\ lastTime' = lastTime
        /\ peerOutbox' = peerOutbox /\ counted' = counted /\ rowRead' = rowRead
        /\ \A s \in Syncers : pc'[s] = pc[s] /\ op'[s] = op[s]
        /\ \A d \in Callers : pc'[d] = "enqueue" =>
              pc[d] = "enqueue" /\ op'[d] = op[d]
        /\ \A d \in Callers : Writing(d)' => Writing(d) /\ op'[d] = op[d]
        /\ \A i \in DOMAIN outbox' :
              \/ i \in DOMAIN outbox /\ outbox'[i] = outbox[i]
              \/ /\ pc[c] = "enqueue" /\ outbox'[i].body = op[c]
                 /\ outbox'[i].state = "pending"
    BY QuietWrite
  <1>2. Mine' \subseteq Mine
    BY <1>1 DEF Mine
  <1>3. Reached' \subseteq Reached
    BY <1>1 DEF Reached, Holding
  <1>4. Theirs' \subseteq Theirs
    BY <1>1, <1>3 DEF Theirs
  <1>5. Synced' \subseteq Synced
    BY <1>1 DEF Synced
  <1>6. \A s \in Syncers : Holding(s)' => Holding(s)
    BY <1>1 DEF Holding
  <1> QED
    BY <1>1, <1>2, <1>3, <1>4, <1>5, <1>6, QuietKeepsEras

LEMMA QuietSyncKeepsEras ==
    ASSUME NEW loose \in BOOLEAN, Eras(loose), TypeInv, Shape, TypeInv', Shape',
           NEW s \in Syncers,
           \/ ReadBatch(s) \/ SendPush(s) \/ LoadClock(s) \/ StoreClock(s, "get")
           \/ GetLocal(s) \/ PullRaises(s)
    PROVE  Eras(loose)'
  <1> USE ThreadsAreApart
  <1>1. /\ row' = row /\ hq' = hq /\ peerRow' = peerRow /\ outbox' = outbox
        /\ peerOutbox' = peerOutbox /\ counted' = counted /\ lastTime' = lastTime
    BY DEF ReadBatch, SendPush, LoadClock, StoreClock, GetLocal, PullRaises,
           localVars, remoteVars, inputs, history
  <1>2. \A c \in Callers : pc'[c] = pc[c] /\ op'[c] = op[c]
    <2>1. CASE ReadBatch(s) \/ SendPush(s) \/ LoadClock(s)
      BY <2>1 DEF ReadBatch, SendPush, LoadClock, Goto, TypeInv, TypeOK
    <2>2. CASE StoreClock(s, "get") \/ GetLocal(s)
      BY <2>2 DEF StoreClock, GetLocal, Goto, TypeInv, TypeOK
    <2>3. CASE PullRaises(s)
      BY <2>3 DEF PullRaises, Goto, TypeInv, TypeOK
    <2> QED
      BY <2>1, <2>2, <2>3
  <1>3. \A t \in Syncers : Holding(t)' =>
           /\ Holding(t) /\ op'[t] = op[t]
           /\ pc'[t] = "resolve" =>
                 rowRead'[t] = row \/ (pc[t] = "resolve" /\ rowRead'[t] = rowRead[t])
    <2>1. CASE ReadBatch(s) \/ SendPush(s)
      BY <2>1 DEF ReadBatch, SendPush, Goto, Holding, TypeInv, TypeOK
    <2>2. CASE LoadClock(s) \/ StoreClock(s, "get")
      BY <2>2 DEF LoadClock, StoreClock, Goto, Holding, TypeInv, TypeOK
    <2>3. CASE GetLocal(s)
      BY <2>3 DEF GetLocal, Goto, Holding, TypeInv, TypeOK
    <2>4. CASE PullRaises(s)
      BY <2>4 DEF PullRaises, Goto, Holding, TypeInv, TypeOK
    <2> QED
      BY <2>1, <2>2, <2>3, <2>4
  <1>4. Mine' \subseteq Mine /\ Synced' \subseteq Synced
    BY <1>1, <1>2 DEF Mine, Synced
  <1>5. Reached' \subseteq Reached
    BY <1>1, <1>3 DEF Reached
  <1>6. Theirs' \subseteq Theirs
    BY <1>1, <1>5 DEF Theirs
  <1>7. \A c \in Callers : Writing(c)' => Writing(c) /\ op'[c] = op[c]
    BY <1>2 DEF Writing
  <1> QED
    BY <1>1, <1>3, <1>4, <1>5, <1>6, <1>7, QuietKeepsEras

\* The versions of a push among the first n operations of the outbox.
Pushed(ids, n) ==
    {v \in Version :
        \E i \in DOMAIN outbox :
            i \in ids /\ i =< n /\ v = VersionOf(outbox[i].body, Self, Peer)}

\* The HQ has been sent the versions of a push, one by one.
LEMMA HubAfterPush ==
    ASSUME TypeInv, Shape, NEW e \in Era,
           InEra(e, Mine, Theirs, peerRow, lastTime),
           AtHub(e, hq, Synced, Reached), NEW ids
    PROVE  AtHub(e, AtHQ(ids), Synced \cup Pushed(ids, Len(outbox)), Reached)
  <1> DEFINE last == Len(outbox)
             Now(n) == Synced \cup Pushed(ids, n)
  <1>1. last \in Nat /\ DOMAIN outbox = 1 .. last
    BY DEF TypeInv, TypeOK
  <1>2. PICK f : Run(ids, last, f) /\ AtHQ(ids) = f[last]
    BY <1>1, AtHQIsARun
  <1>3. f = [n \in 0 .. last |->
               IF n = 0 THEN hq
               ELSE IF n \in ids THEN Integrate(f[n - 1], outbox[n].body)
               ELSE f[n - 1]]
    BY <1>2 DEF Run
  <1> DEFINE T == {n \in 0 .. last :
                     HubInEra(e, f[n], Now(n), Reached)}
  <1>4. 0 \in T
    <2>1. f[0] = hq
      BY <1>1, <1>3
    <2>2. Now(0) = Synced
      BY <1>1 DEF Pushed
    <2>3. HubInEra(e, hq, Synced, Reached)
      BY SitesAreInEra
    <2> HIDE DEF Now
    <2>4. HubInEra(e, f[0], Now(0), Reached)
      BY <2>1, <2>2, <2>3
    <2>5. 0 \in 0 .. last
      BY <1>1
    <2> QED
      BY <2>4, <2>5
  <1>5. ASSUME NEW n \in 0 .. last, n \in T, n < last
        PROVE  n + 1 \in T
    <2>1. n + 1 \in 1 .. last /\ n + 1 \in 0 .. last /\ (n + 1) - 1 = n
          /\ n + 1 # 0
      BY <1>1, <1>5
    <2>2. f[n + 1] = IF n + 1 \in ids
                     THEN Integrate(f[n], outbox[n + 1].body) ELSE f[n]
      BY <1>3, <2>1
    <2>3. HubInEra(e, f[n], Now(n), Reached)
      BY <1>5
    <2>4. CASE n + 1 \notin ids
      <3>1. Pushed(ids, n + 1) = Pushed(ids, n)
        BY <1>1, <2>4 DEF Pushed
      <3> QED
        BY <2>1, <2>2, <2>3, <2>4, <3>1
    <2>5. CASE n + 1 \in ids
      <3> DEFINE o == outbox[n + 1].body
                 q == VersionOf(o, Self, Peer)
      <3>1. o \in OpOf(Self)
        BY <1>1, <2>1 DEF Shape
      <3>2. q \in Version
        BY <3>1, OurOpType, VersionType, ThreadsAreApart
      <3>3. q \in Mine
        BY <1>1, <2>1, <3>2 DEF Mine
      <3>4. Pushed(ids, n + 1) = Pushed(ids, n) \cup {q}
        BY <1>1, <2>1, <2>5, <3>2 DEF Pushed
      <3> HIDE DEF o
      <3>5. HubInEra(e, Integrate(f[n], o), Now(n) \cup {VersionOf(o, Self, Peer)},
                     Reached)
        <4> HIDE DEF Now
        <4> QED
          BY <2>3, <3>1, <3>3, HubTakes DEF HubInEra
      <3>6. Now(n) \cup {VersionOf(o, Self, Peer)} = Now(n + 1)
        BY <3>4
      <3>7. f[n + 1] = Integrate(f[n], o)
        BY <2>2, <2>5 DEF o
      <3> QED
        BY <2>1, <3>5, <3>6, <3>7
    <2> QED
      BY <2>4, <2>5
  <1> HIDE DEF T
  <1> HIDE DEF last
  <1>6. \A n \in 0 .. last : n \in T
    BY <1>1, <1>4, <1>5, CountUp
  <1>7. last \in T
    BY <1>1, <1>6
  <1> QED
    BY <1>2, <1>7 DEF T, HubInEra, Hub, AtHub, last

LEMMA MarkedAreSynced ==
    ASSUME TypeInv, NEW ids, Mark(ids, "synced")
    PROVE  Synced' \subseteq Synced \cup Pushed(ids, Len(outbox))
  <1>1. /\ DOMAIN outbox' = DOMAIN outbox /\ DOMAIN outbox = 1 .. Len(outbox)
        /\ \A i \in DOMAIN outbox : outbox'[i].body = outbox[i].body
    BY MarkKeepsType DEF TypeInv, TypeOK
  <1>2. \A i \in DOMAIN outbox : i \notin ids => outbox'[i] = outbox[i]
    BY DEF Mark
  <1>3. Len(outbox) \in Nat
    BY DEF TypeInv, TypeOK
  <1> QED
    BY <1>1, <1>2, <1>3 DEF Synced, Pushed

LEMMA MarkedAreNotSynced ==
    ASSUME TypeInv, NEW ids, NEW state \in {"pending", "failed"}, Mark(ids, state)
    PROVE  Synced' \subseteq Synced
  <1>1. /\ DOMAIN outbox' = DOMAIN outbox
        /\ \A i \in DOMAIN outbox : outbox'[i].body = outbox[i].body
    BY MarkKeepsType DEF TypeInv, TypeOK
  <1>2. ASSUME NEW i \in DOMAIN outbox, outbox'[i].state = "synced"
        PROVE  outbox[i].state = "synced"
    <2>1. outbox[i] \in Queued
      BY DEF TypeInv, TypeOK
    <2> QED
      BY <1>2, <2>1 DEF Mark, Queued
  <1> QED
    BY <1>1, <1>2 DEF Synced

\* What the HQ hands out.
LEMMA HandedOut ==
    ASSUME TypeInv, Shape, NEW e \in Era, AtHub(e, hq, Synced, Reached),
           OnRun(e, row) \/ Pulled(e, row, Mine) \/ Taken(e, row, counted),
           Alone(e), hq # NoRecord, hq.by = Peer,
           NEW o, o.vc = hq.vc, NEW place, place # "resolve", NEW read
    PROVE  InHand(e, o, place, read)
  <1> USE ThreadsAreApart
  <1>1. e.own \in Nat /\ e.peer \in Nat /\ e.ownRun \in Nat
    BY DEF Era
  <1>2. /\ hq \in OurRow /\ RecordClock(hq) = hq.vc
        /\ hq.vc[Self] \in Nat /\ hq.vc[Peer] \in Nat
    BY RowType DEF Shape, RecordClock
  <1>3. \/ AtBase(hq, Self, Peer, e.own, e.peer, e.ownTime, e.peerTime, Synced,
                  Reached)
        \/ OnTop(hq, Peer, Self, e.peer, e.own, Reached, Synced)
    BY DEF AtHub, Holds, OnTop
  <1>4. hq.vc[Self] = e.own /\ hq.vc[Peer] >= e.peer
    BY <1>1, <1>2, <1>3 DEF AtBase, OnTop
  <1>5. ASSUME row # NoRecord, row.by = Peer
        PROVE  IF row.vc[Self] = e.own THEN row.vc[Peer] =< hq.vc[Peer]
                                       ELSE hq.vc[Peer] > e.peer
    <2> DEFINE u == VersionOf(row, Peer, Self)
    <2>1. /\ row \in OurRow /\ RecordClock(row) = row.vc
          /\ row.vc[Self] \in Nat /\ row.vc[Peer] \in Nat
      BY <1>5, RowType DEF Shape, RecordClock
    <2>2. u \in Reached /\ u.count = row.vc[Peer] /\ u.seen = row.vc[Self]
      BY <1>5, <2>1, Shows, RowType, VersionType DEF Shown
    <2> HIDE DEF u
    <2>3. CASE row.vc[Self] = e.own
      <3>1. row.vc[Peer] =< e.peer \/ InRun(u, e.peer, e.own)
        BY <1>1, <2>1, <2>2, <2>3 DEF InRun
      <3> QED
        BY <1>1, <1>2, <1>3, <1>4, <2>1, <2>2, <2>3, <3>1 DEF AtBase, OnTop
    <2>4. CASE row.vc[Self] # e.own
      <3>1. row.vc[Self] < e.own
        BY <1>1, <1>5, <2>1, <2>4 DEF OnRun, Pulled, Taken
      <3> QED
        BY <1>5, <2>4, <3>1 DEF Alone
    <2> QED
      BY <2>3, <2>4
  <1> QED
    BY <1>4, <1>5 DEF InHand

\* The HQ takes over versions of the outbox and hands out the one it has.
LEMMA ExchangeKeepsEras ==
    ASSUME NEW loose \in BOOLEAN, Eras(loose), TypeInv, Shape, TypeInv', Shape',
           NEW s \in Syncers, Answer(s) \/ ExchangeFails(s), loose => OneSync
    PROVE  Eras(loose)'
  <1> USE ThreadsAreApart
  <1>1. /\ row' = row /\ peerRow' = peerRow /\ lastTime' = lastTime
        /\ peerOutbox' = peerOutbox /\ counted' = counted /\ pc[s] = "sent"
    BY DEF Answer, ExchangeFails, inputs, history
  <1>2. \A c \in Callers : pc'[c] = pc[c] /\ op'[c] = op[c]
    <2>1. CASE Answer(s)
      BY <2>1 DEF Answer, Goto, TypeInv, TypeOK
    <2>2. CASE ExchangeFails(s)
      BY <2>2 DEF ExchangeFails, Goto, TypeInv, TypeOK
    <2> QED
      BY <2>1, <2>2
  <1>3. /\ DOMAIN outbox' = DOMAIN outbox
        /\ \A i \in DOMAIN outbox : outbox'[i].body = outbox[i].body
    BY ExchangeAtHQ
  <1>4. \/ hq' = hq
        \/ /\ hq' # NoRecord /\ hq'.by = Self
           /\ \E i \in DOMAIN outbox :
                 VersionOf(hq', Self, Peer) = VersionOf(outbox[i].body, Self, Peer)
    <2>1. CASE hq' = NoRecord
      <3>1. NoRecord \notin OurRow
        BY DEF NoRecord, OurRow, Record
      <3> QED
        BY <2>1, <3>1, ExchangeAtHQ
    <2>2. CASE hq' # NoRecord
      BY <2>2, ExchangeAtHQ DEF VersionOf
    <2> QED
      BY <2>1, <2>2
  <1>5. \A t \in Syncers :
           Holding(t)' => \/ Holding(t) /\ op'[t] = op[t]
                          \/ /\ hq' = hq /\ hq # NoRecord /\ hq.by = Peer
                             /\ op'[t].vc = hq.vc /\ op'[t].ts = hq.ts
                             /\ pc'[t] = "load"
    <2>1. CASE ExchangeFails(s)
      BY <2>1 DEF ExchangeFails, Goto, Holding, TypeInv, TypeOK
    <2>2. CASE Answer(s) /\ ~InDelta(hq', Self, sent[s].vc)
      BY <2>2 DEF Answer, Goto, Holding, TypeInv, TypeOK
    <2>3. CASE Answer(s) /\ InDelta(hq', Self, sent[s].vc)
      <3>1. op' = [op EXCEPT ![s] = AsChange(hq')] /\ Goto(s, "load")
        BY <2>3 DEF Answer
      <3>2. hq' # NoRecord /\ hq'.by = Peer /\ hq' = hq
        BY <1>4, <2>3, ExchangeAtHQ DEF InDelta, OurRow
      <3>3. AsChange(hq').vc = hq'.vc /\ AsChange(hq').ts = hq'.ts
        BY DEF AsChange
      <3>4. DOMAIN pc = Thread /\ DOMAIN op = Thread /\ s \in Thread
        BY DEF TypeInv, TypeOK
      <3>5. /\ \A t \in Syncers : t = s \/ (pc'[t] = pc[t] /\ op'[t] = op[t])
            /\ op'[s] = AsChange(hq') /\ pc'[s] = "load"
        <4>1. op'[s] = AsChange(hq') /\ pc'[s] = "load"
          BY <3>1, <3>4 DEF Goto
        <4>2. \A t \in Syncers : t # s => pc'[t] = pc[t] /\ op'[t] = op[t]
          BY <3>1, <3>4 DEF Goto
        <4> QED
          BY <4>1, <4>2
      <3> QED
        BY <3>2, <3>3, <3>5 DEF Holding
    <2> QED
      BY <2>1, <2>2, <2>3
  <1>6. Mine' \subseteq Mine
    <2>1. \A rec \in {row', hq', peerRow'} :
             rec # NoRecord /\ rec.by = Self =>
                \/ rec \in {row, hq, peerRow}
                \/ \E i \in DOMAIN outbox :
                      VersionOf(rec, Self, Peer)
                         = VersionOf(outbox[i].body, Self, Peer)
      BY <1>1, <1>4
    <2> QED
      BY <1>2, <1>3, <2>1 DEF Mine
  <1>7. Reached' \subseteq Reached
    <2>1. \A rec \in {row', hq'} :
             rec # NoRecord /\ rec.by = Peer => rec \in {row, hq}
      BY <1>1, <1>4
    <2>2. \A t \in Syncers : Holding(t)' =>
             \/ Holding(t) /\ op'[t] = op[t]
             \/ /\ hq # NoRecord /\ hq.by = Peer
                /\ VersionOf(op'[t], Peer, Self) = VersionOf(hq, Peer, Self)
      BY <1>5 DEF VersionOf
    <2> QED
      BY <2>1, <2>2 DEF Reached
  <1>8. Theirs' \subseteq Theirs
    BY <1>1, <1>7 DEF Theirs
  <1>9. PICK e \in Era :
           /\ InEra(e, Mine, Theirs, peerRow, lastTime)
           /\ AtHub(e, hq, Synced, Reached)
           /\ \/ OnRun(e, row) \/ Pulled(e, row, Mine)
              \/ loose /\ Taken(e, row, counted)
           /\ \A c \in Callers : Writing(c) =>
                 \/ NextOfRun(e, op[c], lastTime)
                 \/ loose /\ op[c].vc[Self] =< counted
           /\ loose => Alone(e)
    BY EraOfState
  <1>10. AtHub(e, hq', Synced', Reached')
    <2> DEFINE ids == sent[s].ids
    <2>1. AtHub(e, AtHQ(ids), Synced \cup Pushed(ids, Len(outbox)), Reached)
      BY <1>9, HubAfterPush
    <2>2. CASE Answer(s)
      <3>1. hq' = AtHQ(ids) /\ Mark(ids, "synced")
        BY <2>2 DEF Answer
      <3>2. Synced' \subseteq Synced \cup Pushed(ids, Len(outbox))
        BY <3>1, MarkedAreSynced
      <3> QED
        BY <1>7, <2>1, <3>1, <3>2, HubShrinks
    <2>3. CASE ExchangeFails(s)
      <3>1. hq' \in {hq, AtHQ(ids)} /\ Mark(ids, "failed")
        BY <2>3 DEF ExchangeFails
      <3>2. Synced' \subseteq Synced
        BY <3>1, MarkedAreNotSynced
      <3>3. AtHub(e, AtHQ(ids), Synced', Reached')
        BY <1>7, <2>1, <3>2, HubShrinks
      <3>4. AtHub(e, hq, Synced', Reached')
        BY <1>7, <1>9, <3>2, HubShrinks
      <3> QED
        BY <3>1, <3>3, <3>4
    <2> QED
      BY <2>2, <2>3
  <1>11. InEra(e, Mine', Theirs', peerRow', lastTime')
    BY <1>1, <1>6, <1>8, <1>9, SideShrinks DEF InEra
  <1>12. \/ OnRun(e, row') \/ Pulled(e, row', Mine')
         \/ loose /\ Taken(e, row', counted')
    BY <1>1, <1>6, <1>9 DEF Pulled
  <1>13. \A c \in Callers : Writing(c)' =>
            \/ NextOfRun(e, op'[c], lastTime')
            \/ loose /\ op'[c].vc[Self] =< counted'
    BY <1>1, <1>2, <1>9 DEF Writing
  <1>14. loose => Alone(e)'
    <2> SUFFICES ASSUME loose
                 PROVE  Alone(e)'
      OBVIOUS
    <2>1. ASSUME NEW t \in Syncers, Holding(t)'
          PROVE  InHand(e, op[t], pc[t], rowRead[t])'
      <3>1. /\ hq' = hq /\ hq # NoRecord /\ hq.by = Peer
            /\ op'[t].vc = hq.vc /\ pc'[t] = "load"
        BY <1>1, <1>5, <2>1 DEF OneSync, Holding
      <3>2. InHand(e, op'[t], pc'[t], rowRead'[t])
        BY <1>9, <3>1, HandedOut
      <3> QED
        BY <1>1, <3>1, <3>2 DEF InHand
    <2>2. \/ hq' = hq
          \/ hq' # NoRecord /\ hq'.by = Self
      BY <1>4
    <2> QED
      BY <1>1, <1>9, <2>1, <2>2 DEF Alone
  <1> QED
    BY <1>10, <1>11, <1>12, <1>13, <1>14, EraFound

LEMMA RestartKeepsEras ==
    ASSUME NEW loose \in BOOLEAN, Eras(loose), TypeInv, Shape, TypeInv', Shape',
           Restart
    PROVE  Eras(loose)'
  <1>1. /\ DOMAIN outbox' = DOMAIN outbox
        /\ \A i \in DOMAIN outbox : outbox'[i].body = outbox[i].body
    BY MarkKeepsType DEF Restart, TypeInv, TypeOK
  <1>2. \A t \in Thread : pc'[t] = "idle"
    BY DEF Restart
  <1>3. /\ row' = row /\ hq' = hq /\ peerRow' = peerRow /\ lastTime' = lastTime
        /\ peerOutbox' = peerOutbox /\ counted' = counted
    BY DEF Restart, remoteVars
  <1>4. Mine' \subseteq Mine
    BY <1>1, <1>2, <1>3, ThreadsAreApart DEF Mine
  <1>5. \A s \in Syncers : ~Holding(s)'
    BY <1>2, ThreadsAreApart DEF Holding
  <1>6. Reached' \subseteq Reached
    BY <1>3, <1>5 DEF Reached
  <1>7. Theirs' \subseteq Theirs
    BY <1>3, <1>6 DEF Theirs
  <1>8. \A c \in Callers : ~Writing(c)'
    BY <1>2, ThreadsAreApart DEF Writing
  <1>9. Synced' \subseteq Synced
    BY MarkedAreNotSynced DEF Restart
  <1> QED
    BY <1>3, <1>4, <1>5, <1>6, <1>7, <1>8, <1>9, QuietKeepsEras

\* The other edge writes the next version of its run.
LEMMA PeerWriteKeepsEras ==
    ASSUME NoDeletes, NEW loose \in BOOLEAN, Eras(loose), TypeInv, Shape,
           TypeInv', Shape',
           NEW type \in WriteTypes, NEW payload \in Payloads, NEW ts \in Times,
           PeerWrites(type, payload, ts)
    PROVE  Eras(loose)'
  <1> DEFINE write == NewOperation(peerRow, Peer, type, payload, ts)
  <1> USE ThreadsAreApart
  <1>1. /\ row' = row /\ hq' = hq /\ outbox' = outbox /\ pc' = pc /\ op' = op
        /\ rowRead' = rowRead /\ counted' = counted
    BY DEF PeerWrites, localVars, threadVars, history
  <1>2. /\ lastTime \in [{Self, Peer} -> Nat] /\ lastTime'[Self] = lastTime[Self]
        /\ lastTime[Peer] =< ts /\ lastTime'[Peer] = ts /\ ts \in Nat
    BY DEF PeerWrites, Stamp, TypeInv, TypeOK
  <1>3. /\ write \in OpOf(Peer) /\ write.ts = ts
        /\ write.vc = Increment(RecordClock(peerRow), Peer)
    BY OurWrite DEF Shape, NewOperation
  <1> HIDE DEF write
  <1>4. /\ peerRow' \in OurRow /\ peerRow' # NoRecord /\ peerRow'.by = Peer
        /\ peerRow'.vc = write.vc /\ peerRow'.ts = ts
        /\ RecordClock(peerRow') = write.vc
        /\ peerOutbox' = peerOutbox \cup {write}
    <2>1. /\ peerRow' = ApplyOperation(peerRow, write)
          /\ peerOutbox' = peerOutbox \cup {write}
      BY DEF PeerWrites, write
    <2> QED
      BY <1>3, <2>1, OurApply DEF TypeInv, TypeOK, RecordClock
  <1>5. PICK e \in Era :
           /\ InEra(e, Mine, Theirs, peerRow, lastTime)
           /\ AtHub(e, hq, Synced, Reached)
           /\ \/ OnRun(e, row) \/ Pulled(e, row, Mine)
              \/ loose /\ Taken(e, row, counted)
           /\ \A c \in Callers : Writing(c) =>
                 \/ NextOfRun(e, op[c], lastTime)
                 \/ loose /\ op[c].vc[Self] =< counted
           /\ loose => Alone(e)
    BY EraOfState
  <1>6. /\ e.own \in Nat /\ e.peer \in Nat /\ e.ownTime \in Nat /\ e.peerTime \in Nat
        /\ e.ownRun \in Nat /\ e.peerRun \in Nat
        /\ lastTime[Peer] \in Nat /\ Self \in Nat /\ Peer \in Nat
    BY ResolverAssumption DEF Era, TypeInv, TypeOK
  <1> DEFINE z == [count |-> e.peer + e.peerRun + 1, seen |-> e.own, ts |-> ts]
             d == [e EXCEPT !.peerRun = @ + 1]
  <1>7. write.vc[Self] = e.own /\ write.vc[Peer] = e.peer + e.peerRun + 1
    <2>1. RecordClock(peerRow) \in Clock
      BY OurRowClock DEF Shape, OurClock
    <2> QED
      BY <1>3, <1>5, <2>1, CountsAfterIncrement DEF InEra
  <1>8. VersionOf(peerRow', Peer, Self) = z /\ VersionOf(write, Peer, Self) = z
    <2>1. /\ peerRow'.vc[Peer] = e.peer + e.peerRun + 1
          /\ peerRow'.vc[Self] = e.own /\ peerRow'.ts = ts
      BY <1>4, <1>7
    <2> QED
      BY <1>3, <1>7, <2>1 DEF VersionOf
  <1>9. /\ d \in Era
        /\ d.own = e.own /\ d.peer = e.peer /\ d.ownTime = e.ownTime
        /\ d.peerTime = e.peerTime /\ d.ownRun = e.ownRun
        /\ d.peerRun = e.peerRun + 1
    BY DEF Era
  <1> HIDE DEF d, z
  <1>10. /\ Side(Mine, Self, Peer, e.own, e.peer, e.ownTime, e.peerTime, e.ownRun,
                 lastTime[Self])
         /\ Side(Theirs, Peer, Self, e.peer, e.own, e.peerTime, e.ownTime,
                 e.peerRun, lastTime[Peer])
    BY <1>5 DEF InEra
  <1>11. Side(Theirs \cup {z}, Peer, Self, e.peer, e.own, e.peerTime, e.ownTime,
              e.peerRun + 1, ts)
    BY <1>2, <1>6, <1>10, SetsOfVersions, SideGrows DEF z
  <1>12. Mine' \subseteq Mine /\ Synced' = Synced
    BY <1>1, <1>4 DEF Mine, Synced
  <1>13. Reached' = Reached
    BY <1>1 DEF Reached, Holding
  <1>14. Theirs' \subseteq Theirs \cup {z}
    BY <1>4, <1>8, <1>13 DEF Theirs
  <1>15. e.peerTime =< ts
    BY <1>2, <1>6, <1>10 DEF Side
  <1>16. InEra(d, Mine', Theirs', peerRow', lastTime')
    <2>1. Side(Mine', Self, Peer, e.own, e.peer, e.ownTime, e.peerTime, e.ownRun,
               lastTime[Self])
      BY <1>10, <1>12, SideShrinks
    <2>2. Side(Theirs', Peer, Self, e.peer, e.own, e.peerTime, e.ownTime,
               e.peerRun + 1, ts)
      BY <1>11, <1>14, SideShrinks
    <2>3. Recent(d, peerRow')
      BY <1>4, <1>9, <1>15 DEF Recent
    <2>4. /\ RecordClock(peerRow')[Self] = d.own
          /\ RecordClock(peerRow')[Peer] = d.peer + d.peerRun
      BY <1>4, <1>6, <1>7, <1>9
    <2> QED
      BY <1>2, <1>4, <1>9, <2>1, <2>2, <2>3, <2>4 DEF InEra
  <1>17. \/ OnRun(d, row') \/ Pulled(d, row', Mine')
         \/ loose /\ Taken(d, row', counted')
    BY <1>1, <1>5, <1>9, <1>12 DEF OnRun, Pulled, Taken, Recent
  <1>18. \A c \in Callers : Writing(c)' =>
            \/ NextOfRun(d, op'[c], lastTime')
            \/ loose /\ op'[c].vc[Self] =< counted'
    BY <1>1, <1>2, <1>5, <1>9 DEF Writing, NextOfRun
  <1>19. AtHub(d, hq', Synced', Reached')
    BY <1>1, <1>5, <1>9, <1>12, <1>13, HubShrinks
  <1>20. loose => Alone(d)'
    BY <1>1, <1>5, <1>9 DEF Alone, InHand, Holding
  <1> QED
    BY <1>9, <1>16, <1>17, <1>18, <1>19, <1>20, EraFound

\* The HQ is sent an operation of the other edge, for the first time or again.
LEMMA PeerPushKeepsEras ==
    ASSUME NEW loose \in BOOLEAN, Eras(loose), TypeInv, Shape, TypeInv', Shape',
           NEW o \in peerOutbox, PeerPushes(o)
    PROVE  Eras(loose)'
  <1> DEFINE q == VersionOf(o, Peer, Self)
  <1> USE ThreadsAreApart
  <1>1. /\ row' = row /\ peerRow' = peerRow /\ outbox' = outbox /\ pc' = pc
        /\ op' = op /\ rowRead' = rowRead /\ lastTime' = lastTime
        /\ counted' = counted /\ peerOutbox' \subseteq peerOutbox /\ hq' = Integrate(hq, o)
    BY DEF PeerPushes, localVars, threadVars, inputs, history
  <1>2. o \in OpOf(Peer) /\ q \in Theirs
    BY Shows DEF Shape
  <1>3. \/ hq' = hq
        \/ hq' # NoRecord /\ hq'.by = Peer /\ VersionOf(hq', Peer, Self) = q
    <2>1. hq' = hq \/ hq' = ApplyOperation(hq, o)
      BY <1>1 DEF Integrate
    <2>2. hq \in Row
      BY DEF TypeInv, TypeOK
    <2> QED
      BY <1>2, <2>1, <2>2, OurApply DEF VersionOf
  <1> HIDE DEF q
  <1>4. Mine' \subseteq Mine /\ Synced' = Synced
    BY <1>1, <1>3 DEF Mine, Synced
  <1>5. Reached' \subseteq Reached \cup {q}
    BY <1>1, <1>3 DEF Reached, Holding
  <1>6. Theirs' \subseteq Theirs
    <2>1. Reached' \subseteq Theirs
      BY <1>2, <1>5, SetsOfVersions
    <2> QED
      BY <1>1, <2>1 DEF Theirs
  <1>7. PICK e \in Era :
           /\ InEra(e, Mine, Theirs, peerRow, lastTime)
           /\ AtHub(e, hq, Synced, Reached)
           /\ \/ OnRun(e, row) \/ Pulled(e, row, Mine)
              \/ loose /\ Taken(e, row, counted)
           /\ \A c \in Callers : Writing(c) =>
                 \/ NextOfRun(e, op[c], lastTime)
                 \/ loose /\ op[c].vc[Self] =< counted
           /\ loose => Alone(e)
    BY EraOfState
  <1>8. /\ AtHub(e, hq', Synced, Reached \cup {q})
        /\ hq' = hq \/ (hq' # NoRecord /\ hq'.vc[Peer] > e.peer)
    <2>1. Hub(hq, Theirs, Mine, Peer, Self, e.peer, e.own, e.peerTime, e.ownTime,
              e.peerRun, e.ownRun, lastTime[Peer], lastTime[Self], Reached, Synced)
      BY <1>7, SitesAreInEra, HubTurns DEF HubInEra
    <2>2. /\ Hub(hq', Theirs, Mine, Peer, Self, e.peer, e.own, e.peerTime, e.ownTime,
                 e.peerRun, e.ownRun, lastTime[Peer], lastTime[Self],
                 Reached \cup {q}, Synced)
          /\ \/ hq' = hq
             \/ OnTop(hq', Peer, Self, e.peer, e.own, Reached \cup {q}, Synced)
      BY <1>1, <1>2, <2>1, HubTakes DEF q
    <2>3. Hub(hq', Mine, Theirs, Self, Peer, e.own, e.peer, e.ownTime, e.peerTime,
              e.ownRun, e.peerRun, lastTime[Self], lastTime[Peer],
              Synced, Reached \cup {q})
      BY <2>2, HubTurns
    <2> QED
      BY <2>2, <2>3 DEF Hub, AtHub, OnTop
  <1>9. AtHub(e, hq', Synced', Reached')
    BY <1>4, <1>5, <1>8, HubShrinks
  <1>10. InEra(e, Mine', Theirs', peerRow', lastTime')
    BY <1>1, <1>4, <1>6, <1>7, SideShrinks DEF InEra
  <1>11. \/ OnRun(e, row') \/ Pulled(e, row', Mine')
         \/ loose /\ Taken(e, row', counted')
    BY <1>1, <1>4, <1>7 DEF Pulled
  <1>12. \A c \in Callers : Writing(c)' =>
            \/ NextOfRun(e, op'[c], lastTime')
            \/ loose /\ op'[c].vc[Self] =< counted'
    BY <1>1, <1>7 DEF Writing
  <1>13. loose => Alone(e)'
    BY <1>1, <1>3, <1>7, <1>8 DEF Alone, InHand, Holding
  <1> QED
    BY <1>9, <1>10, <1>11, <1>12, <1>13, EraFound

\* The other edge pulls a version of this one, and an era begins if it takes it.
LEMMA PeerPullKeepsEras ==
    ASSUME NEW loose \in BOOLEAN, Eras(loose), TypeInv, Shape, TypeInv', Shape',
           PeerPulls
    PROVE  Eras(loose)'
  <1> DEFINE o == AsChange(hq)
  <1> USE ThreadsAreApart
  <1>1. /\ row' = row /\ hq' = hq /\ outbox' = outbox /\ pc' = pc /\ op' = op
        /\ rowRead' = rowRead /\ peerOutbox' = peerOutbox
        /\ lastTime' = lastTime /\ counted' = counted
    BY DEF PeerPulls, localVars, threadVars, inputs, history
  <1>2. hq \in OurRow /\ hq # NoRecord /\ hq.by = Self
    BY DEF PeerPulls, InDelta, Shape, OurRow
  <1>3. o \in OpOf(Self) /\ o.vc = hq.vc /\ o.ts = hq.ts
    BY <1>2, OurChange DEF AsChange
  <1>4. VersionOf(o, Self, Peer) \in Mine
    <2>1. VersionOf(o, Self, Peer) = VersionOf(hq, Self, Peer)
      BY <1>3 DEF VersionOf
    <2> QED
      BY <1>2, <2>1, Shows DEF Shown
  <1>5. peerRow' = Integrate(peerRow, o)
    BY DEF PeerPulls
  <1> HIDE DEF o
  <1>6. Reached' = Reached /\ Synced' = Synced
    BY <1>1 DEF Reached, Synced, Holding
  <1>7. CASE ~Accepts(peerRow, o)
    <2>1. peerRow' = peerRow
      BY <1>5, <1>7 DEF Integrate, Resolve
    <2>2. Mine' = Mine /\ Theirs' = Theirs
      BY <1>1, <1>6, <2>1 DEF Mine, Theirs
    <2>3. \A s \in Syncers : Holding(s)' => Holding(s)
      BY <1>1 DEF Holding
    <2> QED
      BY <1>1, <1>6, <2>1, <2>2, <2>3, QuietKeepsEras DEF Writing
  <1>8. CASE Accepts(peerRow, o)
    <2>1. /\ peerRow' \in OurRow /\ peerRow' # NoRecord /\ peerRow'.by = Self
          /\ peerRow'.vc = o.vc /\ peerRow'.ts = o.ts
      <3>1. peerRow' = ApplyOperation(peerRow, o)
        BY <1>5, <1>8 DEF Integrate, Resolve
      <3> QED
        BY <1>3, <3>1, OurApply DEF TypeInv, TypeOK
    <2>2. Mine' \subseteq Mine
      <3>1. VersionOf(peerRow', Self, Peer) = VersionOf(hq, Self, Peer)
        BY <1>3, <2>1 DEF VersionOf
      <3> QED
        BY <1>1, <1>2, <2>1, <3>1 DEF Mine
    <2>3. Theirs' \subseteq Theirs
      BY <1>1, <1>6, <2>1 DEF Theirs
    <2>4. PICK e \in Era :
             /\ InEra(e, Mine, Theirs, peerRow, lastTime)
             /\ AtHub(e, hq, Synced, Reached)
             /\ \/ OnRun(e, row) \/ Pulled(e, row, Mine)
                \/ loose /\ Taken(e, row, counted)
             /\ \A c \in Callers : Writing(c) =>
                   \/ NextOfRun(e, op[c], lastTime)
                   \/ loose /\ op[c].vc[Self] =< counted
             /\ loose => Alone(e)
      BY EraOfState
    <2> DEFINE top == IF loose THEN counted ELSE 0
    <2>5. PICK d \in Era : /\ InEra(d, Mine, Theirs, peerRow', lastTime)
                           /\ \/ OnRun(d, row)
                              \/ Taken(e, row, top) /\ Taken(d, row, top)
                           /\ AtHub(d, hq, Synced, Reached)
                           /\ d.own + d.ownRun = e.own + e.ownRun
                           /\ d.peer = e.peer
      <3>1. row \in OurRow \cup {NoRecord} /\ peerRow \in OurRow \cup {NoRecord}
        BY DEF Shape
      <3>2. ASSUME NEW rec \in {row, peerRow}, rec # NoRecord
            PROVE  /\ rec.by = Self => VersionOf(rec, Self, Peer) \in Mine
                   /\ rec.by = Peer => VersionOf(rec, Peer, Self) \in Theirs
        BY <3>2, Shows, SetsOfVersions DEF Shown
      <3>3. lastTime \in [{Self, Peer} -> Nat]
        BY DEF TypeInv, TypeOK
      <3>4. OnRun(e, row) \/ Pulled(e, row, Mine) \/ Taken(e, row, top)
        BY <2>4
      <3> HIDE DEF top
      <3>5. PeerTakes(e, Mine, Theirs, peerRow, row, top, lastTime, o, hq, Synced,
                      Reached)
        BY <1>2, <1>3, <1>4, <1>8, <2>4, <3>1, <3>2, <3>3, <3>4, SetsOfVersions
        DEF PeerTakes
      <3> QED
        BY <2>1, <3>5, ThePeerTurns
    <2>6. OnRun(d, row) \/ (loose /\ Taken(d, row, counted))
      <3>1. Taken(d, row, top) => loose
        <4>1. Taken(d, row, top) => row.vc[Self] \in Nat /\ row.vc[Self] < top
          BY RowType DEF Taken, Shape
        <4> QED
          BY <4>1
      <3> QED
        BY <2>5, <3>1
    <2> HIDE DEF top
    <2>7. InEra(d, Mine', Theirs', peerRow', lastTime')
      BY <1>1, <2>2, <2>3, <2>5, SideShrinks DEF InEra
    <2>8. \A c \in Callers : Writing(c)' =>
             \/ NextOfRun(d, op'[c], lastTime')
             \/ loose /\ op'[c].vc[Self] =< counted'
      BY <1>1, <2>4, <2>5 DEF Writing, NextOfRun
    <2>9. AtHub(d, hq', Synced', Reached')
      BY <1>1, <1>6, <2>5
    <2>10. loose => Alone(d)'
      <3> SUFFICES ASSUME loose
                   PROVE  Alone(d)'
        OBVIOUS
      <3>1. \A s \in Syncers : ~Holding(s)'
        BY <1>1, <1>2, <2>4 DEF Alone, InHand, Holding
      <3> QED
        BY <1>1, <1>2, <2>4, <2>5, <3>1 DEF Alone
    <2> QED
      BY <1>1, <2>6, <2>7, <2>8, <2>9, <2>10, EraFound
  <1> QED
    BY <1>7, <1>8

-----------------------------------------------------------------------------
(* The clocks of the outbox.                                               *)

\* No two operations of the outbox carry the same clock, nor does one carry that
\* of the write that is stored and not queued yet.
Apart ==
    /\ EqualIsDuplicate
    /\ \A c \in Callers : pc[c] = "enqueue" =>
          \A i \in DOMAIN outbox : outbox[i].body.vc # op[c].vc

LEMMA ApartStays ==
    ASSUME Apart, DOMAIN outbox' = DOMAIN outbox,
           \A i \in DOMAIN outbox : outbox'[i].body = outbox[i].body,
           \A c \in Callers : pc'[c] = "enqueue" =>
              pc[c] = "enqueue" /\ op'[c] = op[c]
    PROVE  Apart'
  BY DEF Apart, EqualIsDuplicate

LEMMA QuietWriteKeepsApart ==
    ASSUME Apart, TypeInv, NEW c \in Callers,
           \/ LoadClock(c) \/ StoreClock(c, "apply") \/ Enqueue(c)
           \/ WriteRaises(c)
    PROVE  Apart'
  <1> USE ThreadsAreApart
  <1>1. CASE ~Enqueue(c)
    <2>1. outbox' = outbox
      BY <1>1 DEF LoadClock, StoreClock, WriteRaises, localVars
    <2>2. \A d \in Callers : pc'[d] = "enqueue" =>
             pc[d] = "enqueue" /\ op'[d] = op[d]
      BY QuietWrite
    <2> QED
      BY <2>1, <2>2, ApartStays
  <1>2. CASE Enqueue(c)
    <2>1. /\ outbox \in Seq(Queued) /\ pc[c] = "enqueue"
          /\ outbox' = Append(outbox, [body |-> op[c], state |-> "pending"])
      BY <1>2 DEF Enqueue, TypeInv, TypeOK
    <2> DEFINE n == Len(outbox) + 1
    <2>2. /\ DOMAIN outbox' = DOMAIN outbox \cup {n} /\ n \notin DOMAIN outbox
          /\ outbox'[n].body = op[c]
          /\ \A i \in DOMAIN outbox : outbox'[i] = outbox[i]
      BY <2>1
    <2> HIDE DEF n
    <2>3. EqualIsDuplicate'
      BY <2>1, <2>2 DEF Apart, EqualIsDuplicate
    <2>4. \A d \in Callers : pc'[d] # "enqueue"
      BY <1>2 DEF Enqueue, Leave, Goto, TypeInv, TypeOK, Places
    <2> QED
      BY <2>3, <2>4 DEF Apart
  <1> QED
    BY <1>1, <1>2

LEMMA StoreKeepsApart ==
    ASSUME Apart, TypeInv, NEW c \in Callers, ApplyLocal(c),
           \A i \in DOMAIN outbox : outbox[i].body.vc # op[c].vc
    PROVE  Apart'
  <1>1. outbox' = outbox /\ op' = op
    BY DEF ApplyLocal
  <1>2. \A d \in Callers : pc'[d] = "enqueue" => d = c
    BY ThreadsAreApart DEF ApplyLocal, Goto, TypeInv, TypeOK, Places
  <1> QED
    BY <1>1, <1>2 DEF Apart, EqualIsDuplicate

\* A thread in sync_now leaves the operations of the outbox and the writes in hand.
LEMMA SyncLeavesWrites ==
    ASSUME TypeInv, Shape, NEW s \in Syncers, SyncStep(s)
    PROVE  /\ DOMAIN outbox' = DOMAIN outbox
           /\ \A i \in DOMAIN outbox : outbox'[i].body = outbox[i].body
           /\ \A c \in Callers : pc'[c] = pc[c] /\ op'[c] = op[c]
  <1> USE ThreadsAreApart
  <1>1. /\ DOMAIN outbox' = DOMAIN outbox
        /\ \A i \in DOMAIN outbox : outbox'[i].body = outbox[i].body
    <2>1. CASE Answer(s) \/ ExchangeFails(s)
      BY <2>1, ExchangeAtHQ
    <2>2. CASE \/ ReadBatch(s) \/ SendPush(s) \/ LoadClock(s) \/ StoreClock(s, "get")
               \/ GetLocal(s) \/ PullRaises(s) \/ ApplyPulled(s)
      BY <2>2 DEF ReadBatch, SendPush, LoadClock, StoreClock, GetLocal, PullRaises,
                  ApplyPulled, localVars
    <2> QED
      BY <2>1, <2>2 DEF SyncStep
  <1>2. \A c \in Callers : pc'[c] = pc[c] /\ op'[c] = op[c]
    <2>1. CASE Answer(s) \/ ExchangeFails(s)
      BY <2>1 DEF Answer, ExchangeFails, Goto, TypeInv, TypeOK
    <2>2. CASE ReadBatch(s) \/ SendPush(s) \/ LoadClock(s) \/ StoreClock(s, "get")
      BY <2>2 DEF ReadBatch, SendPush, LoadClock, StoreClock, Goto, TypeInv, TypeOK
    <2>3. CASE GetLocal(s)
      BY <2>3 DEF GetLocal, Goto, TypeInv, TypeOK
    <2>4. CASE PullRaises(s) \/ ApplyPulled(s)
      BY <2>4 DEF PullRaises, ApplyPulled, Goto, TypeInv, TypeOK
    <2> QED
      BY <2>1, <2>2, <2>3, <2>4 DEF SyncStep
  <1> QED
    BY <1>1, <1>2

LEMMA SyncKeepsApart ==
    ASSUME Apart, TypeInv, Shape, NEW s \in Syncers, SyncStep(s)
    PROVE  Apart'
  BY SyncLeavesWrites, ApartStays

\* The row is not taken back to a version it has superseded.
Forward == row' = row \/ ~Below(RecordClock(row'), RecordClock(row))

LEMMA NextKeepsEras ==
    ASSUME NoDeletes, NEW loose \in BOOLEAN, TypeInv, Shape, TypeInv', Shape',
           Eras(loose), Next, IF loose THEN OneSync /\ ~recounted' ELSE ~overtaken'
    PROVE  Eras(loose)' /\ (Apart => Apart') /\ Forward
  <1>1. ASSUME NEW c \in Callers, WriteStep(c)
        PROVE  Eras(loose)' /\ (Apart => Apart') /\ Forward
    <2>1. CASE ApplyLocal(c)
      BY <2>1, StoreKeepsEras, StoreKeepsApart DEF Forward
    <2>2. CASE \/ LoadClock(c) \/ StoreClock(c, "apply") \/ Enqueue(c)
               \/ WriteRaises(c)
      BY <2>2, QuietWrite, QuietWriteKeepsEras, QuietWriteKeepsApart DEF Forward
    <2>3. ASSUME NEW type \in WriteTypes, NEW payload \in Payloads,
                 NEW ts \in Times, BeginWrite(c, type, payload, ts)
          PROVE  Eras(loose)' /\ (Apart => Apart') /\ Forward
      <3>1. row' = row /\ outbox' = outbox
        BY <2>3 DEF BeginWrite
      <3>2. \A d \in Callers : pc'[d] # "enqueue"
        BY <2>3, ThreadsAreApart DEF BeginWrite, Goto, TypeInv, TypeOK, Places
      <3>3. Eras(loose)'
        BY <2>3, BeginKeepsEras
      <3> QED
        BY <3>1, <3>2, <3>3, ApartStays DEF Forward
    <2> QED
      BY <1>1, <2>1, <2>2, <2>3 DEF WriteStep
  <1>2. ASSUME NEW s \in Syncers, SyncStep(s)
        PROVE  Eras(loose)' /\ (Apart => Apart') /\ Forward
    <2>1. Apart => Apart'
      BY <1>2, SyncKeepsApart
    <2>2. CASE ApplyPulled(s)
      <3>1. ~overtaken' => row' = Integrate(row, op[s])
        BY <2>2, Zenon DEF ApplyPulled
      <3>2. IF loose THEN OneSync ELSE row' = Integrate(row, op[s])
        BY <3>1
      <3> QED
        BY <2>1, <2>2, <3>2, PullKeepsEras DEF Forward
    <2>3. CASE Answer(s) \/ ExchangeFails(s)
      <3>1. row' = row
        BY <2>3 DEF Answer, ExchangeFails
      <3> QED
        BY <2>1, <2>3, <3>1, ExchangeKeepsEras DEF Forward
    <2>4. CASE \/ ReadBatch(s) \/ SendPush(s) \/ LoadClock(s) \/ StoreClock(s, "get")
               \/ GetLocal(s) \/ PullRaises(s)
      <3>1. row' = row
        BY <2>4 DEF ReadBatch, SendPush, LoadClock, StoreClock, GetLocal, PullRaises,
                    localVars
      <3> QED
        BY <2>1, <2>4, <3>1, QuietSyncKeepsEras DEF Forward
    <2> QED
      BY <1>2, <2>2, <2>3, <2>4 DEF SyncStep
  <1>3. CASE Restart
    <2>1. row' = row /\ \A t \in Thread : pc'[t] = "idle"
      BY <1>3 DEF Restart
    <2>2. /\ DOMAIN outbox' = DOMAIN outbox
          /\ \A i \in DOMAIN outbox : outbox'[i].body = outbox[i].body
      BY <1>3, MarkKeepsType DEF Restart, TypeInv, TypeOK
    <2>3. Apart => Apart'
      BY <2>1, <2>2, ThreadsAreApart, ApartStays
    <2> QED
      BY <1>3, <2>1, <2>3, RestartKeepsEras DEF Forward
  <1>4. CASE Others
    <2>1. row' = row /\ outbox' = outbox /\ pc' = pc /\ op' = op
      BY <1>4 DEF Others, PeerWrites, PeerPushes, PeerPulls, localVars, threadVars
    <2>2. Apart => Apart'
      BY <2>1, ApartStays
    <2>3. Eras(loose)'
      BY <1>4, PeerWriteKeepsEras, PeerPushKeepsEras, PeerPullKeepsEras DEF Others
    <2> QED
      BY <2>1, <2>2, <2>3 DEF Forward
  <1> QED
    BY <1>1, <1>2, <1>3, <1>4 DEF Next

EraInv ==
    /\ TypeInv /\ Shape
    /\ ~overtaken => Eras(FALSE) /\ Apart
    /\ OneSync /\ ~recounted => Eras(TRUE)

LEMMA InitEras == Init => EraInv
  <1> SUFFICES ASSUME Init
               PROVE  EraInv
    OBVIOUS
  <1>1. TypeInv /\ Shape
    BY InitEstablishesTypes, InitShape
  <1>2. \A c \in Callers : ~Writing(c) /\ pc[c] = "idle"
    BY ThreadsAreApart DEF Init, Writing
  <1>3. \A s \in Syncers : ~Holding(s)
    BY ThreadsAreApart DEF Init, Holding
  <1>4. Mine = {} /\ Reached = {} /\ Theirs = {} /\ Synced = {}
    BY <1>2, <1>3 DEF Init, Mine, Reached, Theirs, Synced
  <1> DEFINE e == [own |-> 0, peer |-> 0, ownTime |-> 0, peerTime |-> 0,
                   ownRun |-> 0, peerRun |-> 0]
  <1>5. /\ e \in Era /\ e.own = 0 /\ e.peer = 0 /\ e.ownTime = 0
        /\ e.peerTime = 0 /\ e.ownRun = 0 /\ e.peerRun = 0
    BY DEF Era
  <1> HIDE DEF e
  <1>6. /\ lastTime[Self] \in Nat /\ lastTime[Peer] \in Nat
        /\ row = NoRecord /\ peerRow = NoRecord /\ hq = NoRecord /\ counted = 0
    BY <1>1, ThreadsAreApart DEF Init, TypeInv, TypeOK
  <1>7. RecordClock(NoRecord)[Self] = 0 /\ RecordClock(NoRecord)[Peer] = 0
    BY ThreadsAreApart DEF RecordClock, EmptyClock
  <1>8. /\ Side({}, Self, Peer, 0, 0, 0, 0, 0, lastTime[Self])
        /\ Side({}, Peer, Self, 0, 0, 0, 0, 0, lastTime[Peer])
    BY <1>6 DEF Side
  <1>9. InEra(e, Mine, Theirs, peerRow, lastTime) /\ OnRun(e, row)
    BY <1>4, <1>5, <1>6, <1>7, <1>8 DEF InEra, OnRun, Recent
  <1>10. AtHub(e, hq, Synced, Reached)
    BY <1>4, <1>5, <1>6, <1>7 DEF AtHub, Holds, AtBase
  <1>11. Alone(e)
    BY <1>3, <1>5, <1>6 DEF Alone
  <1>12. \A loose \in BOOLEAN : Eras(loose)
    BY <1>2, <1>5, <1>9, <1>10, <1>11 DEF Eras
  <1>13. Apart
    BY ThreadsAreApart DEF Init, Apart, EqualIsDuplicate
  <1> QED
    BY <1>1, <1>12, <1>13 DEF EraInv

\* Only a pull replaces another row than it had read, only a write gives a count
\* twice, and what they did stays.
LEMMA HistoryStays ==
    Next => (~overtaken' => ~overtaken) /\ (~recounted' => ~recounted)
  <1> SUFFICES ASSUME Next
               PROVE  (~overtaken' => ~overtaken) /\ (~recounted' => ~recounted)
    OBVIOUS
  <1>1. overtaken' = overtaken \/ \E s \in Syncers : ApplyPulled(s)
    BY DEF Next, WriteStep, SyncStep, Others, BeginWrite, LoadClock, StoreClock,
           ApplyLocal, Enqueue, WriteRaises, ReadBatch, SendPush, Answer,
           ExchangeFails, GetLocal, PullRaises, Restart, PeerWrites, PeerPushes,
           PeerPulls, history
  <1>2. recounted' = recounted \/ \E c \in Callers : ApplyLocal(c)
    BY DEF Next, WriteStep, SyncStep, Others, BeginWrite, LoadClock, StoreClock,
           Enqueue, WriteRaises, ReadBatch, SendPush, Answer, ExchangeFails,
           GetLocal, ApplyPulled, PullRaises, Restart, PeerWrites, PeerPushes,
           PeerPulls, history
  <1>3. ~overtaken' => ~overtaken
    BY <1>1, Zenon DEF ApplyPulled
  <1>4. ~recounted' => ~recounted
    BY <1>2, Zenon DEF ApplyLocal
  <1> QED
    BY <1>3, <1>4

LEMMA StutterKeepsEras ==
    ASSUME TypeInv, Shape, TypeInv', Shape', UNCHANGED vars
    PROVE  /\ \A loose \in BOOLEAN : Eras(loose) => Eras(loose)'
           /\ Apart => Apart'
           /\ Forward
  <1>1. /\ row' = row /\ hq' = hq /\ peerRow' = peerRow /\ outbox' = outbox
        /\ peerOutbox' = peerOutbox /\ pc' = pc /\ op' = op /\ rowRead' = rowRead
        /\ lastTime' = lastTime /\ counted' = counted
    BY DEF vars, localVars, threadVars, remoteVars, inputs, history
  <1>2. Mine' = Mine /\ Reached' = Reached /\ Theirs' = Theirs /\ Synced' = Synced
    BY <1>1 DEF Mine, Reached, Theirs, Synced, Holding
  <1>3. \A s \in Syncers : Holding(s)' => Holding(s)
    BY <1>1 DEF Holding
  <1>4. \A c \in Callers : Writing(c)' => Writing(c)
    BY <1>1 DEF Writing
  <1>5. \A loose \in BOOLEAN : Eras(loose) => Eras(loose)'
    BY <1>1, <1>2, <1>3, <1>4, QuietKeepsEras
  <1> QED
    BY <1>1, <1>5, ApartStays DEF Forward

LEMMA StepKeepsEras ==
    ASSUME NoDeletes, EraInv, [Next]_vars
    PROVE  /\ EraInv'
           /\ ~overtaken' \/ (OneSync /\ ~recounted') => Forward
  <1>1. TypeInv'
    BY NextKeepsTypes DEF EraInv
  <1>2. CASE UNCHANGED vars
    <2>1. overtaken' = overtaken /\ recounted' = recounted
      BY <1>2 DEF vars, history
    <2>2. Shape'
      BY <1>2 DEF EraInv, Shape, Holding, vars, localVars, threadVars, remoteVars
    <2> QED
      BY <1>1, <1>2, <2>1, <2>2, StutterKeepsEras DEF EraInv
  <1>3. CASE Next
    <2>1. Shape'
      BY <1>3, NextKeepsShape DEF EraInv
    <2>2. ~overtaken' => Eras(FALSE)' /\ Apart' /\ Forward
      <3> SUFFICES ASSUME ~overtaken'
                   PROVE  Eras(FALSE)' /\ Apart' /\ Forward
        OBVIOUS
      <3>1. Eras(FALSE) /\ Apart
        BY <1>3, HistoryStays DEF EraInv
      <3> QED
        BY <1>1, <1>3, <2>1, <3>1, NextKeepsEras DEF EraInv
    <2>3. OneSync /\ ~recounted' => Eras(TRUE)' /\ Forward
      <3> SUFFICES ASSUME OneSync, ~recounted'
                   PROVE  Eras(TRUE)' /\ Forward
        OBVIOUS
      <3>1. Eras(TRUE)
        BY <1>3, HistoryStays DEF EraInv
      <3> QED
        BY <1>1, <1>3, <2>1, <3>1, NextKeepsEras DEF EraInv
    <2> QED
      BY <1>1, <2>1, <2>2, <2>3 DEF EraInv
  <1> QED
    BY <1>2, <1>3

\* With no deletes, for any number of threads that write and that synchronise,
\* while no pull replaced another row than it had read; and, with one thread that
\* synchronises, while no count was given twice.
THEOREM ErasHold ==
    ASSUME NoDeletes
    PROVE  Spec => []EraInv
  <1>1. EraInv /\ [Next]_vars => EraInv'
    BY StepKeepsEras
  <1> QED
    BY <1>1, InitEras, PTL DEF Spec

\* The HQ takes a version whose clock it has for a repetition: no two writes of
\* this edge carry one clock, whatever the pulls, crashes and errors between.
THEOREM ClocksAreDistinct ==
    ASSUME NoDeletes
    PROVE  Spec => []DistinctClocks
  <1>1. EraInv => DistinctClocks
    BY DEF EraInv, Apart, DistinctClocks
  <1> QED
    BY <1>1, ErasHold, PTL

\* In an era the row is not behind a version that this edge wrote.
LEMMA RowLeadsInEra ==
    ASSUME TypeInv, Shape, NEW loose \in BOOLEAN, Eras(loose),
           NEW i \in DOMAIN outbox, Below(RecordClock(row), outbox[i].body.vc)
    PROVE  Below(outbox[i].body.vc, RecordClock(row))
  <1> DEFINE v == VersionOf(outbox[i].body, Self, Peer)
  <1>1. outbox[i].body \in OpOf(Self)
    BY DEF Shape
  <1>2. /\ v \in Mine /\ v.count \in Nat /\ v.seen \in Nat
        /\ v.count = outbox[i].body.vc[Self] /\ v.seen = outbox[i].body.vc[Peer]
    <2>1. v \in Version
      BY <1>1, ThreadsAreApart, OurOpType, VersionType
    <2> QED
      BY <1>1, <2>1, ThreadsAreApart, OurOpType, VersionType DEF Mine, Version
  <1> HIDE DEF v
  <1>3. PICK e \in Era :
           /\ InEra(e, Mine, Theirs, peerRow, lastTime)
           /\ OnRun(e, row) \/ Pulled(e, row, Mine) \/ Taken(e, row, counted)
    BY EraOfState
  <1>4. /\ e.own \in Nat /\ e.peer \in Nat /\ e.ownRun \in Nat
    BY DEF Era
  <1>5. \/ v.count =< e.own /\ v.seen =< e.peer
        \/ v.seen < e.peer
        \/ v.seen = e.peer /\ v.count =< e.own + e.ownRun
    BY <1>2, <1>3 DEF InEra, Side, InRun
  <1>6. CASE OnRun(e, row)
    BY <1>2, <1>4, <1>5, <1>6 DEF OnRun, Below
  <1>7. CASE Pulled(e, row, Mine) \/ Taken(e, row, counted)
    <2>1. /\ RecordClock(row) = row.vc /\ row.vc[Peer] \in Nat
          /\ row.vc[Peer] > e.peer
      <3>1. row \in OurRow
        BY <1>7 DEF Pulled, Taken, Shape
      <3> QED
        BY <1>7, <3>1, RowType DEF Pulled, Taken, RecordClock
    <2> QED
      BY <1>2, <1>4, <1>5, <2>1 DEF Below
  <1> QED
    BY <1>3, <1>6, <1>7

-----------------------------------------------------------------------------
(* What the versions carry, when the applications write whole records.     *)

WholeRecords == WriteTypes \subseteq {"create", "update"}

\* A version as it is stored, queued or under way.
Copy(vc, data) == [vc |-> vc, data |-> data]

Copies ==
    {Copy(outbox[i].body.vc, outbox[i].body.payload) : i \in DOMAIN outbox}
    \cup {Copy(op[c].vc, op[c].payload) : c \in {d \in Callers : pc[d] = "enqueue"}}
    \cup {Copy(op[s].vc, op[s].payload) : s \in {t \in Syncers : Holding(t)}}
    \cup {Copy(o.vc, o.payload) : o \in peerOutbox}
    \cup {Copy(rec.vc, rec.data) : rec \in {row, hq, peerRow} \ {NoRecord}}

\* A clock stands for one content.
Single == \A a, b \in Copies : a.vc = b.vc => a.data = b.data

\* No operation merges into the record it is applied to.
Whole ==
    /\ \A i \in DOMAIN outbox : outbox[i].body.type # "merge"
    /\ \A c \in Callers : pc[c] # "idle" => op[c].type # "merge"
    /\ \A s \in Syncers : Holding(s) => op[s].type # "merge"
    /\ \A o \in peerOutbox : o.type # "merge"

\* What this edge wrote and has in its row is in the outbox or on its way there.
RowQueued ==
    row # NoRecord /\ row.by = Self /\ ~torn =>
       \/ \E i \in DOMAIN outbox :
             VersionOf(outbox[i].body, Self, Peer) = VersionOf(row, Self, Peer)
       \/ \E c \in Callers :
             /\ pc[c] = "enqueue"
             /\ VersionOf(op[c], Self, Peer) = VersionOf(row, Self, Peer)

\* How operations move in a step: from a write in hand to the outbox, from the HQ
\* to a thread in sync_now.
Travels ==
    /\ \A i \in DOMAIN outbox' :
          \/ i \in DOMAIN outbox /\ outbox'[i].body = outbox[i].body
          \/ \E c \in Callers : pc[c] = "enqueue" /\ outbox'[i].body = op[c]
    /\ \A c \in Callers : pc'[c] # "idle" =>
          \/ pc[c] # "idle" /\ op'[c] = op[c]
          \/ pc'[c] # "enqueue" /\ op'[c].type \in WriteTypes
    /\ \A s \in Syncers : Holding(s)' =>
          \/ Holding(s) /\ op'[s] = op[s]
          \/ hq' # NoRecord /\ op'[s] = AsChange(hq')
    /\ \A o \in peerOutbox' : o \in peerOutbox \/ o.type \in WriteTypes

LEMMA WriteTravels ==
    ASSUME TypeInv, Shape, NEW c \in Callers, WriteStep(c)
    PROVE  Travels
  <1> USE ThreadsAreApart
  <1>1. ASSUME NEW type \in WriteTypes, NEW payload \in Payloads, NEW ts \in Times,
               BeginWrite(c, type, payload, ts)
        PROVE  Travels
    <2>1. outbox' = outbox /\ peerOutbox' = peerOutbox
      BY <1>1 DEF BeginWrite, remoteVars
    <2>2. /\ pc'[c] = "load" /\ op'[c] = NewOperation(row, Self, type, payload, ts)
          /\ \A t \in Thread : t # c => pc'[t] = pc[t] /\ op'[t] = op[t]
      BY <1>1 DEF BeginWrite, Goto, TypeInv, TypeOK
    <2>3. op'[c].type \in WriteTypes
      BY <2>2 DEF NewOperation
    <2> QED
      BY <2>1, <2>2, <2>3 DEF Travels, Holding
  <1>2. CASE ApplyLocal(c)
    <2>1. outbox' = outbox /\ op' = op /\ peerOutbox' = peerOutbox
      BY <1>2 DEF ApplyLocal, remoteVars
    <2>2. /\ pc[c] = "apply" /\ pc'[c] = "enqueue"
          /\ \A t \in Thread : t # c => pc'[t] = pc[t]
      BY <1>2 DEF ApplyLocal, Goto, TypeInv, TypeOK
    <2> QED
      BY <2>1, <2>2 DEF Travels, Holding
  <1>3. CASE LoadClock(c) \/ StoreClock(c, "apply") \/ Enqueue(c) \/ WriteRaises(c)
    <2>1. /\ peerOutbox' = peerOutbox
          /\ \A s \in Syncers : pc'[s] = pc[s] /\ op'[s] = op[s]
          /\ \A i \in DOMAIN outbox' :
                \/ i \in DOMAIN outbox /\ outbox'[i] = outbox[i]
                \/ pc[c] = "enqueue" /\ outbox'[i].body = op[c]
      BY <1>3, QuietWrite
    <2>2. \A d \in Callers : pc'[d] # "idle" => pc[d] # "idle" /\ op'[d] = op[d]
      <3>1. CASE LoadClock(c) \/ StoreClock(c, "apply")
        BY <3>1 DEF LoadClock, StoreClock, Goto, TypeInv, TypeOK
      <3>2. CASE Enqueue(c) \/ WriteRaises(c)
        <4>1. pc' = [pc EXCEPT ![c] = "idle"] /\ op' = [op EXCEPT ![c] = NoOperation]
          BY <3>2 DEF Enqueue, WriteRaises, Leave, Goto
        <4> QED
          BY <4>1 DEF TypeInv, TypeOK
      <3> QED
        BY <1>3, <3>1, <3>2
    <2> QED
      BY <2>1, <2>2 DEF Travels, Holding
  <1> QED
    BY <1>1, <1>2, <1>3 DEF WriteStep

LEMMA SyncTravels ==
    ASSUME TypeInv, Shape, NEW s \in Syncers, SyncStep(s)
    PROVE  Travels
  <1> USE ThreadsAreApart
  <1>1. ASSUME NEW t \in Syncers, Holding(t)'
        PROVE  \/ Holding(t) /\ op'[t] = op[t]
               \/ hq' # NoRecord /\ op'[t] = AsChange(hq')
    <2>1. CASE ReadBatch(s) \/ SendPush(s) \/ LoadClock(s) \/ StoreClock(s, "get")
      BY <1>1, <2>1
      DEF ReadBatch, SendPush, LoadClock, StoreClock, Goto, Holding, TypeInv, TypeOK
    <2>2. CASE GetLocal(s) \/ PullRaises(s)
      BY <1>1, <2>2 DEF GetLocal, PullRaises, Goto, Holding, TypeInv, TypeOK
    <2>3. CASE ApplyPulled(s) \/ ExchangeFails(s)
      BY <1>1, <2>3 DEF ApplyPulled, ExchangeFails, Goto, Holding, TypeInv, TypeOK
    <2>4. CASE Answer(s) /\ ~InDelta(hq', Self, sent[s].vc)
      BY <1>1, <2>4 DEF Answer, Goto, Holding, TypeInv, TypeOK
    <2>5. CASE Answer(s) /\ InDelta(hq', Self, sent[s].vc)
      <3>1. /\ op' = [op EXCEPT ![s] = AsChange(hq')] /\ Goto(s, "load")
            /\ hq' # NoRecord
        BY <2>5 DEF Answer, InDelta
      <3>2. CASE t = s
        BY <3>1, <3>2 DEF TypeInv, TypeOK
      <3>3. CASE t # s
        BY <1>1, <3>1, <3>3 DEF Goto, Holding, TypeInv, TypeOK
      <3> QED
        BY <3>2, <3>3
    <2> QED
      BY <2>1, <2>2, <2>3, <2>4, <2>5 DEF SyncStep
  <1>2. peerOutbox' = peerOutbox
    BY DEF SyncStep, ReadBatch, SendPush, Answer, ExchangeFails, LoadClock,
           StoreClock, GetLocal, ApplyPulled, PullRaises, remoteVars
  <1> QED
    BY <1>1, <1>2, SyncLeavesWrites DEF Travels

LEMMA NextTravels ==
    ASSUME TypeInv, Shape, Next
    PROVE  Travels
  <1>1. CASE Restart
    <2>1. \A t \in Thread : pc'[t] = "idle"
      BY <1>1 DEF Restart
    <2>2. /\ DOMAIN outbox' = DOMAIN outbox
          /\ \A i \in DOMAIN outbox : outbox'[i].body = outbox[i].body
      BY <1>1, MarkKeepsType DEF Restart, TypeInv, TypeOK
    <2>3. peerOutbox' = peerOutbox
      BY <1>1 DEF Restart, remoteVars
    <2> QED
      BY <2>1, <2>2, <2>3, ThreadsAreApart DEF Travels, Holding
  <1>2. CASE Others
    <2>1. outbox' = outbox /\ pc' = pc /\ op' = op
      BY <1>2 DEF Others, PeerWrites, PeerPushes, PeerPulls, localVars, threadVars
    <2>2. \A o \in peerOutbox' : o \in peerOutbox \/ o.type \in WriteTypes
      <3>1. ASSUME NEW type \in WriteTypes, NEW payload \in Payloads,
                   NEW ts \in Times, PeerWrites(type, payload, ts)
            PROVE  \A o \in peerOutbox' : o \in peerOutbox \/ o.type \in WriteTypes
        BY <3>1 DEF PeerWrites, NewOperation
      <3>2. CASE (\E q \in peerOutbox : PeerPushes(q)) \/ PeerPulls
        BY <3>2 DEF PeerPushes, PeerPulls
      <3> QED
        BY <1>2, <3>1, <3>2 DEF Others
    <2> QED
      BY <2>1, <2>2 DEF Travels, Holding
  <1> QED
    BY <1>1, <1>2, WriteTravels, SyncTravels DEF Next

LEMMA NextKeepsWhole ==
    ASSUME WholeRecords, Shape', Whole, Travels
    PROVE  Whole'
  <1>1. \A i \in DOMAIN outbox' : outbox'[i].body.type # "merge"
    BY DEF Travels, Whole
  <1>2. \A c \in Callers : pc'[c] # "idle" => op'[c].type # "merge"
    BY DEF Travels, Whole, WholeRecords
  <1>3. AsChange(hq').type # "merge"
    BY DEF AsChange
  <1>4. \A s \in Syncers : Holding(s)' => op'[s].type # "merge"
    BY <1>3 DEF Travels, Whole
  <1>5. \A o \in peerOutbox' : o.type # "merge"
    BY DEF Travels, Whole, WholeRecords
  <1> QED
    BY <1>1, <1>2, <1>4, <1>5 DEF Whole

LEMMA NextKeepsRowQueued ==
    ASSUME TypeInv, Shape, RowQueued, Next
    PROVE  RowQueued'
  <1> SUFFICES ASSUME ~torn'
               PROVE  RowQueued'
    BY DEF RowQueued
  <1> USE ThreadsAreApart
  \* the writes that stay in hand, and the outbox that stays
  <1>1. ASSUME row' = row, ~torn,
               \A i \in DOMAIN outbox : /\ i \in DOMAIN outbox'
                                        /\ outbox'[i].body = outbox[i].body,
               \A c \in Callers : pc[c] = "enqueue" =>
                  \/ pc'[c] = "enqueue" /\ op'[c] = op[c]
                  \/ \E i \in DOMAIN outbox' : outbox'[i].body = op[c]
        PROVE  RowQueued'
    <2>1. CASE \E i \in DOMAIN outbox :
                  VersionOf(outbox[i].body, Self, Peer) = VersionOf(row, Self, Peer)
      BY <1>1, <2>1 DEF RowQueued
    <2>2. CASE \E c \in Callers :
                  /\ pc[c] = "enqueue"
                  /\ VersionOf(op[c], Self, Peer) = VersionOf(row, Self, Peer)
      BY <1>1, <2>2 DEF RowQueued
    <2> QED
      BY <1>1, <2>1, <2>2 DEF RowQueued
  <1>2. ASSUME NEW c \in Callers, WriteStep(c)
        PROVE  RowQueued'
    <2>1. CASE ApplyLocal(c)
      <3>1. op' = op /\ pc'[c] = "enqueue" /\ op[c] \in OpOf(Self)
        BY <2>1 DEF ApplyLocal, Goto, TypeInv, TypeOK, Shape
      <3>2. row'.vc = op[c].vc /\ row'.ts = op[c].ts
        BY <2>1, <3>1, OurApply DEF ApplyLocal, TypeInv, TypeOK
      <3>3. VersionOf(op'[c], Self, Peer) = VersionOf(row', Self, Peer)
        BY <3>1, <3>2 DEF VersionOf
      <3> QED
        BY <3>1, <3>3 DEF RowQueued
    <2>2. CASE \E type \in WriteTypes, payload \in Payloads, ts \in Times :
                  BeginWrite(c, type, payload, ts)
      <3>1. row' = row /\ outbox' = outbox /\ torn' = torn /\ pc[c] = "idle"
        BY <2>2 DEF BeginWrite, history
      <3>2. \A d \in Callers : d # c => pc'[d] = pc[d] /\ op'[d] = op[d]
        BY <2>2 DEF BeginWrite, Goto, TypeInv, TypeOK
      <3> QED
        BY <1>1, <3>1, <3>2
    <2>3. CASE LoadClock(c) \/ StoreClock(c, "apply")
      <3>1. /\ row' = row /\ outbox' = outbox /\ torn' = torn /\ op' = op
            /\ pc[c] # "enqueue"
        BY <2>3 DEF LoadClock, StoreClock, localVars, history
      <3>2. \A d \in Callers : d # c => pc'[d] = pc[d]
        BY <2>3 DEF LoadClock, StoreClock, Goto, TypeInv, TypeOK
      <3> QED
        BY <1>1, <3>1, <3>2
    <2>4. CASE WriteRaises(c)
      <3>1. row' = row /\ outbox' = outbox /\ ~torn /\ pc[c] # "enqueue"
        BY <2>4 DEF WriteRaises
      <3>2. \A d \in Callers : d # c => pc'[d] = pc[d] /\ op'[d] = op[d]
        BY <2>4 DEF WriteRaises, Leave, Goto, TypeInv, TypeOK
      <3> QED
        BY <1>1, <3>1, <3>2
    <2>5. CASE Enqueue(c)
      <3>1. row' = row /\ torn' = torn
        BY <2>5 DEF Enqueue, history
      <3>2. /\ outbox \in Seq(Queued)
            /\ outbox' = Append(outbox, [body |-> op[c], state |-> "pending"])
        BY <2>5 DEF Enqueue, TypeInv, TypeOK
      <3>3. \A i \in DOMAIN outbox : /\ i \in DOMAIN outbox'
                                     /\ outbox'[i] = outbox[i]
        BY <3>2
      <3>4. \E i \in DOMAIN outbox' : outbox'[i].body = op[c]
        <4> DEFINE n == Len(outbox) + 1
        <4>1. n \in DOMAIN outbox' /\ outbox'[n].body = op[c]
          BY <3>2
        <4> QED
          BY <4>1
      <3>5. \A d \in Callers : d # c => pc'[d] = pc[d] /\ op'[d] = op[d]
        BY <2>5 DEF Enqueue, Leave, Goto, TypeInv, TypeOK
      <3> QED
        BY <1>1, <3>1, <3>3, <3>4, <3>5
    <2> QED
      BY <1>2, <2>1, <2>2, <2>3, <2>4, <2>5 DEF WriteStep
  <1>3. ASSUME NEW s \in Syncers, SyncStep(s)
        PROVE  RowQueued'
    <2>1. /\ DOMAIN outbox' = DOMAIN outbox
          /\ \A i \in DOMAIN outbox : outbox'[i].body = outbox[i].body
          /\ \A c \in Callers : pc'[c] = pc[c] /\ op'[c] = op[c]
      BY <1>3, SyncLeavesWrites
    <2>2. torn' = torn
      BY <1>3 DEF SyncStep, ReadBatch, SendPush, Answer, ExchangeFails, LoadClock,
                  StoreClock, GetLocal, ApplyPulled, PullRaises, history
    <2>3. CASE row' = row
      BY <1>1, <2>1, <2>2, <2>3
    <2>4. CASE row' # row
      <3>1. ApplyPulled(s)
        BY <1>3, <2>4 DEF SyncStep, ReadBatch, SendPush, Answer, ExchangeFails,
                          LoadClock, StoreClock, GetLocal, PullRaises, localVars
      <3>2. op[s] \in OpOf(Peer)
        BY <3>1 DEF ApplyPulled, Shape, Holding
      <3>3. row' = ApplyOperation(row, op[s])
        BY <2>4, <3>1 DEF ApplyPulled
      <3>4. row'.by = Peer
        BY <3>2, <3>3, OurApply DEF TypeInv, TypeOK
      <3> QED
        BY <3>4 DEF RowQueued
    <2> QED
      BY <2>3, <2>4
  <1>4. CASE Restart
    <2>1. row' = row /\ ~torn /\ \A c \in Callers : pc[c] # "enqueue"
      BY <1>4 DEF Restart
    <2>2. /\ DOMAIN outbox' = DOMAIN outbox
          /\ \A i \in DOMAIN outbox : outbox'[i].body = outbox[i].body
      BY <1>4, MarkKeepsType DEF Restart, TypeInv, TypeOK
    <2> QED
      BY <1>1, <2>1, <2>2
  <1>5. CASE Others
    BY <1>1, <1>5
    DEF Others, PeerWrites, PeerPushes, PeerPulls, localVars, threadVars, history
  <1> QED
    BY <1>2, <1>3, <1>4, <1>5 DEF Next

\* What a record holds after an operation that writes it whole.
LEMMA WholeApply ==
    ASSUME NEW rec, NEW n \in {Self, Peer}, NEW o \in OpOf(n), o.type # "merge"
    PROVE  /\ ApplyOperation(rec, o).vc = o.vc
           /\ ApplyOperation(rec, o).data = o.payload
  <1>1. o.type \in {"create", "update"}
    BY DEF OpOf, Operation, OpType
  <1> QED
    BY <1>1 DEF ApplyOperation, DataAfter

LEMMA CopiesStay ==
    ASSUME Travels, NEW X, Copies \subseteq X,
           \A rec \in {row', hq', peerRow'} \ {NoRecord} :
              Copy(rec.vc, rec.data) \in X,
           \A o \in peerOutbox' : Copy(o.vc, o.payload) \in X,
           \A c \in Callers :
              pc'[c] = "enqueue" => Copy(op'[c].vc, op'[c].payload) \in X
    PROVE  Copies' \subseteq X
  <1>1. ASSUME NEW i \in DOMAIN outbox'
        PROVE  Copy(outbox'[i].body.vc, outbox'[i].body.payload) \in X
    BY DEF Travels, Copies
  <1>2. ASSUME NEW s \in Syncers, Holding(s)'
        PROVE  Copy(op'[s].vc, op'[s].payload) \in X
    <2>1. CASE Holding(s) /\ op'[s] = op[s]
      BY <2>1 DEF Copies
    <2>2. CASE hq' # NoRecord /\ op'[s] = AsChange(hq')
      <3>1. op'[s].vc = hq'.vc /\ op'[s].payload = hq'.data
        BY <2>2 DEF AsChange
      <3> QED
        BY <2>2, <3>1
    <2> QED
      BY <1>2, <2>1, <2>2 DEF Travels
  <1> QED
    BY <1>1, <1>2 DEF Copies

\* Every copy counts as some version of the era.
LEMMA CopyIsAVersion ==
    ASSUME TypeInv, Shape, NEW a \in Copies
    PROVE  \/ \E v \in Mine : v.count = a.vc[Self] /\ v.seen = a.vc[Peer]
           \/ \E v \in Theirs : v.count = a.vc[Peer] /\ v.seen = a.vc[Self]
  <1> USE ThreadsAreApart
  <1>1. CASE \E i \in DOMAIN outbox :
                a = Copy(outbox[i].body.vc, outbox[i].body.payload)
    <2>1. PICK i \in DOMAIN outbox : a.vc = outbox[i].body.vc
      BY <1>1 DEF Copy
    <2> DEFINE v == VersionOf(outbox[i].body, Self, Peer)
    <2>2. v \in Version /\ v.count = a.vc[Self] /\ v.seen = a.vc[Peer]
      BY <2>1, OurOpType, VersionType DEF Shape
    <2>3. v \in Mine
      BY <2>2 DEF Mine
    <2> QED
      BY <2>2, <2>3
  <1>2. CASE \E c \in Callers :
                pc[c] = "enqueue" /\ a = Copy(op[c].vc, op[c].payload)
    <2>1. PICK c \in Callers : pc[c] = "enqueue" /\ a.vc = op[c].vc
      BY <1>2 DEF Copy
    <2> DEFINE v == VersionOf(op[c], Self, Peer)
    <2>2. v \in Version /\ v.count = a.vc[Self] /\ v.seen = a.vc[Peer]
      BY <2>1, OurOpType, VersionType DEF Shape
    <2>3. v \in Mine
      BY <2>1, <2>2 DEF Mine
    <2> QED
      BY <2>2, <2>3
  <1>3. CASE \E s \in Syncers : Holding(s) /\ a = Copy(op[s].vc, op[s].payload)
    <2>1. PICK s \in Syncers : Holding(s) /\ a.vc = op[s].vc
      BY <1>3 DEF Copy
    <2> DEFINE v == VersionOf(op[s], Peer, Self)
    <2>2. v \in Version /\ v.count = a.vc[Peer] /\ v.seen = a.vc[Self]
      BY <2>1, OurOpType, VersionType DEF Shape
    <2>3. v \in Theirs
      BY <2>1, Shows, SetsOfVersions
    <2> QED
      BY <2>2, <2>3
  <1>4. CASE \E o \in peerOutbox : a = Copy(o.vc, o.payload)
    <2>1. PICK o \in peerOutbox : a.vc = o.vc
      BY <1>4 DEF Copy
    <2> DEFINE v == VersionOf(o, Peer, Self)
    <2>2. v \in Version /\ v.count = a.vc[Peer] /\ v.seen = a.vc[Self]
      BY <2>1, OurOpType, VersionType DEF Shape
    <2>3. v \in Theirs
      BY Shows
    <2> QED
      BY <2>2, <2>3
  <1>5. CASE \E rec \in {row, hq, peerRow} \ {NoRecord} : a = Copy(rec.vc, rec.data)
    <2>1. PICK rec \in {row, hq, peerRow} \ {NoRecord} : a.vc = rec.vc
      BY <1>5 DEF Copy
    <2>2. rec \in OurRow /\ rec.by \in {Self, Peer}
      BY <2>1 DEF Shape, OurRow
    <2>3. CASE rec.by = Self
      <3> DEFINE v == VersionOf(rec, Self, Peer)
      <3>1. v \in Version /\ v.count = a.vc[Self] /\ v.seen = a.vc[Peer]
        BY <2>1, <2>2, RowType, VersionType
      <3>2. v \in Mine
        BY <2>1, <2>3, <3>1 DEF Mine
      <3> QED
        BY <3>1, <3>2
    <2>4. CASE rec.by = Peer
      <3> DEFINE v == VersionOf(rec, Peer, Self)
      <3>1. v \in Version /\ v.count = a.vc[Peer] /\ v.seen = a.vc[Self]
        BY <2>1, <2>2, RowType, VersionType
      <3>2. v \in Theirs
        BY <2>1, <2>4, Shows, SetsOfVersions DEF Shown
      <3> QED
        BY <3>1, <3>2
    <2> QED
      BY <2>2, <2>3, <2>4
  <1> QED
    BY <1>1, <1>2, <1>3, <1>4, <1>5 DEF Copies

\* None has the clock that either edge gives to its next version.
LEMMA NextClockIsNew ==
    ASSUME TypeInv, Shape, NEW e \in Era, InEra(e, Mine, Theirs, peerRow, lastTime),
           NEW a \in Copies
    PROVE  /\ ~(a.vc[Self] = e.own + e.ownRun + 1 /\ a.vc[Peer] = e.peer)
           /\ ~(a.vc[Self] = e.own /\ a.vc[Peer] = e.peer + e.peerRun + 1)
  <1>1. /\ e.own \in Nat /\ e.peer \in Nat /\ e.ownRun \in Nat /\ e.peerRun \in Nat
    BY DEF Era
  <1>2. /\ \A v \in Mine : /\ v.seen =< e.peer
                            /\ ~(v.count = e.own + e.ownRun + 1 /\ v.seen = e.peer)
        /\ \A v \in Theirs :
              /\ v.seen =< e.own
              /\ ~(v.count = e.peer + e.peerRun + 1 /\ v.seen = e.own)
    <2>1. \A v \in Mine \cup Theirs : v.count \in Nat /\ v.seen \in Nat
      BY SetsOfVersions DEF Version
    <2> QED
      BY <1>1, <2>1 DEF InEra, Side, InRun
  <1>3. CASE \E v \in Mine : v.count = a.vc[Self] /\ v.seen = a.vc[Peer]
    BY <1>1, <1>2, <1>3
  <1>4. CASE \E v \in Theirs : v.count = a.vc[Peer] /\ v.seen = a.vc[Self]
    BY <1>1, <1>2, <1>4
  <1> QED
    BY <1>3, <1>4, CopyIsAVersion

LEMMA NextKeepsSingle ==
    ASSUME WholeRecords, TypeInv, Shape, Whole, Eras(FALSE), Single, Next
    PROVE  Single'
  <1> USE ThreadsAreApart
  <1>1. Travels
    BY NextTravels
  <1>2. ASSUME \A rec \in {row', hq', peerRow'} \ {NoRecord} :
                  Copy(rec.vc, rec.data) \in Copies,
               peerOutbox' \subseteq peerOutbox,
               \A c \in Callers : pc'[c] = "enqueue" =>
                  pc[c] = "enqueue" /\ op'[c] = op[c]
        PROVE  Single'
    <2>1. \A c \in Callers : pc'[c] = "enqueue" =>
             Copy(op'[c].vc, op'[c].payload) \in Copies
      BY <1>2 DEF Copies
    <2>2. \A o \in peerOutbox' : Copy(o.vc, o.payload) \in Copies
      BY <1>2 DEF Copies
    <2>3. Copies' \subseteq Copies
      BY <1>1, <1>2, <2>1, <2>2, CopiesStay
    <2> QED
      BY <2>3 DEF Single
  <1>3. ASSUME NEW vc, NEW data, \A a \in Copies : a.vc # vc,
               \A rec \in {row', hq', peerRow'} \ {NoRecord} :
                  Copy(rec.vc, rec.data) \in Copies \cup {Copy(vc, data)},
               \A o \in peerOutbox' : \/ o \in peerOutbox
                                      \/ o.vc = vc /\ o.payload = data,
               \A c \in Callers : pc'[c] = "enqueue" =>
                  Copy(op'[c].vc, op'[c].payload) \in Copies \cup {Copy(vc, data)}
        PROVE  Single'
    <2>1. \A o \in peerOutbox' :
             Copy(o.vc, o.payload) \in Copies \cup {Copy(vc, data)}
      BY <1>3 DEF Copies
    <2>2. Copies' \subseteq Copies \cup {Copy(vc, data)}
      BY <1>1, <1>3, <2>1, CopiesStay
    <2>3. Copy(vc, data).vc = vc
      BY DEF Copy
    <2> QED
      BY <1>3, <2>2, <2>3 DEF Single
  <1>4. \A rec \in {row, hq, peerRow} \ {NoRecord} : Copy(rec.vc, rec.data) \in Copies
    BY DEF Copies
  <1>5. PICK e \in Era :
           /\ InEra(e, Mine, Theirs, peerRow, lastTime)
           /\ \A c \in Callers : Writing(c) => NextOfRun(e, op[c], lastTime)
    BY DEF Eras
  <1>6. ASSUME NEW c \in Callers, ApplyLocal(c)
        PROVE  Single'
    <2>1. Writing(c) /\ op[c] \in OpOf(Self) /\ op[c].type # "merge"
      BY <1>6 DEF ApplyLocal, Writing, Shape, Whole
    <2>2. op[c].vc[Self] = e.own + e.ownRun + 1 /\ op[c].vc[Peer] = e.peer
      BY <1>5, <2>1 DEF NextOfRun
    <2>3. \A a \in Copies : a.vc # op[c].vc
      BY <1>5, <2>2, NextClockIsNew
    <2>4. row'.vc = op[c].vc /\ row'.data = op[c].payload
      BY <1>6, <2>1, WholeApply DEF ApplyLocal
    <2>5. hq' = hq /\ peerRow' = peerRow /\ peerOutbox' = peerOutbox /\ op' = op
      BY <1>6 DEF ApplyLocal, remoteVars
    <2>6. \A d \in Callers : pc'[d] = "enqueue" => d = c
      BY <1>6 DEF ApplyLocal, Goto, TypeInv, TypeOK, Places
    <2> DEFINE copies == Copies \cup {Copy(op[c].vc, op[c].payload)}
    <2>7. \A rec \in {row', hq', peerRow'} \ {NoRecord} :
             Copy(rec.vc, rec.data) \in copies
      BY <1>4, <2>4, <2>5
    <2>8. \A d \in Callers : pc'[d] = "enqueue" =>
             Copy(op'[d].vc, op'[d].payload) \in copies
      BY <2>5, <2>6
    <2> QED
      BY <1>3, <2>3, <2>5, <2>7, <2>8
  <1>7. ASSUME NEW c \in Callers, WriteStep(c), ~ApplyLocal(c)
        PROVE  Single'
    <2>1. CASE \E type \in WriteTypes, payload \in Payloads, ts \in Times :
                  BeginWrite(c, type, payload, ts)
      <3>1. /\ row' = row /\ hq' = hq /\ peerRow' = peerRow
            /\ peerOutbox' = peerOutbox
        BY <2>1 DEF BeginWrite, remoteVars
      <3>2. \A d \in Callers : pc'[d] # "enqueue"
        BY <2>1 DEF BeginWrite, Goto, TypeInv, TypeOK, Places
      <3> QED
        BY <1>2, <1>4, <3>1, <3>2
    <2>2. CASE LoadClock(c) \/ StoreClock(c, "apply") \/ Enqueue(c) \/ WriteRaises(c)
      <3>1. /\ row' = row /\ hq' = hq /\ peerRow' = peerRow
            /\ peerOutbox' = peerOutbox
            /\ \A d \in Callers : pc'[d] = "enqueue" =>
                  pc[d] = "enqueue" /\ op'[d] = op[d]
        BY <2>2, QuietWrite
      <3> QED
        BY <1>2, <1>4, <3>1
    <2> QED
      BY <1>7, <2>1, <2>2 DEF WriteStep
  <1>8. ASSUME NEW s \in Syncers, SyncStep(s)
        PROVE  Single'
    <2>1. \A c \in Callers : pc'[c] = "enqueue" =>
             pc[c] = "enqueue" /\ op'[c] = op[c]
      BY <1>8, SyncLeavesWrites
    <2>2. peerRow' = peerRow /\ peerOutbox' = peerOutbox
      BY <1>8 DEF SyncStep, ReadBatch, SendPush, Answer, ExchangeFails, LoadClock,
                  StoreClock, GetLocal, ApplyPulled, PullRaises, remoteVars
    <2>3. row' # NoRecord => Copy(row'.vc, row'.data) \in Copies
      <3>1. CASE row' = row
        BY <1>4, <3>1
      <3>2. CASE row' # row
        <4>1. ApplyPulled(s)
          BY <1>8, <3>2
          DEF SyncStep, ReadBatch, SendPush, Answer, ExchangeFails, LoadClock,
              StoreClock, GetLocal, PullRaises, localVars
        <4>2. Holding(s) /\ row' = ApplyOperation(row, op[s])
          BY <3>2, <4>1 DEF ApplyPulled, Holding
        <4>3. op[s] \in OpOf(Peer) /\ op[s].type # "merge"
          BY <4>2 DEF Shape, Whole
        <4>4. row'.vc = op[s].vc /\ row'.data = op[s].payload
          BY <4>2, <4>3, WholeApply
        <4> QED
          BY <4>2, <4>4 DEF Copies
      <3> QED
        BY <3>1, <3>2
    <2>4. hq' # NoRecord => Copy(hq'.vc, hq'.data) \in Copies
      <3>1. CASE hq' = hq
        BY <1>4, <3>1
      <3>2. CASE hq' # hq
        <4>1. hq' = AtHQ(sent[s].ids)
          BY <1>8, <3>2
          DEF SyncStep, ReadBatch, SendPush, Answer, ExchangeFails, LoadClock,
              StoreClock, GetLocal, ApplyPulled, PullRaises, remoteVars
        <4>2. PICK i \in DOMAIN outbox, rec \in Row :
                 hq' = ApplyOperation(rec, outbox[i].body)
          BY <3>2, <4>1, AfterPush DEF TypeInv
        <4>3. outbox[i].body \in OpOf(Self) /\ outbox[i].body.type # "merge"
          BY DEF Shape, Whole
        <4>4. hq'.vc = outbox[i].body.vc /\ hq'.data = outbox[i].body.payload
          BY <4>2, <4>3, WholeApply
        <4> QED
          BY <4>4 DEF Copies
      <3> QED
        BY <3>1, <3>2
    <2> QED
      BY <1>2, <1>4, <2>1, <2>2, <2>3, <2>4
  <1>9. CASE Restart
    <2>1. /\ row' = row /\ hq' = hq /\ peerRow' = peerRow /\ peerOutbox' = peerOutbox
          /\ \A t \in Thread : pc'[t] = "idle"
      BY <1>9 DEF Restart, remoteVars
    <2> QED
      BY <1>2, <1>4, <2>1
  <1>10. ASSUME NEW type \in WriteTypes, NEW payload \in Payloads, NEW ts \in Times,
                PeerWrites(type, payload, ts)
         PROVE  Single'
    <2> DEFINE write == NewOperation(peerRow, Peer, type, payload, ts)
    <2>1. NoDeletes
      BY DEF WholeRecords, NoDeletes
    <2>2. /\ write \in OpOf(Peer) /\ write.type # "merge"
          /\ write.vc = Increment(RecordClock(peerRow), Peer)
      BY <2>1, OurWrite DEF Shape, NewOperation, WholeRecords
    <2>3. /\ row' = row /\ hq' = hq /\ pc' = pc /\ op' = op
          /\ peerRow' = ApplyOperation(peerRow, write)
          /\ peerOutbox' = peerOutbox \cup {write}
      BY <1>10 DEF PeerWrites, localVars, threadVars
    <2> HIDE DEF write
    <2>4. write.vc[Self] = e.own /\ write.vc[Peer] = e.peer + e.peerRun + 1
      <3>1. RecordClock(peerRow) \in Clock
        BY OurRowClock DEF Shape, OurClock
      <3> QED
        BY <1>5, <2>2, <3>1, CountsAfterIncrement DEF InEra, Era
    <2>5. \A a \in Copies : a.vc # write.vc
      BY <1>5, <2>4, NextClockIsNew
    <2>6. peerRow'.vc = write.vc /\ peerRow'.data = write.payload
      BY <2>2, <2>3, WholeApply
    <2>7. \A c \in Callers : pc'[c] = "enqueue" =>
             Copy(op'[c].vc, op'[c].payload) \in Copies
      BY <2>3 DEF Copies
    <2> QED
      BY <1>3, <1>4, <2>3, <2>5, <2>6, <2>7
  <1>11. ASSUME NEW o \in peerOutbox, PeerPushes(o)
         PROVE  Single'
    <2>1. /\ row' = row /\ peerRow' = peerRow /\ pc' = pc /\ op' = op
          /\ hq' = Integrate(hq, o) /\ peerOutbox' \subseteq peerOutbox
      BY <1>11 DEF PeerPushes, localVars, threadVars
    <2>2. o \in OpOf(Peer) /\ o.type # "merge"
      BY DEF Shape, Whole
    <2>3. hq' = hq \/ (hq'.vc = o.vc /\ hq'.data = o.payload)
      BY <2>1, <2>2, WholeApply DEF Integrate
    <2>4. Copy(o.vc, o.payload) \in Copies
      BY DEF Copies
    <2> QED
      BY <1>2, <1>4, <2>1, <2>3, <2>4
  <1>12. CASE PeerPulls
    <2>1. /\ row' = row /\ hq' = hq /\ pc' = pc /\ op' = op
          /\ peerRow' = Integrate(peerRow, AsChange(hq)) /\ peerOutbox' = peerOutbox
      BY <1>12 DEF PeerPulls, localVars, threadVars
    <2>2. hq \in OurRow /\ hq # NoRecord
      BY <1>12 DEF PeerPulls, InDelta, Shape
    <2>3. /\ AsChange(hq) \in OpOf(hq.by) /\ AsChange(hq).type # "merge"
          /\ AsChange(hq).vc = hq.vc /\ AsChange(hq).payload = hq.data
          /\ hq.by \in {Self, Peer}
      BY <2>2, OurChange DEF AsChange, OurRow
    <2>4. peerRow' = peerRow \/ (peerRow'.vc = hq.vc /\ peerRow'.data = hq.data)
      BY <2>1, <2>3, WholeApply DEF Integrate
    <2> QED
      BY <1>2, <1>4, <2>1, <2>2, <2>4
  <1> QED
    BY <1>6, <1>7, <1>8, <1>9, <1>10, <1>11, <1>12 DEF Next, Others

\* The eras, and what the versions carry.
WholeInv == EraInv /\ Whole /\ RowQueued /\ (~overtaken => Single)

LEMMA InitWhole == Init => WholeInv
  <1> SUFFICES ASSUME Init
               PROVE  WholeInv
    OBVIOUS
  <1>1. EraInv
    BY InitEras
  <1>2. Whole /\ RowQueued
    BY ThreadsAreApart DEF Init, Whole, RowQueued, Holding
  <1>3. Copies = {}
    BY ThreadsAreApart DEF Init, Copies, Holding
  <1> QED
    BY <1>1, <1>2, <1>3 DEF WholeInv, Single

LEMMA StepKeepsWhole ==
    ASSUME WholeRecords, WholeInv, [Next]_vars
    PROVE  WholeInv'
  <1>1. NoDeletes
    BY DEF WholeRecords, NoDeletes
  <1>2. EraInv'
    BY <1>1, StepKeepsEras DEF WholeInv
  <1>3. CASE UNCHANGED vars
    <2>1. /\ row' = row /\ hq' = hq /\ peerRow' = peerRow /\ outbox' = outbox
          /\ pc' = pc /\ op' = op /\ torn' = torn /\ overtaken' = overtaken
          /\ peerOutbox' = peerOutbox
      BY <1>3 DEF vars, localVars, threadVars, remoteVars, history
    <2>2. Whole' /\ RowQueued'
      BY <2>1 DEF WholeInv, Whole, RowQueued, Holding
    <2>3. Copies' = Copies
      BY <2>1 DEF Copies, Holding
    <2> QED
      BY <1>2, <2>1, <2>2, <2>3 DEF WholeInv, Single
  <1>4. CASE Next
    <2>1. Whole'
      BY <1>2, <1>4, NextTravels, NextKeepsWhole DEF WholeInv, EraInv
    <2>2. RowQueued'
      BY <1>4, NextKeepsRowQueued DEF WholeInv, EraInv
    <2>3. ~overtaken' => ~overtaken
      BY <1>4, HistoryStays
    <2>4. ~overtaken' => Single'
      BY <1>4, <2>3, NextKeepsSingle DEF WholeInv, EraInv
    <2> QED
      BY <1>2, <2>1, <2>2, <2>4 DEF WholeInv
  <1> QED
    BY <1>3, <1>4

-----------------------------------------------------------------------------
(* The row and the outbox, on either condition.                            *)

\* A delta leaves out what the peer wrote itself, so what an edge pushed without
\* having it in its row would be lost to it: while no own count is given twice, or
\* no pull replaced another row than it had read, the row is never behind an
\* operation in the outbox.
THEOREM RowIsStoredFirst ==
    ASSUME NoDeletes, OneSync
    PROVE  Spec => []StoredBeforeQueued
  <1>1. ASSUME EraInv
        PROVE  StoredBeforeQueued
    <2> SUFFICES ASSUME ~recounted \/ ~overtaken, NEW i \in DOMAIN outbox
                 PROVE  Compare(RecordClock(row), outbox[i].body.vc) # "before"
      BY DEF StoredBeforeQueued
    <2> DEFINE w == outbox[i].body.vc
    <2>1. TypeInv /\ Shape
      BY <1>1 DEF EraInv
    <2>2. w \in OurClock /\ w \in Clock
      BY <2>1 DEF Shape, OpOf, OurClock
    <2>3. RecordClock(row) \in OurClock
      BY <2>1, OurRowClock DEF Shape
    <2>4. Below(RecordClock(row), w) => Below(w, RecordClock(row))
      <3>1. PICK loose \in BOOLEAN : Eras(loose)
        BY <1>1 DEF EraInv
      <3> QED
        BY <2>1, <3>1, RowLeadsInEra
    <2> QED
      BY <2>2, <2>3, <2>4, BelowIsLeq
  <1> QED
    BY <1>1, ErasHold, PTL

\* On the same conditions no step takes the row back, neither a pull that
\* resolved against a row replaced since, nor a write that stores over a row it
\* has not read.
THEOREM RowGoesForward ==
    ASSUME NoDeletes, OneSync
    PROVE  Spec => RowNeverGoesBack
  <1>1. ASSUME EraInv, [Next]_vars
        PROVE  [row # NoRecord /\ (~recounted' \/ ~overtaken')
                  => Compare(RecordClock(row'), row.vc) # "before"]_vars
    <2> SUFFICES ASSUME row # NoRecord, ~recounted' \/ ~overtaken'
                 PROVE  Compare(RecordClock(row'), row.vc) # "before"
      OBVIOUS
    <2>1. Shape /\ Shape'
      BY <1>1, StepKeepsEras DEF EraInv
    <2>2. row.vc = RecordClock(row)
      BY DEF RecordClock
    <2>3. RecordClock(row) \in OurClock /\ RecordClock(row') \in OurClock
      BY <2>1, OurRowClock DEF Shape
    <2>4. Forward
      BY <1>1, StepKeepsEras
    <2>5. Below(RecordClock(row'), RecordClock(row))
             => Below(RecordClock(row), RecordClock(row'))
      BY <2>4 DEF Forward
    <2> QED
      BY <2>2, <2>3, <2>5, BelowIsLeq
  <1> QED
    BY <1>1, ErasHold, PTL DEF Spec, RowNeverGoesBack

-----------------------------------------------------------------------------
(* The edge and the HQ, once everything is acknowledged.                   *)

\* Two sites with the same counts hold the same.
LEMMA SameCountsSameRecord ==
    ASSUME Shape, Single, RecordClock(row)[Self] = RecordClock(hq)[Self],
           RecordClock(row)[Peer] = RecordClock(hq)[Peer]
    PROVE  /\ Visible(row) = Visible(hq)
           /\ hq # NoRecord => ~Accepts(row, AsChange(hq))
  <1>1. ASSUME NEW rec \in {row, hq}, rec # NoRecord
        PROVE  /\ rec \in OurRow /\ RecordClock(rec) = rec.vc /\ ~rec.deleted
               /\ rec.vc[Self] \in Nat /\ rec.vc[Peer] \in Nat
               /\ rec.vc[Self] >= 1 \/ rec.vc[Peer] >= 1
               /\ rec.vc \in OurClock /\ rec.by \in {Self, Peer}
    <2>1. rec \in OurRow
      BY <1>1 DEF Shape
    <2> QED
      BY <1>1, <2>1, RowType DEF RecordClock, OurRow
  <1>2. RecordClock(NoRecord)[Self] = 0 /\ RecordClock(NoRecord)[Peer] = 0
    BY ThreadsAreApart DEF RecordClock, EmptyClock
  <1>3. row = NoRecord <=> hq = NoRecord
    BY <1>1, <1>2
  <1>4. CASE row = NoRecord
    BY <1>3, <1>4
  <1>5. CASE row # NoRecord
    <2>1. row.vc = hq.vc
      <3>1. \A n \in Node : row.vc[n] = hq.vc[n]
        BY <1>1, <1>3, <1>5 DEF OurClock
      <3>2. row.vc \in [Node -> Nat] /\ hq.vc \in [Node -> Nat]
        BY <1>1, <1>3, <1>5 DEF OurClock, Clock
      <3> QED
        BY <3>1, <3>2
    <2>2. row.data = hq.data
      <3>1. /\ Copy(row.vc, row.data) \in Copies
            /\ Copy(hq.vc, hq.data) \in Copies
        BY <1>3, <1>5 DEF Copies
      <3> QED
        BY <2>1, <3>1 DEF Single, Copy
    <2>3. Visible(row) = Visible(hq)
      BY <1>1, <1>3, <1>5, <2>1, <2>2 DEF Visible
    <2>4. ~Accepts(row, AsChange(hq))
      <3>1. AsChange(hq) \in OpOf(hq.by) /\ AsChange(hq).vc = hq.vc
        BY <1>1, <1>3, <1>5, OurChange
      <3>2. Below(hq.vc, row.vc)
        BY <1>1, <1>3, <1>5, <2>1 DEF Below
      <3> QED
        BY <1>1, <1>3, <1>5, <3>1, <3>2, AcceptsByCounts
    <2> QED
      BY <2>3, <2>4
  <1> QED
    BY <1>4, <1>5

\* The row of an edge that acknowledged everything counts as the last version the
\* edge wrote of its run.
LEMMA SettledRow ==
    ASSUME TypeInv, Shape, RowQueued, Settled, ~torn,
           NEW e \in Era, OnRun(e, row), e.ownRun > 0
    PROVE  /\ row \in OurRow /\ row # NoRecord /\ row.by = Self
           /\ RecordClock(row) = row.vc
           /\ VersionOf(row, Self, Peer) \in Synced
           /\ InRun(VersionOf(row, Self, Peer), e.own, e.peer)
  <1> USE ThreadsAreApart
  <1>1. row.by = Self /\ e.own \in Nat /\ e.ownRun \in Nat /\ e.peer \in Nat
    BY DEF OnRun, Era
  <1>2. row # NoRecord
    <2>1. RecordClock(row)[Self] > 0
      BY <1>1 DEF OnRun
    <2> QED
      BY <2>1 DEF RecordClock, EmptyClock
  <1>3. row \in OurRow /\ RecordClock(row) = row.vc
    BY <1>2 DEF Shape, RecordClock
  <1> DEFINE v == VersionOf(row, Self, Peer)
  <1>4. v \in Version /\ v.count = row.vc[Self] /\ v.seen = row.vc[Peer]
    BY <1>3, RowType, VersionType
  <1>5. v \in Synced
    <2>1. \A c \in Callers : pc[c] # "enqueue"
      BY DEF Settled
    <2>2. PICK i \in DOMAIN outbox : VersionOf(outbox[i].body, Self, Peer) = v
      BY <1>1, <1>2, <2>1 DEF RowQueued
    <2>3. outbox[i].state = "synced"
      BY DEF Settled, InState
    <2> HIDE DEF v
    <2> QED
      BY <1>4, <2>2, <2>3 DEF Synced
  <1>6. InRun(v, e.own, e.peer)
    BY <1>1, <1>3, <1>4 DEF OnRun, InRun
  <1> QED
    BY <1>1, <1>2, <1>3, <1>5, <1>6

\* Whatever updates of the global clock were lost, whatever was pulled or pushed
\* twice and whatever write replaced a row it had not read: for any number of
\* threads that write whole records and that synchronise, an edge whose outbox is
\* acknowledged has what the HQ has, or pulls it.
THEOREM SettledAgrees ==
    ASSUME WholeRecords
    PROVE  Spec => []SettledAgreement
  <1>1. ASSUME WholeInv
        PROVE  SettledAgreement
    <2> SUFFICES ASSUME Settled, Leq(known, RecordClock(row)), ~torn, ~overtaken
                 PROVE  Visible(AfterPull) = Visible(hq)
      BY DEF SettledAgreement
    <2> USE ThreadsAreApart
    <2>1. TypeInv /\ Shape /\ Eras(FALSE) /\ RowQueued /\ Whole /\ Single
      BY <1>1 DEF WholeInv, EraInv
    <2>2. \A c \in Callers : ~Writing(c)
      BY DEF Settled, Writing
    <2>3. PICK e \in Era : /\ InEra(e, Mine, Theirs, peerRow, lastTime)
                           /\ AtHub(e, hq, Synced, Reached) /\ OnRun(e, row)
      BY <2>1, <2>2 DEF Eras
    <2>4. /\ e.own \in Nat /\ e.peer \in Nat /\ e.ownRun \in Nat
          /\ e.peerRun \in Nat /\ Self \in Nat /\ Peer \in Nat
      BY ResolverAssumption DEF Era
    <2>5. /\ RecordClock(row)[Self] = e.own + e.ownRun
          /\ RecordClock(row)[Peer] = e.peer
      BY <2>3 DEF OnRun
    <2>6. e.ownRun > 0 =>
             /\ row \in OurRow /\ row # NoRecord /\ row.by = Self
             /\ RecordClock(row) = row.vc
             /\ VersionOf(row, Self, Peer) \in Synced
             /\ InRun(VersionOf(row, Self, Peer), e.own, e.peer)
      BY <2>1, <2>3, SettledRow
    <2>7. CASE /\ RecordClock(row)[Self] = RecordClock(hq)[Self]
               /\ RecordClock(row)[Peer] = RecordClock(hq)[Peer]
      <3>1. /\ Visible(row) = Visible(hq)
            /\ hq # NoRecord => ~Accepts(row, AsChange(hq))
        BY <2>1, <2>7, SameCountsSameRecord
      <3>2. AfterPull = row
        BY <3>1 DEF AfterPull, InDelta, Integrate, Resolve
      <3> QED
        BY <3>1, <3>2
    <2>8. CASE AtBase(hq, Self, Peer, e.own, e.peer, e.ownTime, e.peerTime, Synced,
                      Reached)
      <3>1. ~(e.ownRun > 0)
        BY <2>6, <2>8 DEF AtBase
      <3> QED
        BY <2>4, <2>5, <2>7, <2>8, <3>1 DEF AtBase
    <2>9. CASE OnTop(hq, Self, Peer, e.own, e.peer, Synced, Reached)
      <3>1. /\ hq # NoRecord /\ hq \in OurRow /\ RecordClock(hq) = hq.vc
            /\ hq.by = Self /\ hq.vc[Self] > e.own /\ hq.vc[Peer] = e.peer
            /\ hq.vc[Self] \in Nat
        BY <2>1, <2>9, RowType DEF OnTop, Shape, RecordClock
      <3> DEFINE u == VersionOf(hq, Self, Peer)
      <3>2. u \in Version /\ u.count = hq.vc[Self] /\ u.seen = hq.vc[Peer]
        BY <3>1, RowType, VersionType
      <3>3. u \in Mine
        BY <2>1, <3>1, Shows DEF Shown
      <3> HIDE DEF u
      <3>4. e.ownRun > 0 /\ hq.vc[Self] =< e.own + e.ownRun
        BY <2>3, <2>4, <3>1, <3>2, <3>3 DEF InEra, Side, InRun
      <3>5. e.own + e.ownRun =< hq.vc[Self]
        <4>1. VersionOf(row, Self, Peer).count = e.own + e.ownRun
          BY <2>5, <2>6, <3>4 DEF VersionOf
        <4> QED
          BY <2>6, <2>9, <3>4, <4>1 DEF OnTop
      <3> QED
        BY <2>4, <2>5, <2>7, <3>1, <3>4, <3>5
    <2>10. CASE OnTop(hq, Peer, Self, e.peer, e.own, Reached, Synced)
      <3> DEFINE o == AsChange(hq)
      <3>1. /\ hq # NoRecord /\ hq \in OurRow /\ hq.by = Peer
            /\ hq.vc[Self] = e.own /\ hq.vc[Peer] > e.peer /\ hq.vc[Peer] \in Nat
        BY <2>1, <2>10, RowType DEF OnTop, Shape
      <3>2. hq.vc \in OurClock /\ hq.vc \in Clock /\ ~hq.deleted /\ hq.ts \in Nat
        BY <3>1, RowType DEF OurRow
      <3>3. InDelta(hq, Self, known)
        <4>1. ~Leq(hq.vc, known)
          <5>1. known[Peer] =< RecordClock(row)[Peer] /\ known[Peer] \in Nat
            BY <2>1 DEF Leq, TypeInv, TypeOK, Clock
          <5> QED
            BY <2>4, <2>5, <3>1, <5>1 DEF Leq
        <4>2. Compare(known, hq.vc) \in {"before", "concurrent"}
          BY <4>1 DEF Compare
        <4> QED
          BY <3>1, <3>2, <4>2 DEF InDelta
      <3>4. /\ o \in OpOf(Peer) /\ o.vc = hq.vc /\ o.ts = hq.ts
            /\ o.type = "update" /\ o.payload = hq.data
        BY <3>1, <3>2, OurChange DEF AsChange
      <3> HIDE DEF o
      <3>5. Accepts(row, o)
        <4> SUFFICES ASSUME ~Accepts(row, o)
                     PROVE  FALSE
          OBVIOUS
        <4>1. /\ row \in OurRow /\ row # NoRecord
              /\ \/ Below(o.vc, row.vc)
                 \/ ~Below(row.vc, o.vc) /\ ~Beats(Peer, o.ts, row.by, row.ts)
          <5>1. row \in OurRow \cup {NoRecord}
            BY <2>1 DEF Shape
          <5> QED
            BY <3>4, <5>1, DiscardsByCounts
        <4>2. RecordClock(row) = row.vc /\ row.ts \in Nat
          BY <4>1, RowType DEF RecordClock
        <4>3. ~Below(o.vc, row.vc)
          BY <2>4, <2>5, <3>1, <3>4, <4>2 DEF Below
        <4>4. e.ownRun > 0
          BY <2>4, <2>5, <3>1, <3>4, <4>1, <4>2, <4>3 DEF Below
        <4>5. Beats(Peer, hq.ts, Self, row.ts)
          <5>1. VersionOf(row, Self, Peer).ts = row.ts
            BY DEF VersionOf
          <5> QED
            BY <2>6, <2>10, <4>4, <5>1 DEF OnTop
        <4> QED
          BY <2>6, <3>4, <4>1, <4>3, <4>4, <4>5
      <3>6. AfterPull = ApplyOperation(row, o)
        <4>1. Resolve(row, o) = "apply_remote"
          BY <3>4, <3>5 DEF Resolve
        <4> QED
          BY <3>3, <4>1 DEF AfterPull, Integrate, o
      <3>7. /\ AfterPull.vc = hq.vc /\ AfterPull.data = hq.data
            /\ AfterPull # NoRecord /\ ~AfterPull.deleted
        <4>1. row \in Row
          BY <2>1, OurRowClock DEF Shape
        <4>2. ApplyOperation(row, o) # NoRecord /\ ApplyOperation(row, o) \in OurRow
          BY <3>4, <4>1, OurApply
        <4> QED
          BY <3>4, <3>6, <4>2, WholeApply DEF OurRow
      <3> QED
        BY <3>1, <3>2, <3>7 DEF Visible
    <2> QED
      BY <2>3, <2>8, <2>9, <2>10 DEF AtHub, Holds
  <1>2. WholeInv /\ [Next]_vars => WholeInv'
    BY StepKeepsWhole
  <1> QED
    BY <1>1, <1>2, InitWhole, PTL DEF Spec

=============================================================================
