------------------------- MODULE EngineThreadsProofs --------------------------
(***************************************************************************)
(* The locks and the worker of EngineThreads for any number of threads,    *)
(* thread objects and links.                                               *)
(***************************************************************************)
EXTENDS EngineThreads, TLAPS

\* What a probe may do when it ends: the lock of the manager is free, and the
\* thread that held it is in neither block, or still in that of get_status.
LEMMA ReturnSteps ==
    ASSUME TypeOK, NEW t \in Thread, InManager(t), NEW up \in BOOLEAN,
           Return(t, up)
    PROVE  /\ managerLock' = Nobody
           /\ found' = [found EXCEPT ![t] = NoLink]
           /\ \E place \in {"idle", "resting", "probe", "exchanging"} :
                 pc' = [pc EXCEPT ![t] = place]
           /\ \E why \in {"watch", "sync", "exchange"} :
                 task' = [task EXCEPT ![t] = why]
           /\ engineLock' = IF engineLock = t THEN Nobody ELSE engineLock
  <1> USE DEF TypeOK, Return, InManager, InEngine, ProbePlace, Task, Goto,
              Forget, CallProbe, Done
  <1>1. CASE task[t] = "watch"
    BY <1>1, ThreadsAssumption
  <1>2. CASE task[t] = "sync"
    BY <1>2, ThreadsAssumption
  <1>3. CASE task[t] = "exchange"
    BY <1>3, ThreadsAssumption
  <1>4. CASE task[t] \in {"status", "notify"}
    BY <1>4, ThreadsAssumption
  <1> QED
    BY <1>1, <1>2, <1>3, <1>4

-----------------------------------------------------------------------------
(* The types, and who holds which lock.                                    *)

\* The calls of the application.
LEMMA CallKeepsType ==
    ASSUME TypeOK, NEW c \in Callers, Call(c)
    PROVE  TypeOK'
  <1> USE ThreadsAssumption
      DEF TypeOK, Thread, InEngine, InManager, ProbePlace, Place, Task, Goto,
          CallProbe, lifecycle, links
  <1>1. CASE CallWrite(c)
    BY <1>1 DEF CallWrite
  <1>2. CASE CallStatus(c)
    BY <1>2 DEF CallStatus
  <1>3. CASE CallSync(c)
    BY <1>3 DEF CallSync
  <1>4. CASE CallStart(c)
    BY <1>4 DEF CallStart
  <1>5. CASE CallStop(c)
    BY <1>5 DEF CallStop
  <1> QED
    BY <1>1, <1>2, <1>3, <1>4, <1>5 DEF Call

\* The steps that take one of the locks: it is free, or given back at once.
LEMMA LocksKeepsType ==
    ASSUME TypeOK, NEW t \in Thread, Locks(t)
    PROVE  TypeOK'
  <1> USE ThreadsAssumption
      DEF TypeOK, Thread, InEngine, InManager, ProbePlace, Place, Task, Goto,
          CallProbe, lifecycle, links
  <1>1. CASE TakeManager(t)
    BY <1>1 DEF TakeManager
  <1>2. CASE BeginStatus(t)
    BY <1>2 DEF BeginStatus
  <1>3. CASE t \in Callers /\ BeginWrite(t)
    BY <1>3 DEF BeginWrite
  <1>4. CASE t \in Callers /\ StartReturns(t)
    BY <1>4 DEF StartReturns, Stopping
  <1>5. CASE t \in Callers /\ StartClears(t)
    BY <1>5 DEF StartClears
  <1>6. CASE t \in Callers /\ StopCloses(t)
    BY <1>6 DEF StopCloses
  <1> QED
    BY <1>1, <1>2, <1>3, <1>4, <1>5, <1>6 DEF Locks

\* The end of a probe.
LEMMA ReturnKeepsType ==
    ASSUME TypeOK, NEW t \in Thread, InManager(t), NEW up \in BOOLEAN,
           Return(t, up), UNCHANGED <<lifecycle, closed>>,
           lastActive' \in Link \cup {NoLink}, announced' \in Link \cup {NoLink}
    PROVE  TypeOK'
  <1>1. PICK place \in {"idle", "resting", "probe", "exchanging"},
             why \in {"watch", "sync", "exchange"} :
               /\ pc' = [pc EXCEPT ![t] = place]
               /\ task' = [task EXCEPT ![t] = why]
    BY ReturnSteps
  <1>2. /\ managerLock' = Nobody
        /\ found' = [found EXCEPT ![t] = NoLink]
        /\ engineLock' = IF engineLock = t THEN Nobody ELSE engineLock
    BY ReturnSteps
  <1> QED
    BY <1>1, <1>2, ThreadsAssumption
    DEF TypeOK, Thread, InEngine, InManager, ProbePlace, Place, Task, lifecycle

\* The steps that wait for no lock.
LEMMA RunsKeepsType ==
    ASSUME TypeOK, NEW t \in Thread, Runs(t)
    PROVE  TypeOK'
  <1>1. CASE ProbeNone(t)
    <2>1. Return(t, FALSE) /\ InManager(t) /\ UNCHANGED <<lifecycle, closed>>
      BY <1>1 DEF ProbeNone, InManager
    <2>2. lastActive' \in Link \cup {NoLink} /\ announced' \in Link \cup {NoLink}
      BY <1>1 DEF ProbeNone, TypeOK
    <2> QED
      BY <2>1, <2>2, ReturnKeepsType
  <1>2. ASSUME NEW link \in Link, ProbeFinds(t, link)
        PROVE  TypeOK'
    <2>1. CASE lastActive # link
      <3>1. /\ pc' = [pc EXCEPT ![t] = "announcing"]
            /\ found' = [found EXCEPT ![t] = link]
            /\ lastActive' = link
            /\ UNCHANGED <<engineLock, managerLock, task, lifecycle,
                           announced, closed>>
        BY <1>2, <2>1 DEF ProbeFinds, Goto
      <3>2. pc[t] = "probing"
        BY <1>2 DEF ProbeFinds
      <3> QED
        BY <3>1, <3>2, ThreadsAssumption
        DEF TypeOK, InEngine, InManager, ProbePlace, Place, lifecycle
    <2>2. CASE lastActive = link
      <3>1. Return(t, TRUE) /\ InManager(t) /\ UNCHANGED <<lifecycle, closed>>
        BY <1>2, <2>2 DEF ProbeFinds, InManager
      <3>2. lastActive' \in Link \cup {NoLink} /\ announced' \in Link \cup {NoLink}
        BY <1>2 DEF ProbeFinds, TypeOK
      <3> QED
        BY <3>1, <3>2, ReturnKeepsType
    <2> QED
      BY <2>1, <2>2
  <1>3. CASE Announce(t)
    <2>1. Return(t, TRUE) /\ InManager(t) /\ UNCHANGED <<lifecycle, closed>>
      BY <1>3 DEF Announce, InManager
    <2>2. lastActive' \in Link \cup {NoLink} /\ announced' \in Link \cup {NoLink}
      BY <1>3 DEF Announce, TypeOK
    <2> QED
      BY <2>1, <2>2, ReturnKeepsType
  <1> USE ThreadsAssumption
      DEF TypeOK, Thread, InEngine, InManager, ProbePlace, Place, Task, Goto,
          CallProbe, lifecycle, links, Done, Alive
  <1>4. CASE Exchanged(t)
    BY <1>4 DEF Exchanged
  <1>5. CASE t \in Callers /\ EndWrite(t)
    BY <1>5 DEF EndWrite
  <1>6. CASE t \in Callers /\ StartRuns(t)
    BY <1>6 DEF StartRuns
  <1>7. CASE t \in Callers /\ StopLooks(t)
    <2>1. CASE worker # Nobody /\ Alive(worker)
      <3>1. /\ pc' = [pc EXCEPT ![t] = "joining"]
            /\ joins' = [joins EXCEPT ![t] = worker]
            /\ pc[t] = "stopping"
            /\ UNCHANGED <<engineLock, managerLock, task, found, worker, stopEvent,
                           wanted, late, lastActive, announced, closed>>
        BY <1>7, <2>1 DEF StopLooks
      <3> QED
        BY <1>7, <3>1
    <2>2. CASE ~(worker # Nobody /\ Alive(worker))
      BY <1>7, <2>2 DEF StopLooks
    <2> QED
      BY <2>1, <2>2
  <1>8. CASE t \in Callers /\ StopJoined(t)
    BY <1>8 DEF StopJoined
  <1>9. CASE t \in Workers /\ Loop(t)
    BY <1>9 DEF Loop
  <1>10. CASE t \in Workers /\ Wake(t)
    BY <1>10 DEF Wake
  <1> QED
    BY <1>1, <1>2, <1>3, <1>4, <1>5, <1>6, <1>7, <1>8, <1>9, <1>10 DEF Runs

\* The variables keep their types, and each lock is held by the thread that is
\* in its with block and by no other.
THEOREM TypeCorrect == Spec => []TypeOK
  <1>1. Init => TypeOK
    <2> SUFFICES ASSUME Init
                 PROVE  TypeOK
      OBVIOUS
    <2>1. \A t \in Thread : ~InEngine(t) /\ ~InManager(t) /\ t # Nobody
      BY ThreadsAssumption DEF Init, InEngine, InManager, ProbePlace
    <2>2. pc \in [Thread -> Place] /\ task \in [Thread -> Task]
      BY DEF Init, Place, Task
    <2> QED
      BY <2>1, <2>2 DEF Init, TypeOK
  <1>2. TypeOK /\ [Next]_vars => TypeOK'
    <2> SUFFICES ASSUME TypeOK, [Next]_vars
                 PROVE  TypeOK'
      OBVIOUS
    <2>1. CASE UNCHANGED vars
      BY <2>1 DEF vars, lifecycle, links, TypeOK, InEngine, InManager
    <2> QED
      BY <2>1, CallKeepsType, LocksKeepsType, RunsKeepsType DEF Next
  <1> QED
    BY <1>1, <1>2, PTL DEF Spec

-----------------------------------------------------------------------------
(* The worker.                                                             *)

\* The places of a thread that the invariants about the worker speak of.
Lifecycle == {"dead", "starting", "stopping", "joining"}

\* No thread arrives at one of them or leaves it, and no event changes.
Quiet == /\ UNCHANGED lifecycle
         /\ \A t \in Thread, place \in Lifecycle : pc'[t] = place <=> pc[t] = place

\* The steps that do matter.
Marked(c) == \/ CallStop(c) \/ StartReturns(c) \/ StartClears(c) \/ StartRuns(c)
             \/ StopLooks(c) \/ StopJoined(c)

\* The steps inside the lock of the manager.
Probes(t) ==
    ProbeNone(t) \/ (\E link \in Link : ProbeFinds(t, link)) \/ Announce(t)

\* Every other step is quiet.
LEMMA QuietSteps ==
    ASSUME TypeOK, [Next]_vars
    PROVE  Quiet \/ (\E c \in Callers : Marked(c)) \/ (\E w \in Workers : Loop(w))
  <1> USE ThreadsAssumption DEF Quiet, Lifecycle, lifecycle
  <1>1. ASSUME NEW t \in Thread, InManager(t), NEW up \in BOOLEAN,
               Return(t, up), UNCHANGED lifecycle
        PROVE  Quiet
    <2>1. PICK place \in {"idle", "resting", "probe", "exchanging"} :
              pc' = [pc EXCEPT ![t] = place]
      BY <1>1, ReturnSteps
    <2> QED
      BY <1>1, <2>1 DEF TypeOK, InManager
  <1>2. ASSUME NEW c \in Callers, Call(c), ~Marked(c)
        PROVE  Quiet
    BY <1>2 DEF Call, Marked, CallWrite, CallStatus, CallSync, CallStart,
                CallProbe, Goto, TypeOK, Thread
  <1>3. ASSUME NEW t \in Thread, Locks(t)
        PROVE  Quiet \/ (\E c \in Callers : Marked(c))
    BY <1>3 DEF Locks, Marked, TakeManager, BeginStatus, BeginWrite, StopCloses,
                CallProbe, Goto, TypeOK, Thread
  <1>4. ASSUME NEW t \in Thread, Runs(t)
        PROVE  \/ Quiet \/ (\E c \in Callers : Marked(c))
               \/ (\E w \in Workers : Loop(w))
    <2>1. CASE Probes(t)
      <3>1. InManager(t) /\ UNCHANGED lifecycle
        BY <2>1 DEF Probes, ProbeNone, ProbeFinds, Announce, InManager
      <3>2. CASE \E up \in BOOLEAN : Return(t, up)
        BY <1>1, <3>1, <3>2
      <3>3. CASE ~(\E up \in BOOLEAN : Return(t, up))
        <4>1. UNCHANGED pc \/ pc' = [pc EXCEPT ![t] = "announcing"]
          BY <2>1, <3>3 DEF Probes, ProbeNone, ProbeFinds, Announce, Goto
        <4> QED
          BY <3>1, <4>1 DEF TypeOK, InManager
      <3> QED
        BY <3>2, <3>3
    <2>2. CASE Exchanged(t)
      BY <2>2 DEF Exchanged, Done, Goto, TypeOK
    <2>3. CASE t \in Callers /\ EndWrite(t)
      BY <2>3 DEF EndWrite, Goto, TypeOK
    <2>4. CASE t \in Workers /\ Wake(t)
      BY <2>4 DEF Wake, Goto, TypeOK
    <2> QED
      BY <1>4, <2>1, <2>2, <2>3, <2>4 DEF Runs, Probes, Marked
  <1>5. CASE UNCHANGED vars
    BY <1>5 DEF vars
  <1> QED
    BY <1>2, <1>3, <1>4, <1>5 DEF Next

\* The thread object in _worker_thread is the only one that can be alive.
OnlyThatOne == \A w \in Workers : Alive(w) => w = worker

\* No worker is alive while start makes one.
FreshStart ==
    \A c \in Callers : pc[c] = "starting" => \A w \in Workers : ~Alive(w)

\* A live worker that was told to stop has a stop that waits for it, or one
\* that gave up.
Awaited ==
    stopEvent /\ ~late /\ worker # Nobody /\ Alive(worker) =>
        \E c \in Callers : \/ pc[c] = "stopping"
                           \/ pc[c] = "joining" /\ joins[c] = worker

WorkerInv == TypeOK /\ OnlyThatOne /\ FreshStart /\ Awaited /\ StartedRuns

\* WorkerInv is inductive.
LEMMA WorkerInvStep ==
    ASSUME WorkerInv, TypeOK', [Next]_vars
    PROVE  WorkerInv'
  <1> USE ThreadsAssumption
      DEF WorkerInv, OnlyThatOne, FreshStart, Awaited, StartedRuns, Alive,
          Lifecycle, lifecycle
  <1>1. CASE Quiet
    BY <1>1 DEF Quiet, TypeOK, Thread
  <1>2. ASSUME NEW w \in Workers, Loop(w)
        PROVE  WorkerInv'
    <2>1. CASE stopEvent
      BY <1>2, <2>1 DEF Loop, Goto, TypeOK, Thread
    <2>2. CASE ~stopEvent
      BY <1>2, <2>2 DEF Loop, CallProbe, Goto, TypeOK, Thread
    <2> QED
      BY <2>1, <2>2
  <1>3. ASSUME NEW c \in Callers, CallStop(c)
        PROVE  WorkerInv'
    BY <1>3 DEF CallStop, Goto, TypeOK, Thread
  <1>4. ASSUME NEW c \in Callers, StartReturns(c)
        PROVE  WorkerInv'
    BY <1>4 DEF StartReturns, Stopping, Goto, TypeOK, Thread
  <1>5. ASSUME NEW c \in Callers, StartClears(c)
        PROVE  WorkerInv'
    BY <1>5 DEF StartClears, Goto, TypeOK, Thread
  <1>6. ASSUME NEW c \in Callers, StartRuns(c)
        PROVE  WorkerInv'
    \* no other caller is in the with block of start
    <2>1. \A d \in Callers : pc[d] = "starting" => d = c
      BY <1>6 DEF StartRuns, TypeOK, Thread, InEngine
    <2>2. PICK w \in Workers :
            /\ ~Alive(w) /\ worker' = w
            /\ pc' = [pc EXCEPT ![w] = "loop", ![c] = "idle"]
      BY <1>6 DEF StartRuns
    <2>3. /\ pc[c] = "starting" /\ c # w /\ w # Nobody
          /\ late' = stopEvent
          /\ UNCHANGED <<joins, stopEvent, wanted>>
      BY <1>6 DEF StartRuns, Thread
    <2>4. /\ pc'[w] = "loop" /\ pc'[c] = "idle"
          /\ \A t \in Thread \ {w, c} : pc'[t] = pc[t]
      BY <2>2, <2>3 DEF TypeOK, Thread
    <2>5. OnlyThatOne'
      BY <2>2, <2>3, <2>4 DEF Thread
    <2>6. FreshStart'
      BY <2>1, <2>3, <2>4 DEF Thread
    <2>7. Awaited' /\ StartedRuns'
      BY <2>2, <2>3, <2>4 DEF Thread
    <2> QED
      BY <2>5, <2>6, <2>7
  <1>7. ASSUME NEW c \in Callers, StopLooks(c)
        PROVE  WorkerInv'
    <2>1. CASE worker # Nobody /\ worker \in Workers /\ Alive(worker)
      BY <1>7, <2>1 DEF StopLooks, Goto, TypeOK, Thread
    <2>2. CASE ~(worker # Nobody /\ Alive(worker))
      BY <1>7, <2>2 DEF StopLooks, Goto, TypeOK, Thread
    <2> QED
      BY <2>1, <2>2 DEF TypeOK
  <1>8. ASSUME NEW c \in Callers, StopJoined(c)
        PROVE  WorkerInv'
    BY <1>8 DEF StopJoined, Goto, TypeOK, Thread
  <1> QED
    BY <1>1, <1>2, <1>3, <1>4, <1>5, <1>6, <1>7, <1>8, QuietSteps DEF Marked

LEMMA WorkerInvHolds == Spec => []WorkerInv
  <1>1. Init => OnlyThatOne /\ FreshStart /\ Awaited /\ StartedRuns
    BY ThreadsAssumption
    DEF Init, OnlyThatOne, FreshStart, Awaited, StartedRuns, Alive, Thread
  <1>2. Init /\ TypeOK => WorkerInv
    BY <1>1 DEF WorkerInv
  <1>3. WorkerInv /\ TypeOK' /\ [Next]_vars => WorkerInv'
    BY WorkerInvStep
  <1> QED
    BY <1>2, <1>3, TypeCorrect, PTL DEF Spec

\* start never runs a second worker beside the first, for any number of calls
\* of start and stop that overlap and of joins that time out.
THEOREM OneWorkerAtMost == Spec => []AtMostOneWorker
  <1>1. WorkerInv => AtMostOneWorker
    BY DEF WorkerInv, OnlyThatOne, AtMostOneWorker
  <1> QED
    BY <1>1, WorkerInvHolds, PTL

\* After a start with no stop since, a worker runs that nothing told to end,
\* unless the start found one that a stop had given up waiting for.
THEOREM AfterStartAWorkerRuns == Spec => []StartedRuns
  <1>1. WorkerInv => StartedRuns
    BY DEF WorkerInv
  <1> QED
    BY <1>1, WorkerInvHolds, PTL

-----------------------------------------------------------------------------
(* The announcements.                                                      *)

\* Inside the lock of the manager the link found is told before the lock is
\* given back.
Announcing ==
    \A t \in Thread :
        /\ pc[t] = "announcing" => lastActive = found[t]
        /\ pc[t] = "probing" => lastActive \in {NoLink, announced}

AnnounceInv == TypeOK /\ Announcing /\ AnnouncedIsActive

\* The steps outside the lock of the manager leave the announcements alone.
LEMMA OutsideManager ==
    ASSUME TypeOK, [Next]_vars,
           \A t \in Thread : ~Probes(t)
    PROVE  /\ UNCHANGED <<lastActive, announced>>
           /\ managerLock' # managerLock => managerLock = Nobody
           /\ \A t \in Thread : pc'[t] = "announcing" =>
                 pc[t] = "announcing" /\ found'[t] = found[t]
           /\ \A t \in Thread : pc'[t] = "probing" =>
                 pc[t] = "probing" \/ managerLock = Nobody
  <1> USE ThreadsAssumption DEF TypeOK, Thread, Goto, CallProbe, links
  <1>1. ASSUME NEW c \in Callers, Call(c)
        PROVE  /\ UNCHANGED <<lastActive, announced, managerLock, found>>
               /\ \A t \in Thread : pc'[t] \in {"announcing", "probing"} =>
                     pc'[t] = pc[t]
    BY <1>1 DEF Call, CallWrite, CallStatus, CallSync, CallStart, CallStop
  <1>2. ASSUME NEW t \in Thread, Locks(t), ~TakeManager(t)
        PROVE  /\ UNCHANGED <<lastActive, announced, managerLock, found>>
               /\ \A u \in Thread : pc'[u] \in {"announcing", "probing"} =>
                     pc'[u] = pc[u]
    BY <1>2 DEF Locks, BeginStatus, BeginWrite, StartReturns, StartClears,
                StopCloses
  <1>3. ASSUME NEW t \in Thread, TakeManager(t)
        PROVE  /\ UNCHANGED <<lastActive, announced>> /\ managerLock = Nobody
               /\ \A u \in Thread : pc'[u] = "announcing" =>
                     pc[u] = "announcing" /\ found'[u] = found[u]
    BY <1>3 DEF TakeManager
  <1>4. ASSUME NEW t \in Thread, Runs(t)
        PROVE  /\ UNCHANGED <<lastActive, announced, managerLock, found>>
               /\ \A u \in Thread : pc'[u] \in {"announcing", "probing"} =>
                     pc'[u] = pc[u]
    <2>1. CASE Exchanged(t)
      BY <2>1 DEF Exchanged, Done
    <2>2. CASE t \in Callers /\ (EndWrite(t) \/ StopLooks(t) \/ StopJoined(t))
      BY <2>2 DEF EndWrite, StopLooks, StopJoined
    <2>3. CASE t \in Callers /\ StartRuns(t)
      BY <2>3 DEF StartRuns
    <2>4. CASE t \in Workers /\ (Loop(t) \/ Wake(t))
      BY <2>4 DEF Loop, Wake
    <2> QED
      BY <1>4, <2>1, <2>2, <2>3, <2>4 DEF Runs, Probes
  <1>5. CASE UNCHANGED vars
    BY <1>5 DEF vars
  <1> QED
    BY <1>1, <1>2, <1>3, <1>4, <1>5 DEF Next

\* AnnounceInv is inductive.
LEMMA AnnounceInvStep ==
    ASSUME AnnounceInv, TypeOK', [Next]_vars
    PROVE  AnnounceInv'
  <1> USE ThreadsAssumption DEF AnnounceInv, Announcing, AnnouncedIsActive
  <1>1. CASE \A t \in Thread : ~Probes(t)
    BY <1>1, OutsideManager DEF TypeOK, InManager
  <1>2. ASSUME NEW t \in Thread, Probes(t)
        PROVE  AnnounceInv'
    \* nobody else is inside the lock
    <2>1. InManager(t) /\ \A u \in Thread : InManager(u) => u = t
      BY <1>2 DEF Probes, ProbeNone, ProbeFinds, Announce, InManager, TypeOK
    <2>2. ASSUME NEW up \in BOOLEAN, Return(t, up),
                 lastActive' \in {NoLink, announced'}
          PROVE  AnnounceInv'
      <3>1. \A u \in Thread : ~InManager(u)'
        BY <2>1, <2>2, ReturnSteps DEF TypeOK
      <3> QED
        BY <2>2, <3>1 DEF InManager
    <2>3. CASE ProbeNone(t)
      BY <2>1, <2>2, <2>3 DEF ProbeNone
    <2>4. ASSUME NEW link \in Link, ProbeFinds(t, link)
          PROVE  AnnounceInv'
      <3>1. lastActive' = link /\ announced' = announced
        BY <2>4 DEF ProbeFinds
      <3>2. CASE lastActive = link
        <4>1. Return(t, TRUE) /\ lastActive \in {NoLink, announced}
          BY <2>4, <3>2 DEF ProbeFinds
        <4>2. link # NoLink
          OBVIOUS
        <4> QED
          BY <2>2, <3>1, <3>2, <4>1, <4>2
      <3>3. CASE lastActive # link
        <4>1. /\ pc' = [pc EXCEPT ![t] = "announcing"]
              /\ found' = [found EXCEPT ![t] = link]
              /\ managerLock' = managerLock
          BY <2>4, <3>3 DEF ProbeFinds, Goto
        <4>2. managerLock # Nobody
          BY <2>1 DEF InManager, TypeOK
        <4>3. \A u \in Thread : u # t => pc'[u] \notin {"probing", "announcing"}
          BY <2>1, <4>1 DEF InManager, TypeOK
        <4>4. pc'[t] = "announcing" /\ found'[t] = link
          BY <4>1 DEF TypeOK
        <4> QED
          BY <3>1, <4>1, <4>2, <4>3, <4>4
      <3> QED
        BY <3>2, <3>3
    <2>5. CASE Announce(t)
      BY <2>1, <2>2, <2>5 DEF Announce
    <2> QED
      BY <1>2, <2>3, <2>4, <2>5 DEF Probes
  <1> QED
    BY <1>1, <1>2

\* While nobody probes, the link in use is the one the listeners were told
\* last, for any number of threads that probe, and of links.
THEOREM AnnouncementsAreNotSwapped == Spec => []AnnouncedIsActive
  <1>1. Init => Announcing /\ AnnouncedIsActive
    BY ThreadsAssumption DEF Init, Announcing, AnnouncedIsActive, Thread
  <1>2. Init /\ TypeOK => AnnounceInv
    BY <1>1 DEF AnnounceInv
  <1>3. AnnounceInv /\ TypeOK' /\ [Next]_vars => AnnounceInv'
    BY AnnounceInvStep
  <1>4. AnnounceInv => AnnouncedIsActive
    BY DEF AnnounceInv
  <1> QED
    BY <1>2, <1>3, <1>4, TypeCorrect, PTL DEF Spec

=============================================================================
