---------------------------- MODULE EngineThreads ----------------------------
(***************************************************************************)
(* The threads of one engine and its two locks: the lock of the engine     *)
(* (src/engine.py) and the lock of its transport manager                   *)
(* (src/transport.py).  get_status takes the second inside the first; a    *)
(* probe of the links runs, and tells the listeners, under the second.     *)
(* Application threads write, synchronise, ask for the status, start and   *)
(* stop the background worker in any order; what they write and send is    *)
(* the business of the other modules.                                      *)
(***************************************************************************)

CONSTANTS
    Callers,        \* threads of the application
    Workers,        \* the thread objects start may create, used again once dead
    Nobody,         \* the owner of a free lock
    Calls,          \* what each of the callers calls
    Link,           \* the names of the links
    OneShot,        \* the links that a close ends for good (httpx.Client)
    NoLink          \* no active link

Thread == Callers \cup Workers

ASSUME ThreadsAssumption ==
    /\ Callers \cap Workers = {} /\ Nobody \notin Thread
    /\ Calls \in [Callers -> SUBSET {"write", "status", "sync", "start", "stop"}]
    /\ NoLink \notin Link /\ OneShot \subseteq Link

VARIABLES
    engineLock,     \* owner of _lock of the engine
    managerLock,    \* owner of _lock of the transport manager
    pc,             \* where each thread is
    task,           \* why it probes the links
    found,          \* the link its probe found, until it has been announced
    worker,         \* _worker_thread
    joins,          \* the worker each thread in stop waits for
    stopEvent,      \* _stop_event
    lastActive,     \* _last_active_name
    announced,      \* the link the listeners of the manager were told last
    closed,         \* the links that were closed for good
    wanted,         \* the last of the finished starts and the stops was a start
    late            \* the worker was told to end by a stop that does not wait for it

lifecycle == <<worker, joins, stopEvent, wanted, late>>
links == <<lastActive, announced, closed>>
vars == <<engineLock, managerLock, pc, task, found, lifecycle, links>>

ProbePlace == {"probe", "probing", "announcing"}
Task == {"watch", "sync", "exchange", "status", "notify"}
Place == ProbePlace \cup
         {"idle", "write", "writing", "status", "start", "starting",
          "stopping", "joining", "closing", "exchanging", "notify",
          "dead", "loop", "resting"}

\* Where the code is inside a with block of one of the locks.
InEngine(t) == \/ pc[t] \in {"writing", "starting"}
               \/ pc[t] \in ProbePlace /\ task[t] \in {"status", "notify"}
InManager(t) == pc[t] \in {"probing", "announcing"}

Alive(w) == pc[w] # "dead"

TypeOK ==
    /\ engineLock \in Thread \cup {Nobody}
    /\ managerLock \in Thread \cup {Nobody}
    /\ pc \in [Thread -> Place]
    /\ task \in [Thread -> Task]
    /\ found \in [Thread -> Link \cup {NoLink}]
    /\ worker \in Workers \cup {Nobody}
    /\ joins \in [Callers -> Workers \cup {Nobody}]
    /\ stopEvent \in BOOLEAN /\ wanted \in BOOLEAN /\ late \in BOOLEAN
    /\ lastActive \in Link \cup {NoLink} /\ announced \in Link \cup {NoLink}
    /\ closed \subseteq OneShot
    \* the locks are held in the with blocks and nowhere else
    /\ \A t \in Thread : engineLock = t <=> InEngine(t)
    /\ \A t \in Thread : managerLock = t <=> InManager(t)

Init ==
    /\ engineLock = Nobody /\ managerLock = Nobody
    /\ pc = [t \in Thread |-> IF t \in Callers THEN "idle" ELSE "dead"]
    /\ task = [t \in Thread |-> "watch"]
    /\ found = [t \in Thread |-> NoLink]
    /\ worker = Nobody
    /\ joins = [c \in Callers |-> Nobody]
    /\ stopEvent = FALSE /\ wanted = FALSE /\ late = FALSE
    /\ lastActive = NoLink /\ announced = NoLink
    /\ closed = {}

Goto(t, place) == pc' = [pc EXCEPT ![t] = place]

\* A caller returns, the worker waits for the next round.
Done(t) == Goto(t, IF t \in Workers THEN "resting" ELSE "idle")

-----------------------------------------------------------------------------
(* get_active_transport, called for one of the tasks.                      *)

CallProbe(t, why) ==
    /\ task' = [task EXCEPT ![t] = why]
    /\ Goto(t, "probe")

\* Mutant: the lock of the manager is not waited for.
TakeManager_Unlocked(t) ==
    /\ pc[t] = "probe"
    /\ managerLock' = t
    /\ Goto(t, "probing")
    /\ UNCHANGED <<engineLock, task, found, lifecycle, links>>

TakeManager(t) ==
    /\ pc[t] = "probe"
    /\ managerLock = Nobody
    /\ managerLock' = t
    /\ Goto(t, "probing")
    /\ UNCHANGED <<engineLock, task, found, lifecycle, links>>

Forget(t) == task' = [task EXCEPT ![t] = "watch"]

\* Mutant: get_status returns without giving the lock back.
Return_KeepsLock(t, up) ==
    /\ managerLock' = Nobody
    /\ found' = [found EXCEPT ![t] = NoLink]
    /\ CASE task[t] = "sync" /\ up -> CallProbe(t, "exchange")
         [] task[t] = "exchange" /\ up -> Goto(t, "exchanging") /\ Forget(t)
         [] OTHER -> Done(t) /\ Forget(t)
    /\ UNCHANGED engineLock

\* The probe returns to its caller with a link or without one.
Return(t, up) ==
    /\ managerLock' = Nobody
    /\ found' = [found EXCEPT ![t] = NoLink]
    /\ CASE task[t] = "watch" ->
              \* the worker synchronises when operations are pending
              /\ \/ Done(t) /\ UNCHANGED task
                 \/ up /\ CallProbe(t, "sync")
              /\ UNCHANGED engineLock
         [] task[t] = "sync" ->
              /\ IF up THEN CallProbe(t, "exchange") ELSE Done(t) /\ Forget(t)
              /\ UNCHANGED engineLock
         [] task[t] = "exchange" ->
              /\ IF up THEN Goto(t, "exchanging") ELSE Done(t)
              /\ Forget(t)
              /\ UNCHANGED engineLock
         [] OTHER ->
              \* the end of the with block of get_status
              /\ engineLock' = Nobody
              /\ Done(t) /\ Forget(t)

\* The loop over preference_order: no link answers, or one is the first to.
ProbeNone(t) ==
    /\ pc[t] = "probing"
    /\ lastActive' = NoLink
    /\ Return(t, FALSE)
    /\ UNCHANGED <<lifecycle, announced, closed>>

ProbeFinds(t, link) ==
    /\ pc[t] = "probing"
    /\ link \notin closed
    /\ lastActive' = link
    /\ IF lastActive # link
       THEN /\ found' = [found EXCEPT ![t] = link]
            /\ Goto(t, "announcing")
            /\ UNCHANGED <<engineLock, managerLock, task>>
       ELSE Return(t, TRUE)
    /\ UNCHANGED <<lifecycle, announced, closed>>

\* Mutant: a listener of the manager asks the engine for its status.
Announce_AsksEngine(t) ==
    /\ pc[t] = "announcing"
    /\ engineLock \in {Nobody, t}
    /\ announced' = found[t]
    /\ Return(t, TRUE)
    /\ UNCHANGED <<lifecycle, lastActive, closed>>

\* _notify_status: the listeners run inside the lock of the manager.
Announce(t) ==
    /\ pc[t] = "announcing"
    /\ announced' = found[t]
    /\ Return(t, TRUE)
    /\ UNCHANGED <<lifecycle, lastActive, closed>>

-----------------------------------------------------------------------------
(* Writes, get_status and sync_now.                                        *)

\* create, update, merge and delete wait for the lock of the engine.
CallWrite(c) ==
    /\ pc[c] = "idle"
    /\ Goto(c, "write")
    /\ UNCHANGED <<engineLock, managerLock, task, found, lifecycle, links>>

BeginWrite(c) ==
    /\ pc[c] = "write"
    /\ engineLock = Nobody
    /\ engineLock' = c
    /\ Goto(c, "writing")
    /\ UNCHANGED <<managerLock, task, found, lifecycle, links>>

EndWrite(c) ==
    /\ pc[c] = "writing"
    /\ engineLock' = Nobody
    /\ Goto(c, "idle")
    /\ UNCHANGED <<managerLock, task, found, lifecycle, links>>

CallStatus(c) ==
    /\ pc[c] = "idle"
    /\ Goto(c, "status")
    /\ UNCHANGED <<engineLock, managerLock, task, found, lifecycle, links>>

\* get_status, of an application thread or at the end of a session.
BeginStatus(t) ==
    /\ pc[t] \in {"status", "notify"}
    /\ engineLock = Nobody
    /\ engineLock' = t
    /\ CallProbe(t, pc[t])
    /\ UNCHANGED <<managerLock, found, lifecycle, links>>

CallSync(c) ==
    /\ pc[c] = "idle"
    /\ CallProbe(c, "sync")
    /\ UNCHANGED <<engineLock, managerLock, found, lifecycle, links>>

\* The exchange ends: the session fails, or completes and notifies.
Exchanged(t) ==
    /\ pc[t] = "exchanging"
    /\ Done(t) \/ Goto(t, "notify")
    /\ UNCHANGED <<engineLock, managerLock, task, found, lifecycle, links>>

-----------------------------------------------------------------------------
(* start, stop and the background worker.                                  *)

CallStart(c) ==
    /\ pc[c] = "idle"
    /\ Goto(c, "start")
    /\ UNCHANGED <<engineLock, managerLock, task, found, lifecycle, links>>

Stopping == \E c \in Callers : pc[c] \in {"stopping", "joining", "closing"}

\* The worker is alive: nothing to do.
StartReturns(c) ==
    /\ pc[c] = "start"
    /\ engineLock = Nobody
    /\ worker # Nobody /\ Alive(worker)
    /\ wanted' = (wanted \/ ~Stopping)
    /\ Goto(c, "idle")
    /\ UNCHANGED <<engineLock, managerLock, task, found, worker, joins, stopEvent,
                   late, links>>

\* Mutant: the lock of the engine is not waited for.
StartClears_Unlocked(c) ==
    /\ pc[c] = "start"
    /\ ~(worker # Nobody /\ Alive(worker))
    /\ engineLock' = c
    /\ stopEvent' = FALSE
    /\ wanted' = TRUE
    /\ Goto(c, "starting")
    /\ UNCHANGED <<managerLock, task, found, worker, joins, late, links>>

\* Mutant: the event of the last stop is not cleared.
StartClears_KeepsEvent(c) ==
    /\ pc[c] = "start"
    /\ engineLock = Nobody
    /\ ~(worker # Nobody /\ Alive(worker))
    /\ engineLock' = c
    /\ wanted' = TRUE
    /\ Goto(c, "starting")
    /\ UNCHANGED <<managerLock, task, found, worker, joins, stopEvent, late, links>>

StartClears(c) ==
    /\ pc[c] = "start"
    /\ engineLock = Nobody
    /\ ~(worker # Nobody /\ Alive(worker))
    /\ engineLock' = c
    /\ stopEvent' = FALSE
    /\ wanted' = TRUE
    /\ Goto(c, "starting")
    /\ UNCHANGED <<managerLock, task, found, worker, joins, late, links>>

\* A new thread; the name of a dead one a stop still waits for is not reused.
StartRuns(c) ==
    /\ pc[c] = "starting"
    /\ \E w \in Workers :
          /\ ~Alive(w) /\ \A d \in Callers : joins[d] # w
          /\ worker' = w
          /\ pc' = [pc EXCEPT ![w] = "loop", ![c] = "idle"]
    /\ engineLock' = Nobody
    /\ late' = stopEvent
    /\ UNCHANGED <<managerLock, task, found, joins, stopEvent, wanted, links>>

\* stop sets the event without the lock.
CallStop(c) ==
    /\ pc[c] = "idle"
    /\ stopEvent' = TRUE
    /\ wanted' = FALSE
    /\ Goto(c, "stopping")
    /\ UNCHANGED <<engineLock, managerLock, task, found, worker, joins, late, links>>

StopLooks(c) ==
    /\ pc[c] = "stopping"
    /\ IF worker # Nobody /\ Alive(worker)
       THEN joins' = [joins EXCEPT ![c] = worker] /\ Goto(c, "joining")
       ELSE Goto(c, "closing") /\ UNCHANGED joins
    /\ UNCHANGED <<engineLock, managerLock, task, found, worker, stopEvent, wanted,
                   late, links>>

\* join returns: the worker is dead, or three seconds are over.
StopJoined(c) ==
    /\ pc[c] = "joining"
    /\ late' = (late \/ Alive(joins[c]))
    /\ joins' = [joins EXCEPT ![c] = Nobody]
    /\ Goto(c, "closing")
    /\ UNCHANGED <<engineLock, managerLock, task, found, worker, stopEvent, wanted,
                   links>>

\* close_all: a closed HTTP client never answers a probe again, the other
\* transports open anew.
StopCloses(c) ==
    /\ pc[c] = "closing"
    /\ managerLock = Nobody
    /\ closed' = OneShot
    /\ Goto(c, "idle")
    /\ UNCHANGED <<engineLock, managerLock, task, found, lifecycle, lastActive,
                   announced>>

\* Mutant: the event is read before the loop only.
Loop_NeverLooks(w) ==
    /\ pc[w] = "loop"
    /\ CallProbe(w, "watch")
    /\ UNCHANGED <<engineLock, managerLock, found, lifecycle, links>>

\* while not _stop_event.is_set()
Loop(w) ==
    /\ pc[w] = "loop"
    /\ IF stopEvent THEN Goto(w, "dead") /\ UNCHANGED task
                    ELSE CallProbe(w, "watch")
    /\ UNCHANGED <<engineLock, managerLock, found, lifecycle, links>>

\* _stop_event.wait: the interval is over or the event set.
Wake(w) ==
    /\ pc[w] = "resting"
    /\ Goto(w, "loop")
    /\ UNCHANGED <<engineLock, managerLock, task, found, lifecycle, links>>

-----------------------------------------------------------------------------

Call(c) ==
    \/ "write" \in Calls[c] /\ CallWrite(c)
    \/ "status" \in Calls[c] /\ CallStatus(c)
    \/ "sync" \in Calls[c] /\ CallSync(c)
    \/ "start" \in Calls[c] /\ CallStart(c)
    \/ "stop" \in Calls[c] /\ CallStop(c)

\* The steps that wait for one of the locks, and those that do not.
Locks(t) ==
    \/ TakeManager(t) \/ BeginStatus(t)
    \/ t \in Callers /\ (BeginWrite(t) \/ StartReturns(t) \/ StartClears(t)
                           \/ StopCloses(t))
Runs(t) ==
    \/ ProbeNone(t) \/ (\E link \in Link : ProbeFinds(t, link))
    \/ Announce(t) \/ Exchanged(t)
    \/ t \in Callers /\ (EndWrite(t) \/ StartRuns(t) \/ StopLooks(t)
                           \/ StopJoined(t))
    \/ t \in Workers /\ (Loop(t) \/ Wake(t))

Next ==
    \/ \E c \in Callers : Call(c)
    \/ \E t \in Thread : Locks(t) \/ Runs(t)

Spec == Init /\ [][Next]_vars

\* Every thread goes on, every wait inside a lock ends (probes, joins and
\* exchanges have timeouts), and who waits for a lock that is free again and
\* again gets it.  Nobody has to call anything.
Fairness == \A t \in Thread : WF_vars(Runs(t)) /\ SF_vars(Locks(t))

FairSpec == Spec /\ Fairness

-----------------------------------------------------------------------------
(* Properties.                                                             *)

\* start never runs a second worker beside the first, whatever calls overlap
\* and whatever join gave up on: two workers would send the outbox twice.
AtMostOneWorker == \A v, w \in Workers : Alive(v) /\ Alive(w) => v = w

\* After a start, with no stop since, a worker runs that nothing told to end.
\* The exception is a start that follows a stop which gave up waiting, or which
\* came before the start it stopped had made its thread: it finds that worker
\* alive and returns, and the worker still ends (engine.py:592, :605).
StartedRuns ==
    wanted /\ ~late =>
        /\ ~stopEvent
        /\ \/ worker # Nobody /\ Alive(worker)
           \/ \E c \in Callers : pc[c] = "starting"

\* While no probe is on its way, the link in use is the one the listeners of
\* the manager were told last: announcements are not swapped.
AnnouncedIsActive ==
    managerLock = Nobody => lastActive \in {NoLink, announced}

\* Every call returns, whatever the links do: no two threads wait for each
\* other's lock, and no thread starves behind the probes of another.
CallsReturn == \A c \in Callers : pc[c] # "idle" ~> pc[c] = "idle"

\* A worker that was told to stop ends, unless it is started again.
StopEndsWorker ==
    stopEvent ~> (\A w \in Workers : ~Alive(w)) \/ ~stopEvent

=============================================================================
