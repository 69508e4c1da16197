# dhava in TLA+

dhava is a synchronisation engine for sites that are offline most of the time.
An *edge* stores records in a local SQLite database, queues every change in an
outbox and pushes the outbox to a central *HQ* when a link is up; the HQ
integrates the changes into its own records and answers with the records the
edge does not have. This directory holds a specification of that logic in TLA+,
the TLC runs that check it on small instances, and TLAPS proofs of the theorems
that hold for every size.

Paths below are relative to `src/`.

## 1. The system

| Part | State | Operations | Talks to |
|---|---|---|---|
| vector clocks (`vector_clock.py`) | immutable dictionaries node -> counter | `increment`, `merge`, `compare` | used by all below |
| record store (`store.py`) | table `records`: data, clock, time and node of the last change, tombstone flag | `get`, `apply_operation`, `get_vector_clock`, `get_all_collections`, `query` | engine, server |
| resolver (`conflict.py`) | none | `resolve(local record, remote operation)` | engine, server |
| outbox (`outbox.py`) | table `outbox`: operation, priority, time, `pending` / `synced` / `failed`; a lock flag in memory | `enqueue`, `get_pending`, `mark_synced`, `mark_failed`, `reset_in_flight`, `purge_synced`, `lock`, `unlock` | engine |
| engine (`engine.py`) | reported state, Lamport counter, global clock (all in memory) | `create`, `update`, `merge`, `delete`, `sync_now`, background loop, `start`, `stop`, `get_status` | store, resolver, outbox, transports, audit |
| server (`server.py`) | its record store, table of nodes | `handle_sync_request`, `register_node` | store, resolver, audit |
| messages (`protocol.py`) | a push request, a pull response | encode, decode | engine, server |
| transport manager (`transport.py`) | the links in order of preference, the one last found up, a lock, listeners | `get_active_transport`, `exchange`, `close_all` | engine, transports |
| transports (`transports/`) | a connection or a directory of bundles, last measured bandwidth | `is_available`, `send_receive`, `close` | network, medium |
| cryptography, framing, audit, console | keys; bytes; an append-only log; none | | all |

An application thread writes: under the engine's lock the clock of the record is
read, the global clock merged, the record changed in one transaction and the
operation queued in another. The background worker, or any
application thread, runs `sync_now`, which takes no engine lock: it probes for a
transport, reads a batch of pending operations limited by bandwidth, sends it with
the global clock, waits, marks the acknowledged operations, and integrates what
came back, record by record. The HQ handles one request at a time under its lock,
integrates operation by operation, each in a transaction of its own, and
acknowledges them all or answers with an error.

What is hard here:

* **Concurrency.** Nothing keeps two threads out of `sync_now`; the outbox lock
  can be refused and the answer is ignored. All threads share the reported state,
  the Lamport counter and the global clock. Writes take the engine lock, the pull
  of a session does not. Probes of the links, and the listeners they call, run
  under the manager's lock, in `get_status` inside the engine's lock as well;
  `stop` takes neither and gives up waiting after three seconds.
* **Delivery.** A transport may lose the request or the answer, repeat a request
  after a timeout, or hand over the answer to another request; neither side
  matches answers to requests. Bundle files are carried by hand: late, twice, in
  part, to the wrong site.
* **Partial work.** The HQ may fail in the middle of a push, the edge in the
  middle of a pull; both may die at any time and lose what they hold in memory.
* **Order.** Priorities reorder the operations of one record; concurrent writes
  meet in any order; per-record clocks are compared with the clock of a whole site.

What makes the parts correct:

* clocks: `compare` answers exactly the relation of the two histories;
* resolver and store: a live record never goes back; concurrent writes end in
  the same winner everywhere, whatever order they come in;
* outbox and sessions: an operation is given up only when the HQ has it, an
  acknowledgement is final, and urgent operations get through;
* writes: no two operations of an edge carry the same clock, what is queued is
  stored, and a pull that overlaps with a write does not take the record back;
* engine state and locks: the state says what runs, locks are always given back,
  there is one worker, it runs after `start` and ends after `stop`;
* registry: only registered nodes are applied, counts cover what nodes consider
  synced, a sync does not take a key;
* framing: a frame gives back its payload or is refused;
* edge and HQ together: an acknowledged write is not lost, and an edge that has
  nothing to send and pulls agrees with the HQ.

The hazards of each part, at their lines, are listed in `PROJECT.json`.

## 2. The modules

| Module | Models | EXTENDS |
|---|---|---|
| `VectorClock` | `vector_clock.py` | |
| `LocalStore` | a row of `records`, `apply_operation`, the operation a local write builds | `VectorClock` |
| `ConflictResolver` | `resolve`, and the get / resolve / apply sequence of both callers | `LocalStore` |
| `ArrivalOrder` | edges that write one record while offline, pushes that reach the HQ in any order and number | `ConflictResolver` |
| `OutboxQueue` | the table `outbox` and the lock flag | |
| `SyncSessions` | `sync_now` and the background loop in several threads, network, acknowledgements of the HQ, restarts, a second engine on the same database | `OutboxQueue` |
| `ReliableDelivery` | what an outbox promises (abstract) | |
| `HubSync` | records of all sites, outboxes, global clocks, push, integration at the HQ, delta, pull | `ConflictResolver` |
| `EngineStore` | one record of one edge: writes as separate steps under the engine lock, the pull without it, errors and crashes between the transactions | `ConflictResolver` |
| `EngineThreads` | the two locks, the probes of the links, `start`, `stop`, the worker, `get_status` | |
| `FileExchange` | sessions over bundle files, the HQ process that reads them, the registry of nodes | (instantiates `ReliableDelivery`) |
| `Framing` | the envelope of messages and the readers of TCP and serial lines | |
| `MCArrivalOrder`, `MCSyncSessions`, `MCHubSync`, `MCEngineStore`, `MCEngineThreads`, `MCFileExchange` | values and symmetry for TLC | their module |
| `ConflictResolverProofs` (with the facts about clocks), `ArrivalOrderProofs`, `SyncSessionsProofs`, `HubSyncProofs`, `EngineStoreProofs`, `EngineThreadsProofs`, `FileExchangeProofs`, `FramingProofs` | theorems | their module, the lemmas below it, `TLAPS` |

Views of one system: `SyncSessions` has the sessions, the outbox lock and the
reported state and treats an operation as a token; `HubSync` has the records and
clocks and runs one session at a time per edge, with writes and pulled records in
one step each; `EngineStore` cuts those steps for one record of one edge, and has
of the other edge only what it writes, pushes and pulls; `EngineThreads` forgets what is written and sent and
keeps who waits for which lock; `FileExchange` is the outbox over a medium
somebody carries. `ArrivalOrder` is the smallest setting in
which the rule of last write wins can be judged.

The names of operators, states and actions are those of the code where TLA+
allows. `PROJECT.json` ("map") gives the lines each definition stands for.

### How state and actions correspond to the code

* **Clocks** are total functions `[Node -> Nat]`; the dictionary drops zero
  entries, so a missing node is a zero. Node ids are naturals because the
  tie-break of `resolve` compares them as strings with `>`.
* **A record** has data (a partial function from fields to values), clock, time,
  node and tombstone flag. The version counter is left out: no decision reads it.
  `ApplyOperation` overwrites the clock with the clock of the operation, as the
  upserts do; a delete keeps the data; a merge overlays it.
* **`Accepts`** has one disjunct per way `resolve` accepts: absent or deleted
  (anything but a delete), causally before, concurrent and `RemoteWins`.
* **The outbox** methods each run under the lock of the queue and in one
  transaction, so each is one operator. `get_pending` returns the possible
  batches: in `OutboxQueue` ties of the order are broken either way, in
  `HubSync` by the order of insertion.
* **`sync_now`** is cut where another thread, the network or a crash can come in
  between: no transport (`SyncOffline`); state set (`Begin`); lock, batch and
  request (`Send`); failure (`ExchangeFails`), refusal (`RefusedByHQ`) or answer
  (`AcceptReply`); the pull (`FinishPull`); the `except` branch (`SyncRaises`, from
  every place inside the `try`); the `finally` branch (`Close`). In `HubSync` the
  pull is one step per record (`ApplyPulled`) that may raise (`PullRaises`).
* **A write** in `EngineStore` is `BeginWrite` (lock, clock of the row, operation),
  `LoadClock` and `StoreClock` (the global clock), `ApplyLocal` and `Enqueue` (the
  two transactions); `WriteRaises` leaves the `with` block from either, `Restart`
  from anywhere. A session reads its batch (`ReadBatch`) and
  later the global clock (`SendPush`), with writes in between; `GetLocal` and
  `ApplyPulled` are the read and the transaction of a pull. The HQ integrates a push in
  one step (`AtHQ`), operation by operation in the order of the outbox. The other edge
  stores and queues (`PeerWrites`); each operation it queued comes to the HQ at any
  later time, in any order and repeatedly, until an answer reached that edge
  (`PeerPushes`). The wall clock of an edge does not step back (`Stamp`). The
  variables `torn`, `overtaken`, `counted` and `recounted` only record what happened,
  for the properties.
* **Threads** in `EngineThreads`: a call is a place (`write`, `status`, `start`,
  ...) where the thread waits for the engine lock; `TakeManager`, `ProbeNone`,
  `ProbeFinds`, `Announce` are `get_active_transport`, and `Return` is what its
  five callers do with the answer. A worker is a thread object: `StartRuns` takes
  a dead one. `wanted` and `late` record the last `start` and `stop`.
* **Bundles** are sequences in the order of their modification times; `Carry`
  copies one, whole or not, `FinishCopy` completes a copy. The HQ has no program
  in `src/` that reads bundles: that process is external, calls
  `handle_sync_request` and exports the answer. A message read as the other kind
  is modelled by what `from_dict` does: a push has no status and raises
  (`ReadsPush`), an answer has all fields of a push.
* **The HQ** takes a request, integrates one operation per step, and answers
  (`HQTakes`, `HQApplies`, `HQAnswers`), refuses or raises (`HQRefuses`), or dies
  (`HQCrashes`); what was applied before stays.
* **Delta**: the HQ compares the clock of the request with the clock of each
  record of a listed collection, and skips records the sender wrote last.
* **Network**: requests and answers are sets of messages that may be delivered,
  lost, or (requests) delivered again; in `SyncSessions` a message that is lost is
  one that is never taken out of its set. In `HubSync` the constant `Faults` says
  which faults happen: `restart` of edge or HQ, `redelivery` by a transport that
  retries, `stragglers` (an attempt that is overtaken by the next one and arrives
  after the session), `late` (answers to earlier requests, as on a file or serial
  link), `pull` (integration at the edge raises), `clock` (the wall clock of an
  edge is set back; otherwise its timestamps never decrease).

### Bounds

* `ArrivalOrder`: every writer writes once; timestamps 1..3, tolerance 1, so that
  all cases of the rule occur (earlier, equal, within, at and beyond the tolerance).
* `SyncSessions`: two operations, so that a batch and what is left of it can
  differ (batch size 1) or be one (size 2); one worker or, in
  `SyncSessions_two_sessions`, two threads (for any number of them the first
  theorems of section 5 hold); one operation is urgent, the other is urgent or not
  (`Priorities`); `MaxBoots` restarts or console starts. The wall
  clock takes at most one step per operation. Bandwidth is in kbit/s; the caps of
  50, 20 and 5 are constants and get small values.
* `HubSync`: two writes per edge (`MaxWrites`; in `HubSync_two_writers` two of one
  edge and one of the other), so that a later write can overtake or repeat an
  earlier one; one key (two in one run), one or two edges; timestamps 1 and 3 with
  tolerance 1 where two edges write, so that writes are within it and beyond it; the
  priorities each edge gives to its writes (`Tiers`) and the limits of batch and
  priority as constants. Each run has the faults its question needs: restarts and
  failing pulls with two writers, late answers, repeated requests, restarts and
  crashes with one writer and two priorities, stragglers in `HubSync_repeat`. The
  theorems of section 5 hold for all sizes and with all faults at once.
* `EngineStore`: three writes of two application threads, so that two overlap and
  one follows, one of the other edge, whose push may be late or repeated, one thread in `sync_now`, one crash; times 1
  and 3, tolerance 1. All its properties are proved for any number
  of writes, crashes and writing threads (section 5).
* `EngineThreads`: two application threads, one that asks, synchronises and starts
  and one that writes, starts and stops (`Calls`), two thread objects for the worker
  (a second worker beside the first can occur), two links of which the first is one
  that `close` ends; no bound on the number of calls.
* `FileExchange`: two edges, one with a single directory and not registered by the
  operator; one operation each; two sessions, two copies, one crash, so that a push
  and an answer can both be carried, or one of them twice or to the wrong site. The
  theorems hold for any number.
* Sets of messages do not count copies; repetition is a separate choice.

## 3. The runs

| Run | Checks | Shows |
|---|---|---|
| `ArrivalOrder_two_writers` | `TypeOK`, `UndominatedWriteStands`, `SameResultInEveryOrder` | with two edges and whole-record writes, every order of arrival and every repetition ends in the same, expected winner |
| `ArrivalOrder_three_writers` | violates `SameResultInEveryOrder` | with three edges the winner depends on the order (README.md:210 promises determinism) |
| `SyncSessions_worker` | `TypeOK`, `SyncedWasProcessed`, `NothingVanishes`, `SyncingMeansSession`, `BatchIsStable`, `SyncedIsFinal`, `DeliverySpec`, `LockReleased`, `UrgentLeaves` | with the worker alone the outbox implements `ReliableDelivery` through losses, repeats, mismatched answers, purge and restart; acknowledgements are final, the reported state is true, the lock is given back, a pending P0 operation is sent |
| `SyncSessions_two_sessions` | violates `SyncedIsFinal` | two sessions share a batch; the one that fails takes acknowledged rows back (README.md:114) |
| `SyncSessions_failed_retried` | violates `FailedIsRetried` | failed operations wait for the next start of the process (models.py:59) |
| `HubSync_two_writers` | `TypeOK`, `AckedIsReflected`, `SettledAgreement`, `LiveRecordsOnlyMoveForward` | concurrent writers with restarts and failing pulls: no record goes back, no acknowledged write is lost to an older one, and as long as one edge has written a settled edge that pulls agrees with the HQ |
| `HubSync_late` | `AckedIsReflected`, `LiveRecordsOnlyMoveForward` | one edge that updates and deletes with two priorities, restarts and crashes, and messages that outlive their session or come more than once |
| `HubSync_two_keys` | violates `SettledAgreement` | with two records the delta misses one for good: the merged clock of the edge covers the clock of a record it never had (server.py:168) |
| `HubSync_repeat` | violates `RepeatIsIdempotent` | a repeated push brings a deleted record back (tests/test_server.py:56, read for a repetition at any time; README.md:215 has a tombstone take any operation) |
| `EngineStore_threads` | `TypeOK`, `DistinctClocks`, `StoredBeforeQueued`, `SettledAgreement`, `RowNeverGoesBack` | writers do not share a clock, nothing is queued that is not stored, a pull between the steps of a write does not take the row back, and an edge that settles agrees with the HQ although updates of its clock were lost and the pushes of the other edge come late, in any order and repeatedly |
| `EngineThreads_two_callers` | `TypeOK`, `AtMostOneWorker`, `StartedRuns`, `AnnouncedIsActive`, `CallsReturn`, `StopEndsWorker` | no second worker, no deadlock between the two locks, every call returns, announcements are in order, a stop ends the worker |
| `FileExchange_carried` | `TypeOK`, `CountsCoverSettled`, `OnlyAdmitted`, `DeliverySpec`, `RegistryKeeps`, `TornNeverBlocks` | sessions over files implement `ReliableDelivery` whatever is carried where; the registry admits, counts and keeps keys; an unreadable bundle does not block the next |

Each property of a passing run has a mutant: a variant of one definition, named
after the slip it makes (`AcceptReply_WholeBatch`, `Accepts_Stale`, ...), with
which TLC finds the property violated.

All models can always take a step (a poll, a lost session, an arrival), so
deadlock is checked in every run; in `EngineThreads` a deadlock of some threads
only is what `CallsReturn` excludes.

### Limits of what holds

`SettledAgreement` of `HubSync` speaks of states in which one edge has written, of
edges whose records show what their global clock claims, and is checked with one
record and without deletes. Each of these restrictions is needed; TLC finds
counterexamples without it, all of them in the code:

* two records: `HubSync_two_keys`;
* two writers: a winning write replaces the clock of the row (store.py:170), so
  that a later write can carry a clock another edge formed by merging;
* deletes: a collection without a live record is not listed (store.py:80) and its
  tombstones never travel;
* a clock that claims more than the records show: the global clock is merged
  before the record is stored (engine.py:493), and a pull that raises in between
  is not repeated: with `pull` among the `Faults` and without this restriction TLC
  finds `SettledAgreement` violated in 11 states (one writer, one reader);
* merges with different priorities: an urgent merge overtakes the create of its
  record, which the HQ then discards as stale (outbox.py:123, conflict.py:94).

For one record and creates and updates only the property is a theorem
(`ReadersAgree` in section 5).

`AckedIsReflected` speaks of records nobody deleted, since a tombstone accepts any
arrival, and of at most two authors of a record. With three it is false, in a
behaviour of 39 steps that uses the cycle `ArrivalOrder_three_writers` shows: edge 2
writes a version whose answer is lost; edge 1 pulls it and writes the next one,
which is acknowledged and loses to a concurrent write of edge 3; edge 1 pulls that
one, writes again on it and is integrated; edge 2 restarts and pushes its version
once more, which is concurrent with the row and wins by its node id although the
acknowledged operation was made on it. With two authors it holds as long as the wall clock of an edge does not step back: with
`clock` among the `Faults` (two writers, `Times` 1 and 3) TLC finds it violated in 14
states: the batch sends the later of two writes first, a concurrent version rejects it,
and the earlier one then wins by its timestamp (outbox.py:132, conflict.py:124).

`SyncingMeansSession`, `BatchIsStable` and `SyncedIsFinal` hold for one thread in
`sync_now`. `SyncSessions_two_sessions` shows the last of them violated with two, and
so is the first, in three states, with the constants of that run: a thread that finds
no transport sets DISCONNECTED, or one whose session ends CONNECTED, while the other
thread's session runs (engine.py:402, engine.py:452). `UrgentLeaves` is checked at the bandwidth where the
two thresholds of engine.py:575 meet, and counts an operation that failed as sent.

The properties of `EngineStore` have their conditions for like reasons, all of them
reachable:

* `overtaken`: a pull applies to the row that is there now what it resolved
  against the row it read (engine.py:497); the pulled version stays although it was
  never compared with the write it replaced, and two pulls and four writes later two
  writes carry one clock: TLC finds `EqualIsDuplicate` violated with two
  versions of the other edge, whose ties this one wins. The HQ then takes the second
  write for the "duplicate transaction" of README.md:220 (conflict.py:113), discards
  and acknowledges it. `DistinctClocks` excludes this;
* `recounted`: a winning concurrent version replaces the clock of the row, so the
  next local write may get a count of this edge that an earlier one had (store.py:170).
  Where both happened, a pull or a write that compares such clocks can take the row
  back; with at most one of the two `StoredBeforeQueued` and `RowNeverGoesBack` hold;
* `torn`: a write that died or raised between its two transactions is in the
  store and not in the outbox, and is not sent before the record is written again;
* a second thread in `sync_now` breaks `RowNeverGoesBack` itself: two pulls that
  resolve against the same row can be applied in the wrong order. The run has one.

`StartedRuns` excludes a `start` that comes after a `stop` whose join timed out
(`late`): it finds the old worker alive and returns, and that worker ends, so that
nobody polls (engine.py:590). What else the model shows, and no text of the
repository denies: `close_all` closes the HTTP client for good, so that link never
answers a probe after a restart of the engine (transports/http.py:118); writes
wait while `get_status` probes the links under the engine lock; the listeners of
the manager are never told that the last link went down. In `FileExchange` an edge
with one directory reads its own push and leaves its batch pending, an answer that
is carried late or to another session settles only operations it names, a push
that is carried twice is counted twice, and each sync wipes the metadata of a node
(server.py:248, not modelled).

`SameResultInEveryOrder` likewise needs whole-record writes: a tombstone accepts
any arrival without comparing clocks (conflict.py:53), and a losing merge leaves
its fields when it came first and not when it came last (store.py:193).

Other documented behaviour the code does not have, and which no run records: the
bandwidth table of README.md:187 against the cutoffs of engine.py:575, the
transitions out of ERROR and DISCONNECTED in README.md:246 against engine.py:407,
and the strict FIFO of outbox.py:17, which a failed batch loses.

## 4. Fairness

`FairSpec` of `SyncSessions`, used by `SyncSessions_worker` and
`SyncSessions_failed_retried`, says of the worker:

* it keeps taking the steps of its session and keeps polling (weak fairness): the
  loop of `_background_loop` has no exit but `stop`, and every blocking call of a
  session has a timeout;
* it finds the link up again and again, and can hand over a batch again and again
  (strong fairness of a poll that starts a session, `Begin` and `Send`): without
  a link nothing can be promised;
* a session that reached the network infinitely often ends, infinitely often,
  with a failure, a refusal or the answer to its own request: garbled answers and
  answers to other requests do not crowd these out forever.

The network is not assumed to be fair, and the HQ need not answer. `UrgentLeaves`
promises that the operation is transmitted and its outcome recorded, not that it
succeeds; that is what `FailedIsRetried` is about, and it fails.

`FairSpec` of `EngineThreads` says that a thread inside a call goes on (weak
fairness: probes, the join and exchanges have timeouts, and a `with` block ends)
and that a thread which finds its lock free again and again gets it at last
(strong fairness: Python's locks promise no order, but no thread is passed over
forever by the scheduler). Nobody has to call anything, and links may stay down.

`FairSpec` of `FileExchange` says only that the external process of the HQ keeps
working on the bundles it can read; nobody has to carry one.

## 5. The proofs

All theorems hold for every value of the constants that satisfies the named
assumptions of the modules.

* `ConflictResolverProofs`: `Leq` is a partial order, `Merge` is the least upper bound
  (`MergeIsLeastUpperBound`), `Compare` is exact (`CompareIsExact`), an increment
  is strictly after, increments of the same clock by two nodes are concurrent; `IntegrateMovesForward`:
  a live row is replaced only by one that is not causally before it.
* `ArrivalOrderProofs`: `TypeCorrect`; `ConcurrentWritesAreOrdered`: with
  whole-record writes and at most two writers, or any number without tolerance,
  the HQ ends with the undominated write. The invariant says that the row at the
  HQ is, at every moment, the write that beats all others *that have arrived*, or
  the base; it needs the clocks of writes on one base to be pairwise concurrent,
  and the totality and transitivity of `Beats`, which is where the assumption
  comes in. `ArrivalOrder_three_writers` shows that it is needed.
  `OrderDoesNotMatter` (finitely many writers) goes through the row after each
  element of an order: it is the write that beats all before it, so that every order
  ends in the one undominated write, which is the one the HQ holds.
* `SyncSessionsProofs`: `TypeCorrect`; `DeliveryInvariant`, the inductive
  strengthening behind `SyncedOnlyWhenProcessed` and `OutboxLosesNothing`: every
  acknowledgement under way names processed operations only, and every batch and
  request names operations the application created. These hold for any number of
  threads. With at most one thread (`AtMostOneThread`): `BatchStaysPending`,
  `AcknowledgementIsFinal`, `StateIsTrue` and `ImplementsReliableDelivery`.
* `HubSyncProofs`: `TypeCorrect`, and `NoLiveRecordGoesBack`: for any number of
  sites, records, writes and faults, no site replaces a live record by a version
  that causally precedes it. The invariant adds to `TypeOK` that a push, as long as
  it can reach the HQ, names rows of the outbox it was read from
  (`PushesNameRows`); the step is `LocalWriteMovesForward` and
  `IntegrateMovesForward` of `ConflictResolverProofs`, which rest on
  `CompareIsExact`.
  Its second half is about a record that one edge writes and nobody deletes, with any
  number of readers and of other records, and with every fault. `SoloInv` adds that
  answers acknowledge rows of the outbox, and for each such record `Chain`: its
  operations are in the order of their counts; every row of it at any site is the
  version some operation made; the HQ has reached every version another edge holds,
  every version in a delta under way, and every operation that is integrated,
  acknowledged or synced. The step that needs all of this is the integration at the
  HQ, where clocks with one entry make `resolve` keep the greater count
  (`IntegrateSolo`), so that what was reached stays reached. From it
  `AcknowledgedStays` (`AckedIsReflected` while no record has two authors) and
  `ReadersAgree` (`SettledAgreement` with one record, creates and updates, and
  finitely many edges: section 3 says why each of these is needed, but for the last,
  without which a number of authors means nothing).
* `EngineStoreProofs`: `TypeCorrect` and `WritesExclude` (the engine lock) for any
  number of threads; the rest with no deletes, for any number of writers, writes of
  either edge, errors and crashes, and for pushes of the other edge that come late, in
  any order and repeatedly.

  The inductive invariant `EraInv` divides the life of the record into eras. An era begins
  when a site takes over a version of the other; that version is its base, and from it each
  edge counts a run of its own versions (`Era`, `OnRun`, `InEra`). Counts do repeat: a row
  that loses falls back to the count the winner had seen. But every version that any
  site, message, thread or queue of the other edge still holds was seen by the base, or was
  written on an older base and has been beaten, so that no row of the era accepts it any
  more, or is one of the run (`Side`); which of the three is told by its two counts and its
  time, and the next write of a run has counts that none of them has (`StoreKeepsEras`). A
  base that is the winner of the last era beats the whole run it replaces because times do
  not decrease along a run (`SideLoses`, `SideWins`); this is where the clocks of the two
  edges must not step back. A pull that lands under a write in hand leaves the row ahead
  of its era (`Pulled`) until the write is stored over it or given up.

  `Eras(loose)` holds on either of two conditions. `Eras(FALSE)` holds while no pull
  replaced another row than it had read, with any number of threads in `sync_now`.
  `Eras(TRUE)` holds with one such thread while no count of this edge was given twice:
  a pull may then have taken over a version that does not beat the run of this edge
  (`Taken`), and the next write repeats a count, which the condition rules out before the
  era is lost; that the thread is alone says what its pull can meet (`Alone`, `InHand`).

  The eras also say where the HQ stands (`AtHub`). It holds the base, and no version of
  either run has come to it (`AtBase`); or it holds the last one that came of one run,
  which beats those of the other run that have come (`OnTop`). What has come is told by
  the operations acknowledged to this edge (`Synced`) and by the versions the HQ has or has
  handed out (`Reached`); a version that waits in the queue of the other edge is in `Theirs`
  only, and may come at any time.

  From `Eras(FALSE)` follows `ClocksAreDistinct` (`DistinctClocks`), and from either of the
  two, for one thread in `sync_now`,
  `RowIsStoredFirst` (`StoredBeforeQueued`) and `RowGoesForward`
  (`RowNeverGoesBack`). The hypotheses are needed: with deletes TLC finds
  `DistinctClocks`, `StoredBeforeQueued` and `RowNeverGoesBack` violated (a tombstone
  takes over whatever comes, conflict.py:53), and the last two with a second thread in
  `sync_now`.

  With operations that carry the whole record (`WholeRecords`: creates and
  updates), `WholeInv` adds that copies with the same clock have the same contents,
  wherever they are (`Single`), and that a row this edge wrote is in the outbox or about
  to be (`RowQueued`, but for a write a crash tore apart). Once all is acknowledged, the
  row and the HQ then have the same counts, hence the same contents, or the HQ is on a
  version that is in the delta and that the row accepts: `SettledAgrees`
  (`SettledAgreement`, for any number of threads in `sync_now`). Whole records are
  needed: TLC finds `SettledAgreement` violated with merges of two fields (the HQ adds
  the fields to the record it has of the other edge, the row of this edge has its own
  fields only, and both carry the same clock) and with deletes (the delta goes through
  the collections that still have a live record, store.py:80, so that the tombstone at
  the HQ does not reach the edge).

* `EngineThreadsProofs`, for any number of threads and links: `TypeCorrect`, whose
  inductive part is that each lock is held exactly by the thread inside its `with`
  block; from it `AnnouncementsAreNotSwapped` (only the holder of the manager's
  lock changes the link in use, and announces it before it lets go),
  `OneWorkerAtMost` (a worker that is alive is the one `_worker_thread` names, and
  only the holder of the engine's lock replaces a dead one) and
  `AfterStartAWorkerRuns` (a worker that was not told to end lives; a `stop` that
  is still waiting waits for the current worker or for a dead one).
* `FileExchangeProofs`, for any number of edges, operations, copies and crashes:
  `TypeCorrect`, `ImplementsReliableDelivery` (every answer on any medium names
  operations the HQ processed, every push names operations that were queued),
  `RegistryOnlyGrows`, `OnlyAdmittedApplied` and `CountsCover`. The last one needs
  more than the counts of settled operations: some set of operations contains all
  that are settled and all that any answer names, on whatever medium or in hand,
  and the count of each node covers its operations in that set (`CountInv`).
* `FramingProofs`, for every payload and whatever the digest: `RoundTrip`;
  `TornIsRefused` (no proper prefix of a frame unframes, which is what
  `FileExchange` takes for granted of an incomplete copy); `ChangedIsRefused`;
  `ReadersAgree` (the readers of TCP and serial lines trust the length first and
  still give out what `unframe_payload` would).

The library's induction theorems take an operator as a parameter, which the provers
cannot instantiate. What a push leaves at the HQ in one step (`AtHQ`) and the outcome
of an order (`Outcome`), both recursive functions, are reasoned about by the *set* of
the steps that have what is to be shown: a least element outside it would follow one
inside it (`CountUp`).

Model-checked only: the liveness properties (fairness and ENABLED are outside the
prover's reach) and, beyond the hypotheses of the theorems, `AckedIsReflected` of `HubSync`
with two authors of a record. There is no RECURSIVE operator.

## 6. Not modelled

* The contents of payloads and keys, compression, encryption and hashes
  (`crypto.py`): calls of libraries on one value. A payload that does not decrypt
  or check is a refusal or an exception in the models.
* The audit log (`audit.py`): an append-only table that no decision reads. An error
  while it is written is an error of the call it belongs to (`WriteRaises`,
  `SyncRaises`, `HQRefuses`).
* SQLite itself: `transaction()` holds the lock of the connection until COMMIT or
  ROLLBACK, so a transaction is a step, and SQLite makes it durable against a crash
  of the process. Damage to the file is outside the models.
* The console (`cli.py`) beyond its starting a second engine on the database of a
  running one, and the examples.
* `add_transport`, `list_available`, and the `send` and `receive` of the manager,
  which nothing in the engine calls; the estimates of bandwidth and latency beyond
  the bandwidth a session reads. That the second probe of a session may choose
  another link than the first (engine.py:411) is a step of `EngineThreads`, where
  batches are not modelled: the operations sent are right over either link.
* Filters, limits and listings of queries, and with them the limit of 500 records
  per collection in a delta (server.py:203), which no model reaches; metadata and
  times in the registry; msgpack and JSON.

Worth doing next: a proof that an acknowledged operation is reflected
(`AckedIsReflected` of `HubSync`) with two authors of a record. It has to carry the eras
of `EngineStoreProofs`, which are stated for one edge and the HQ, over to two edges.
