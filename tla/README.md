# A formal model of RaftKeeper

RaftKeeper is a coordination service with ZooKeeper's protocol on top of NuRaft.
This directory holds TLA+ modules for the core of its server
(`src/src/Service`), TLC configurations that check them on small instances, and
TLAPS proofs of what holds for every instance.

    tlc -config pipeline_steady.cfg MCRequestPipeline     # one run
    tlapm RequestPipelineProofs.tla                       # one module of proofs

`PROJECT.json` lists the runs, the source lines every definition stands for, the
hazards, the findings and the theorems.

## 1. The system

### Parts, their state and their operations

| Part (source) | State | Operations |
|---|---|---|
| Client connections (`ConnectionHandler`) | session id, send queue | handshake, receive a request, send responses, `destroyMe` |
| Dispatcher (`KeeperDispatcher`) | `requests_queue`, `session_to_response_callback` | `putRequest`, `putForwardingRequest`, request threads, response thread, session cleaner, configuration thread |
| Accumulator (`RequestAccumulator`) | queue, the batch being filled | batch, append to raft, wait for the result, report failures |
| Forwarder (`RequestForwarder`, `ForwardingConnection*`) | queue per runner, connections to the leader | send a write to the leader, receive its answer, transfer session expiry times |
| Request processor (`RequestProcessor`) | `requests_queue`, `pending_requests`, `committed_queue`, `errors` | `push`, `commit`, `onError`, the loop of `run` |
| Store (`KeeperStore`, `ACLMap`) | `container`, `ephemerals`, sessions, auth ids, ACL numbers, watches, `zxid` | `processRequest` for every kind of request, `getSessionID` |
| Session expiry (`SessionExpiryQueue`) | session -> expiry, expiry bucket -> sessions | update, remove, expired sessions |
| State machine (`NuRaftStateMachine`, `RaftTaskManager`) | the store, snapshots, last committed index on disk | `commit`, create and apply snapshots, replay on startup |
| Log store (`NuRaftFileLogStore`, `NuRaftLogSegment`) | segments, cache of the latest entries, durable index | append, write at, truncate, compact, fsync thread |
| Configuration (`KeeperServer`, `NuRaftStateManager`) | cluster config, vote | startup, `applyConfigurationUpdate` |
| Reactors, four letter commands, wire formats, settings, migration | - | I/O, formatting and parsing |

### How they interact

A request of a client goes to the dispatcher. A dispatcher thread pushes it to
the request processor and, if it is a write, also to the accumulator (on the
leader) or to the forwarder (elsewhere), after looking at the leader once or
twice. Raft commits the write and its commit thread hands it to `commit` of the
processor of every server. The processor thread matches committed requests with
the pending requests of the sessions connected here, applies them to the store,
answers reads between them, and turns failures that the accumulator or the
forwarder report into error responses. The response thread passes responses to
the callbacks of the connections. New sessions do not take this way: the commit
thread itself calls `getSessionID` of the store, while the processor thread may
be in the middle of a request.

### What is hard

- **Four threads feed one processor** through three queues that it reads at
  different moments. `src/README.md` (11-12) promises two things: responses in
  the order of the requests of a session, and committed writes handled in order
  across all sessions.
- **Failures that are not final.** Raft reports a write as timed out or its
  leader as lost, and commits it all the same; reports and commits arrive in any
  order.
- **Sessions come and go** while their requests are in any of the queues; a
  Close may come from the client, the session cleaner, or both.
- **Multi** changes the tree request by request and repairs it with recorded undo
  actions; versions, `pzxid`, ephemeral owners and ACL usages must all come back.
- **Watches** are kept by the server and by the client; each must end in a
  notification, also across a lost connection.
- **Deadlines of sessions live on several servers**: the leader decides with what
  followers have told it, in messages that are late, reordered or lost.
- **A server is killed at any moment**: log, snapshot files and the recorded
  commit index are written by different threads and must fit together afterwards.
- **Durability is claimed by a thread of its own**, while raft goes on appending,
  overwriting and compacting.
- **A connection belongs to two threads**, the reactor that may delete it and the
  response thread that queues responses into it, while the session cleaner may
  take its callback. No lock spans registering and unregistering it for writing.

### What makes it correct

| Part | Properties |
|---|---|
| Processor and pipeline | order of responses, order of committed requests, no request lost, reads after the session's writes, no error after a success |
| Data tree | a tree at every moment, ephemeral nodes end with their sessions, fresh sequence numbers, failed Multis leave no trace, ACLs in use are counted and known |
| Watches | no change goes unnoticed by a client with a watch, no watch is lost, none is left behind |
| Session expiry | the two maps agree, a client that is heard of in time keeps its session, a dead session is closed |
| Log store | raft reads what it wrote, segments are contiguous, what is called durable is on disk, and everything becomes durable |
| State machine and snapshots | every chosen entry has its effect once, snapshots are exact, nothing needed is compacted, recovery ends (it need not: section 4) |
| Connections and reactors | responses arrive whole and in order, none is stranded (one may be: section 4), no handler is used after it was deleted |

## 2. Modules

| Module | Models | Uses |
|---|---|---|
| `RequestProcessor` | the processor thread and its three inputs, in the most general environment (`ProcSpec`) | |
| `RequestPipeline` | dispatcher, accumulator, forwarder, connections; raft and the other servers from outside | extends `RequestProcessor` |
| `DataTree` | nodes, sessions, ACLs, every write request, Multi with undo | |
| `KeeperStore` | watches, reads, SetWatches, clients | extends `DataTree` |
| `LogStore` | the raft log on disk: segments, cache, fsync thread, restart | implements `RaftLog` |
| `RaftLog` | abstract: the log as raft is promised it | |
| `SessionExpiry` | session deadlines on every server, their way to the leader, the cleaner | implements `SessionTimeouts` |
| `SessionTimeouts` | abstract: one deadline per session and server | |
| `StateMachine` | commit, snapshots, the recorded index, restart and replay | |
| `Connection` | a session's connections: handler, reactor, poll set, response thread, session cleaner | |
| `RequestPipelineProofs`, `DataTreeProofs`, `KeeperStoreProofs`, `SessionExpiryProofs`, `StateMachineProofs`, `LogStoreProofs`, `ConnectionProofs` | theorems | extend the modules above |
| `IntervalInduction` | induction on intervals and what it gives for recursive functions | |
| `MCRequestPipeline`, `MCKeeperStore`, `MCLogStore`, `MCSessionExpiry`, `MCStateMachine`, `MCConnection` | the instances TLC checks | extend the modules above |

**RequestProcessor.** `phase` is the position of `RequestProcessor::run`:
wait, errors, snapshot (the sizes are read), runners, committed. Each runner
thread serves its own sessions, so `requests_queue` and `pending_requests` are
functions of the session. `errors` is the `unordered_map` in its iteration
order, into which `onError` inserts anywhere. `processErrorRequest` and
`processCommittedRequest` are one step per request; `moveRequestToPendingQueue`
and `processReadRequests` one step per request of a session, interleaved between
runners. The step that reads the size of `committed_queue` is separate from
those that drain `requests_queue`, as in the code. `log` and `applied` are
history variables. What is applied is seen here only through its response; the
tree is in `DataTree`. Not modelled: the exceptions caught around the loop
bodies, shutdown.

**RequestPipeline.** One action per thing a thread does between two points where
another thread can see or change its state. A dispatcher thread takes a request
(`TakeRequest`), looks at the leader (`LookAtLeaderAlive`), then routes
(`RouteByLeader`) or looks again (`LookAgain`): the leader may change between the
looks. The accumulator has one runner. `fwd_net` is the connection to the
leader: requests on it are appended there, refused, or lost with the
connection. Raft is external: `raft_log` is what is appended and not committed;
`LeaderChange` may drop a suffix of it. `Home` are the sessions whose clients
use this server; the others appear through `PutForwardingRequest` and
`RemoteAppend`. Clients number their requests and send nothing after Close.

**DataTree.** A path is a sequence of names, a name a base name and the number
that a sequential create appends; node data is abstracted to `version` and the
stamps. A single request is one step (only the processor thread applies
requests), a Multi one step per sub-request and per undo action, with
`NewSession` of the commit thread in between. `Denied`, `Fail` and `Process` are
the three outcomes of `processRequest`: missing permission, an error code,
success; each takes a zxid. A request whose ACL check throws ("Unknown ACL id")
changes nothing and has no step. ACL lists are sets. `RequestAssumption` says what
a request is: it has the fields the code reads, nobody writes the number of a
sequential node by hand, and a Multi consists of create, remove, set and check
(its constructor throws on anything else) and does not remove the root.

**KeeperStore.** `watches`, `list_watches` and `sessions_and_watchers` as in the
code, with sets in place of vectors. The clients are in the model:
`client_data` and `client_list` hold what a client read when it left a watch,
until the watch fires; `seen` is the zxid of its last response, which
SetWatches sends (kept only where connections may be lost). A client reconnects to the same server. `SetWatches` sets the
client's watches one after the other (`SetWatch`), those of each kind in any order
(`Orders`). `ProcessWatches` takes a set of paths, because Close fires the watches
of all ephemeral nodes of its session; ephemeral nodes have no children, so none of
these paths is the parent of another and their order does not matter. A behaviour
draws what its clients do (requests, Multis, lost connections) from `Scenarios`.

**LogStore.** `log_fsync_mode` is `fsync_parallel`, the default. Raft serialises
its calls, so `AppendLog`, `WriteAt`, `EndOfAppendBatch`, `ApplyPack` and
`CompactLog` are one step each; the fsync thread has two, `Fsync` (the system
call on the open segment) and `Publish` (the durable index). A segment is a
sequence of entries, how many of them are synced, and whether it knows the
create time that is part of its file name. `Start` is the constructor over the
files that are left: after `Restart` all that was written, after `PowerLoss`
any part of what was not synced is gone. `RaftLog` knows only `start` and `log`
and lets entries be appended, overwritten from an index, compacted behind a
snapshot and lost from the end; the mapping reads every index through
`EntryAt`, that is through the cache.

**SessionExpiry.** Two servers, each with its `SessionExpiryQueue`, its sessions,
the callbacks of the sessions connected to it, and committed entries it has not
applied. A new session, and the update of one whose client comes back, are
committed through raft; the handshake ends when the entry is applied or the wait
times out. Heartbeats move the deadline only on the client's own server; every
`SyncPeriod` a follower sends the deadlines of its local sessions in one message
to the leader. `CleanSessions` and `CommitClose` are the two halves of the
cleaner. Time is a clock that does not pass while a heartbeat, a synchronisation
or a message is overdue. `SessionTimeouts` has one map per server, condemns
exactly what has passed, and moves deadlines only when a server hears of the
session, loads or forgets it, or takes over deadlines of a message: these may be
of any age, only not later than one set now (`TakeOver`), so what an old message
may cost a client is left to `NoLiveExpired`.

**StateMachine.** One server between raft (`chosen` is what the cluster has
committed, `log` what this server holds) and the request processor's
`committed_queue`. The tree is nodes with an owner and a version. A snapshot is
written object by object (`CreateObject`) after `WaitCommitQueue`, when the
distance is reached and the timer of `chk_create_snapshot` agrees, which it may or
may not (`ChkCreateSnapshot`); old ones are
removed and the log compacted at the end. `WriteCommitted` is the task thread
that records the index. `Restart` is a kill at any moment followed by the
constructor: it loads the latest snapshot, then the loader (`LoadBatch`,
`MoveStart`) and the replayer (`CheckReplay`, `StopReplay`, `ReplayBatch`,
`Finish`) share the queue of batches as in the code, loop conditions included.
`ReceiveSnapshot` and `SaveObject` are a snapshot sent by the leader.

**Connection.** Client, socket, handler, reactor and response thread of one
session that may come back on another connection. A response is so many bytes;
`OnWritable` fills the send buffer from the queue, sends, and removes what went
out. Unregistering (`OnSent`, `RemoveObserver`, `RemoveMode`, `UpdatePollSet`)
and registering (`PushResponse`, `AddObserver`, `AddMode`, `AddToPollSet`) are
one step for each lock they take; the response thread holds the mutex of the
callback table, which `destroyMe` takes before it deletes the handler. Nothing
keeps the two from overlapping. `CleanerPush` and `CleanerFinish` are the session
cleaner: a Close, then `finishSession`, also of a session that is connected.

### Bounds and budgets

`MaxXid`, `MaxBatch`, `MaxSessions`, `MaxZxid`, `MaxIndex`, `MaxLog`,
`MaxKills`, `MaxClock`, `MaxDelay`, `MaxPending`, `losses`, `zxids` and the counts in
`Budgets` bound the instances and are named where they are declared.
`QueueCapacity`, `SegmentSize`, `CacheSize`, `Reserved`, `SnapshotDistance`,
`KeepSnapshots`, `BatchSize`, `QueueLimit` and `SentBufferSize` are limits of
the code itself with small values, so that they are reached.

What goes wrong outside the program in a behaviour is drawn at its start: from
`Budgets` (how often each thing happens) in the pipeline, from `FaultSets`
(names of what may happen) in the other modules, from `Scenarios` in
`KeeperStore`. Sets of faults that never meet in one behaviour keep the
instances small. Some names stand for a situation in which the code is known to
break a property; these are in section 4 and in no passing run of that property,
and each names exactly the step it allows.

## 3. Runs

Passing runs:

| Run | Instance | Shows |
|---|---|---|
| `pipeline_steady` | one session, three requests of any kind, leader or follower, no failure, `FairSpec` | responses in order (`ResponsesInOrder`), every request is answered (`AllAnswered`), the pipeline implements `ProcSpec` (`ImplementsProcessor`) |
| `pipeline_failures` | a local and a remote session, three requests, one each of leader change, raft timeout, lost connection, refusal; or a disconnection, reconnection and expiry; or an Auth or a remote write and a timeout | types, `NoErrorAfterSuccess`, `CommittedInOrder`, `ReadsWaitForWrites`, `NoAppliedStillQueued` |
| `store` | two sessions; fifteen requests on `/a` and its children with four ACL lists, an identity and five Multis, zxids to 7; or five requests and watches on two paths, no lost connection, zxids to 5; or a node only its creator may read, Multi, one lost connection, zxids to 5 | types, `TreeConsistent`, `EphemeralsOwned`, `SequenceNumbersFresh`, `StampsBelowZxid`, `UsageCounted`, `MultiAtomic`; `WatchersInformed`, `WatchesKept`, `NoDeadWatches` |
| `log_store` | two kinds of entries, indexes to 4, segments of 2, a cache of 2; overwriting with kills, power losses, or packs; `FairSpec` | types, `SegmentsContiguous`, `DurableOnDisk`, `LastEntryFresh`, `DurableCatchesUp`, the refinement `ImplementsLog` |
| `session_expiry` | two servers, two sessions, timeout 4, heartbeats and synchronisation every tick, messages one tick late, clock to 6; clients move while a server restarts, the leader changes, followers lag or connections break; `FairSpec` | types, `BucketsAgree`, `NoLiveExpired`, `DeadAreClosed`, the refinement `ImplementsTimeouts` |
| `state_machine` | a session, a config entry and three requests, logs of 4, a snapshot every 2 entries, one kept, batches of 2, one kill; `FairSpec` | types, `StoreAgrees`, `SnapshotsExact`, `Rebuildable`, `CatchesUp` |
| `connection` | responses of 2 bytes, a send buffer of 3, a socket of 4; one connection after the other, a client that leaves and returns and a session that times out, two responses waiting; or a client that comes back on a second connection before the server knows that it was gone, one response waiting; `FairSpec` | types, `StreamInOrder`, `NoUseAfterFree`, `StrandedOnlyWhenMet`, `HeartbeatsAnswered`, `GoneAreDeleted` |

The bounds are enough for the cases the properties are about: two writes and a
read of a session are what ordering needs, and with `MaxBatch = 2` one of the
writes may share a batch or not; a batch, a queue and the budget of each failure
are exhausted in some behaviour. Four requests before a failing Check let a Multi
remove and create the same node and its parent. Two sessions are what a foreign
watch or a foreign ephemeral node needs. Four log entries fill two segments, or
two snapshots and two batches of replay, so that truncation and compaction cross
a segment, and a kill finds every combination of snapshot, recorded index and
log. A response of 2 bytes and a buffer of 3 cut every second response. In
`session_expiry` the timeout is heartbeat period + synchronisation period + twice
the delay, the least with which `NoLiveExpired` holds: with 3 it fails.

`NoLiveExpired` is claimed of behaviours without election, lag, half-open or lost
connections (see section 4 for what happens with them), `DurableOnDisk` of power
losses while closed segments are synced and durable entries not overwritten,
`WatchesKept` and most of `WatchersInformed` of single requests of connected
clients. The other properties hold in every behaviour of their run, and three of
them name the states in which the code is stuck instead of excluding the steps
that lead there: `CatchesUp` says that a server catches up or its replaying thread
waits for a batch that will not come (`ReplayerStuck`, which `replay_hang` shows to
happen); `StrandedOnlyWhenMet` that a response is stranded only where registering
and unregistering overlapped (`connection_race` shows one); `HeartbeatsAnswered`
that a client waits in vain only for a stranded response or on a connection whose
callback was taken (`Orphaned`). That there is no other way is what they show.

`GoneAreDeleted` says that the handler of a client that is gone is deleted or the
response thread takes the mutex of the callback table again and again. The second
part is needed for two connections: of two that are gone, weak fairness lets one
wait for the mutex for ever while the response thread serves the other, and the
code's `std::mutex` promises no more.

Deadlock is checked in the pipeline (the processor's timed wait always ends) and
in `connection`; in the other runs nothing happens any more when the bounded
requests, entries or ticks have run out.

**Fairness** (`FairSpec`): weak fairness of threads that loop until shutdown.
Pipeline: processor, accumulator, dispatcher thread, response thread, cleaner,
forwarder, the leader's handling of a forwarded request, and raft's commit
thread. The processor's timed wait (`WaitTimeout`) is part of the fair
processor; `AllAnswered` needs it: a read that becomes ready with the last
committed write is in no queue that the wait's condition looks at. `LogStore`:
the fsync thread. `SessionExpiry`: the cleaner and the threads that apply what is
committed; `CommitClose` is strongly fair because the queue of requests is served
in order, so that a Close is not overtaken for ever by writes. `StateMachine`:
commit, processor, task, loader and replaying threads, and raft's sending of what
the cluster has chosen. `Connection`: reactors, the response thread, the cleaner's
`finishSession` once it has pushed a Close, and a client that reads what it is sent. Nothing is assumed of what clients ask, of elections
and of failures.

## 4. Findings

Runs with expectation "violation"; each states what the repository says, and TLC
shows a behaviour of the code that does otherwise.

| Run | Property | What happens |
|---|---|---|
| `pipeline_blocked_errors` | `CommittedApplied` | an error whose request is not pending any more ends every pass over the errors, those behind it are never handled, and a committed request of their session blocks the committed queue of all sessions |
| `log_power_loss` | `DurableOnDisk` | a full segment is closed without fdatasync, the next flush syncs only the new segment and declares everything durable |
| `snapshot_behind` | `StoreAgrees` | a snapshot from the leader is put over the store that is there: what was removed meanwhile stays |
| `replay_hang` | `ReplayEnds` | the replaying thread takes the last batch before the loader has moved `batch_start_index`, and then waits for a batch, or for an index that has gone past: the constructor does not return |
| `connection_race` | `NothingStranded` | a response is registered for sending while the reactor unregisters; the reactor's older mode wins in the poll set |

More was met on the way. These have no run; where a fault, a budget or a
constant makes TLC show one, it is named.

Pipeline:

- A write answered with a timeout commits later and is answered again, behind a
  later request (`RequestProcessor.cpp:302`; guarantee 1 of `src/README.md:11`):
  `ResponsesInOrder` with a budget of one timeout.
- A committed Auth of a local session takes the branch of a remote session, whose
  pending requests are erased unanswered (`RequestProcessor.cpp:119`):
  `AllAnswered` with "auth" among the `ClientKinds` and a budget of one.
- A Close of the session cleaner and one of the client match each other whatever
  their xids (`RequestProcessor.cpp:226` and `:304`). The commit of one removes
  the other from the pending requests, and a late error then finds the one that
  was answered already: success, then an error. The proof of
  `NoErrorAfterSuccess` ran into it; TLC shows it, for the property without its
  exception for Close, with `ClientKinds = {"close"}` and a budget of two leader
  changes, one timeout and one expiry.

Tree and watches:

- An undone removal of the last node with an ACL restores the node's number, not
  the ACL (`KeeperStore.cpp:666`); later checks throw "Unknown ACL id".
- SetACL counts a usage of the new ACL and never releases the one it replaces
  (`KeeperStore.cpp:973`), nor does Close release those of ephemeral nodes;
  `UsageCounted` is an inequality for this reason.
- Watches are looked up under the request's path, which a Multi does not have
  (`KeeperStore.cpp:1574`): a Multi fires none.
- SetWatches that finds changed children fires the event CHILD
  (`KeeperStore.cpp:1479`), which touches no list watch and takes the data
  watches of other sessions on that path with it.
- The removal of a node fires the list watch on it only if somebody has a data
  watch on it or a list watch on its parent (`KeeperStore.cpp:1574`).
- Reads return the zxid counter, which is the zxid the next write will get, and
  SetWatches compares with `>` (`KeeperStore.cpp:1436`): a change by that write
  is not noticed by a client that was disconnected.

Log store:

- The durable index does not fall when the log is truncated
  (`NuRaftFileLogStore.cpp:154`): with `{"power", "rewrite"}` `DurableOnDisk`
  fails. A restart starts with the index at the end of the log.
- `removeSegment` hides the entry when exactly one is left
  (`NuRaftLogSegment.cpp:1066`, fault "one_left").
- A restart with an empty open segment sets its file aside, and the one after that
  fails with "Open segment conflict" (`NuRaftLogSegment.cpp:1389`, "empty"): in the
  model `Restart` is then disabled for good, which no property is about.
- `apply_pack` neither fills nor clears the cache (`NuRaftFileLogStore.cpp:365`,
  "recached") and does not set `last_log_entry`.
- A closed segment that was loaded has no create time, and the rename in
  `truncate` throws; `WriteAt` is not modelled further in this case
  (`Renamable`).
- Not modelled: a torn last entry makes `load` fail before the code that would
  cut it off; without an open segment at restart `first_log_index` stays 1; the
  checks for holes compare with a segment that is never assigned.

Sessions:

- A follower that lags admits a client before the update of its session is
  applied and reports the old deadline ("lag"); a server that has not noticed
  that its client went reports an old one too ("half_open"); a message sent just
  before a connection breaks is lost ("lost"); a new leader knows only what
  writes have told it ("election"). In all four a live client may lose its
  session.
- `handleRemoteSession` does not ask whether the session exists: a late message
  leaves a deadline without a session, which the cleaner closes once more.
- A client that comes back keeps the timeout of its session; what it asks for is
  ignored.

State machine:

- A kill while the objects of a snapshot are written leaves a snapshot that is
  loaded as if it were whole ("torn").
- Before an index has been recorded, or with the file lost, a restart replays the
  whole log, the end that may yet be overwritten included ("unrecorded").
- A last entry on its own is not replayed, and left to raft; it is applied once
  all the same.
- Sessions are created ahead of waiting requests, so the zxid a request gets
  differs between replicas; `StoreAgrees` compares in the order of effects.

Connections:

- If the socket takes less than the send buffer holds, the rest is sent once from
  the buffer and once more from the queue ("partial").
- A client that comes back before its old connection is known to be gone keeps
  the old callback, which the old handler then removes: the new connection gets
  no answers until it asks again and is closed ("takeover", in
  `connection`; `Orphaned` in `HeartbeatsAnswered`).
- The session cleaner takes the callback of a session that is still connected
  (`KeeperDispatcher.cpp:446`): a heartbeat that was put before, and the response
  to the cleaner's Close, may be dropped, and the connection stays open until the
  client asks again ("expire", in `connection`; `Orphaned` as well).
- The race of `connection_race` has another end: the socket is polled for being
  writable with no observer left, the reactor spins, and the response waits.
- A handler that is registered for writing with nothing to send does not
  unregister: its reactor spins until the next response.

## 5. Proofs

Assumptions on constants: `ProcessorAssumption` (`MaxXid` and `QueueCapacity` are
positive), `PipelineAssumption` (`Home` are sessions, `ClientKinds` are kinds,
`MaxBatch` is positive), and `SessionExpiryAssumption`, `StateMachineAssumption`,
`LogStoreAssumption`, `ConnectionAssumption` where these modules declare them:
sizes, periods and bounds are numbers, positive where the code divides or waits
by them. Sessions, servers, entries and faults may be any sets. The data tree has
`TreeAssumption` (bounds are numbers) and `RequestAssumption` (section 2), the
store `ScenarioAssumption` (scenarios draw from `Requests`, `Multis` and
`AuthIds`); requests, Multis, paths and ACL lists are otherwise arbitrary, and
Multis of any length. That a Multi does not remove the root is needed: the store
does not refuse it, and undoing it would list the root as its own child. Clients
refuse to send it.

Where a property fails under a fault that the code is known not to survive
(section 4), a theorem may have a hypothesis on `FaultSets` that excludes exactly
these faults. The passing run satisfies it, and a finding or section 4 shows what
happens without it.

| Theorem | Property | Hypothesis |
|---|---|---|
| `CommittedInOrderHolds`, `ProcTypeCorrect` | `CommittedInOrder`, types of the processor | none |
| `PipelineImplementsProcessor`, `PipelineCommittedInOrder`, `PipelineTypeCorrect` | `ImplementsProcessor`, `CommittedInOrder`, `TypeOK` | none |
| `NoErrorAfterSuccessHolds`, `NoAppliedStillQueuedHolds`, `ReadsWaitForWritesHolds` | `NoErrorAfterSuccess`, `NoAppliedStillQueued`, `ReadsWaitForWrites` | none |
| `ResponsesInOrderHolds` | `ResponsesInOrder` | `Undisturbed`: the budgets of all failures are zero, and those of remote writes, disconnections, expiries and Auths |
| `DataTreeTypeCorrect`, `TreeConsistentHolds`, `EphemeralsOwnedHolds`, `SequenceNumbersFreshHolds`, `StampsBelowZxidHolds`, `UsageCountedHolds`, `MultiAtomicHolds` | `TypeOK`, `TreeConsistent`, `EphemeralsOwned`, `SequenceNumbersFresh`, `StampsBelowZxid`, `UsageCounted`, `MultiAtomic` | none |
| `StoreImplementsTree` | the store implements `DataTree` | none |
| `NoDeadWatchesHolds`, `WatchesKeptHolds` | `NoDeadWatches`, `WatchesKept` | none |
| `ReadersInformedHolds` | `WatchersInformed` for nodes that were there | none |
| `WatchersInformedHolds` | `WatchersInformed` | `CreationsLookedFor`: where anything is watched, no Multi creates nodes and no watched path is numbered |
| `ExpiryTypeCorrect`, `BucketsAgreeHolds`, `ExpiryImplementsTimeouts` | `TypeOK`, `BucketsAgree`, `ImplementsTimeouts` | none |
| `StateMachineTypeCorrect`, `RebuildableHolds` | `TypeOK`, `Rebuildable` | none |
| `StoreAgreesHolds`, `SnapshotsExactHolds` | `StoreAgrees`, `SnapshotsExact` | `Clean`: no "torn", "behind", "unrecorded" |
| `LogStoreTypeCorrect`, `SegmentsContiguousHolds` | `TypeOK`, `SegmentsContiguous` | `NeverOneLeft` |
| `DurableOnDiskHolds` | `DurableOnDisk` | `NeverOneLeft`, `PowerAlone`: no "roll", "rewrite", "kill" together with "power" |
| `LastEntryFreshHolds` | `LastEntryFresh` | `NeverOneLeft` |
| `LogStoreImplementsLog` | `ImplementsLog` | `NeverOneLeft`, `NeverRecached` |
| `NoUseAfterFreeHolds` | `NoUseAfterFree` | none |
| `StrandedOnlyWhenMetHolds` | `StrandedOnlyWhenMet` | none |
| `ConnectionTypeCorrect`, `StreamInOrderHolds` | `TypeOK`, `StreamInOrder` | `NoPartial` |

**RequestPipelineProofs.** First the processor by itself: `ProcSpec => []ProcInv`,
with the inductive invariant
`ProcInv == ProcTypeOK /\ SizeStillThere /\ CommittedInOrder`. `CommittedInOrder`
(`applied \o committed_queue = log`) is not inductive by itself: the committed
loop takes the head of the queue as long as `count > 0`, so the queue must still
hold `count` requests. `SizeStillThere` says so: only this loop shortens the queue
and it lowers `count` with it. `ProcSpec` lets anything be pushed, committed and
reported at any time, so the result does not depend on how the environment of the
processor was modelled. Then, every step of the pipeline is a step of the processor
in its general environment or leaves it alone; guarantee 2 of `src/README.md`
follows for the pipeline from the theorem about the processor.

What a client may rely on is proved with `OrderInv`. `QueuesInOrder`: the xids of
a session ascend through `pending_requests`, `requests_queue` and
`dispatch_queue`, and all are below the client's next one. `WayToRaft`: a request
on its way to raft, or in the log, is no read and is not in `dispatch_queue` any
more. `SizesCover`: a request among the first `count` of `committed_queue` that is
still in `requests_queue` is among the `to_move` first, and in the committed loop
there is none. Hence `AppliedSettled` and `AnsweredSettled`: what is applied or
answered with success is in no queue, and never comes back, since new requests
have new xids. `NoErrorAfterSuccess` follows because errors are matched against
the pending requests, `ReadsWaitForWrites` because only the head of the pending
requests, or one whose error is reported, is answered as a read. The steps of the
server are first sorted into the five things a step can do to a session's queues
(`QueueStep`), so that each is argued once.

Guarantee 1 of `src/README.md`, responses in the order of the requests, holds as
long as nothing fails (section 4 says what breaks it). `SteadyInv` adds to
`OrderInv` that nothing is reported as failed and that writes take one way only,
through the accumulator on the leader or the forwarder on a follower (`Calm`).
`WritesInLine`: the writes of a session stand in one line, with rising xids, in
`committed_queue`, the log of raft, the batch and the accumulator's queue (or the
forwarding connection and the forwarder's queue), and at the end the one being
routed; and they are exactly the writes among the requests that the processor
holds. So the committed request at the head is the first one pending
(`CommittedIsFirst`): an earlier read would hold it up (`MustWait`), an earlier
write would be before it in the line. `AnsweredBefore`: what waits is later than
what has been answered. `CloseLast`: a Close is the last request of its session,
so nothing waits when its response makes the session one that is not local any
more; otherwise a later commit would take the branch of remote sessions.

**DataTreeProofs.** Between requests the invariant is what one expects: the tree is
good (`GoodTree`: every node's parent lists it and no other, counts agree,
`ephemerals` are the nodes with an owner), ACL numbers are known and counted
(`AclOK`, `Counted`), and owners, numbers and stamps are within bounds (`StampsOK`).
In a Multi this is not enough. What an undo action does to the tree depends on the
tree it finds, so `TreeInv` says that there is a history `h` of good trees: `h[1]`
is the tree that the Multi found, the last one is the tree of now, and undo action
`i` takes `h[i + 1]` to `h[i]` exactly. Each kind of request is shown to keep the
tree good and its recorded undo action to lead back (`UndoesCreate`,
`UndoesRemove`, `UndoesSet`), with versions, `pzxid`, child counts and owners;
`MultiAtomic` and the others follow, for Multis of any length. A session created by
the commit thread in the middle is harmless, because the bounds of the history only
grow.

**KeeperStoreProofs.** The steps of the store are steps of the tree, so `TreeInv`
holds of it. `WatchesPlaced`: every watch belongs to a live session and its path is
recorded with that session, which is why `clearDeadWatches` leaves nothing behind.
`SetWatches` is a recursive function over the client's watches; it is shown to
exist, and each fact is carried along it by induction on the interval. `SteadyOK`
says that the server has the watches its clients wait for; it is kept because
whoever loses a watch is notified (`Tells`). `SeenOK` says that what a client read
is what is there: for every request, the nodes it changes are those whose watches
it fires (`Changes`), the parent's list included, and for Close those of all
ephemeral nodes. Clients that wait for a node are followed through lost connections
(`AbsentOK`): the node is still absent and no undo action of a running Multi will
bring it back (`NotRestored`), or the client has been told.
`CreationsLookedFor` is needed exactly here, because a create in a Multi fires no
watch and a sequential create looks for watches under the path of the request
(section 4); the clients that read existing nodes need no such condition.

**SessionExpiryProofs.** `ExpiryInv` has the types, that the queue of every server
is good (`GoodQueue`: the buckets are those of the deadlines), and that no deadline
in a queue or a message is later than one set now would be. Each operation of
`SessionExpiryQueue` is first shown to keep a queue good and to change the
deadlines as its name says (`Overlaid` for the message of a follower, which sets
one after the other); the refinement of `SessionTimeouts` follows from these
lemmas, since the abstract state is just the deadlines.

**StateMachineProofs.** Two invariants. `IndexInv` holds under every fault and is
about positions: snapshots lie behind the commit index or are being received, the
log begins at or before the end of the latest snapshot, and the loader stays
behind what it loaded and within the log. `Rebuildable` is a consequence.
`StoreInv` is about contents: the store is what the chosen entries make without
the requests that wait in `committed_queue`; the queue holds every request from
its first one on; every file holds its part of what the entries up to its index
make; the batches that wait for the replaying thread follow each other without a
gap. It needs lemmas about `Apply`, the fold over the log: a prefix and its
continuation, and that a session created ahead of waiting requests commutes with
them.

**LogStoreProofs.** `GoodStore` says that closed segments are full of entries and
follow each other and that the open one follows them, ending at
`last_log_index`; `OpenThere` that there is an open segment or nothing at all. It
is shown of every function of `LogSegmentStore` that it keeps a store good and
what it leaves readable (`AppendReads`, `TruncateReads`, `RemoveReads`,
`LoadReads`, `FlushReads`); then `LogInv` is inductive. On top of it are
`SyncInv` (what is published, or about to be, has been synced), `FreshInv` (the
last entry is the one in the files and not hidden by the cache), `CacheInv` (the
cache ends where the log does and disagrees with the files nowhere) and `SnapInv`
(only what a snapshot covers has been compacted). For the refinement
`ReadLogIs` replaces what raft reads through the cache by what the files hold, and
the step lemmas (`ExtendLog`, `OverwriteLog`, `CompactedLog`, `StartLog`) say how
this sequence changes. That the cache is right needs that two indexes less than
`CacheSize` apart have different slots in the ring (`DistinctSlots`).

**ConnectionProofs.** `LifeInv`: the handler in the callback table exists and has
shaken hands, the response thread works on that handler only, nothing is
dispatched to a deleted one, and a connect packet is the first of a connection,
so no handler registers twice. `NoUseAfterFree` follows. `Registered` says, for
each position of the two threads, what mode they carry and what is registered. It
is not inductive: either thread may write a mode that the other has outdated, the
race of the finding. What is inductive is `Settled`: a connection is registered
unless `met`, a history variable no guard reads, which a thread that begins to
change the registration sets when the other is at it, and clears when it is not. A
thread that begins alone needs nothing of what is there before: the response
thread registers anew, and the reactor has found nothing left to send.
`StreamInv` is about bytes: what is
on the wire and what waits in the handler's queue are together, byte by byte, the
responses issued and not yet read (`Complete`), and nothing is queued behind the
response to a Close (`CloseLast`): the connection is closed when that response has come
to the front of the queue, and what is behind it would never be sent.
`DrainedBytes` is the lemma on which this rests: removing from the
queue as many bytes as were sent leaves the rest of the bytes, also when that cuts
a response in two. With the fault "partial" the bytes left in the send buffer are
sent twice (section 4); the theorem excludes it.

**IntervalInduction.** The prover does not instantiate induction theorems that
take an operator. This module states induction on `0 .. n` for a set instead
(a set that holds 0 and with `i` also `i + 1` holds all of `0 .. n`) and what
follows for functions defined by recursion on an interval. With it the proofs
reason about `Apply`, `SetEach`, `Remaining`, the bytes of a queue (`OverSequences`
in `ConnectionProofs` is the same for sequences) and the watches of `SetWatches`.

**Only model-checked.** Liveness (`AllAnswered`, `CommittedApplied`,
`DurableCatchesUp`, `DeadAreClosed`, `CatchesUp`, `ReplayEnds`,
`HeartbeatsAnswered`, `GoneAreDeleted`), and `NoLiveExpired`, whose argument is about distances in time
between several servers.

## 6. Plan

The modules of the plan are there, and proofs for all of them. Left, of what is
not liveness: `NoLiveExpired`.

If a further module is wanted: cluster configuration (`applyConfigurationUpdate`)
and asynchronous snapshots.

## 7. Not modelled

- Removal of the root, which the store does not refuse when the root has no
  children: clients refuse to send it. `RequestAssumption` excludes it from Multis,
  where undoing it would leave a tree that is none; a single one is in the model,
  though in no instance.
- The watch on the path that a sequential create makes: the store looks under
  the path of the request, and the instances watch no such path.
- `SetSeqNum` (a request of the migration tool), `finalize`, dumps.
- Requests lost between two looks at the leader or on a broken forwarding
  connection are in the model (`LookAgain`, `ConnectionLost`); nobody answers
  them, which is why `AllAnswered` is checked without failures.
- Asynchronous snapshots (`async_snapshot`, off by default), the other fsync
  modes, headers, checksums and versions of files.
- Cluster configuration: its waits are on NuRaft, which is a submodule that is
  not in the repository.
- The acceptor, timeouts and shutdown of the reactors; packet formats, four
  letter commands, statistics, settings, migration of ZooKeeper files: they keep
  no state of the service.
- `base/`, `contrib/`, `src/src/Common` outside `ZooKeeper`, `src/src/IO`: code of
  ClickHouse, Poco, musl and others (strings, hash tables, exceptions, DWARF,
  random numbers, big integers, generated tables of BoringSSL). They are four
  fifths of the lines of the repository and none of its protocol; what the
  modules describe is `src/src/Service`, of which they cover the files that hold
  state.
