---------------------------- MODULE StateMachine ----------------------------
(***************************************************************************)
(* NuRaftStateMachine of one server: committing, snapshots and recovery.    *)
(*                                                                          *)
(* Raft's commit thread hands committed entries to commit(): sessions are   *)
(* created there and then, requests are left to the request processor's     *)
(* committed queue, config entries never reach it.  SnapshotDistance or     *)
(* more entries behind the last snapshot, and when its timer agrees, the    *)
(* same thread creates a snapshot, object by object, and compacts the log   *)
(* (async_snapshot is off, as by default).                                  *)
(* RaftTaskManager records the last committed index in a file now and then. *)
(* The constructor loads the latest snapshot and replays the log up to the  *)
(* recorded index with two threads, a loader of batches and itself.  A      *)
(* server may also be sent a snapshot by the leader.                        *)
(*                                                                          *)
(* The tree is abstracted to nodes with an owner and a version: enough to   *)
(* tell a request that was applied twice, never, or in another order.  Raft *)
(* is external: chosen is what the cluster has committed, log what this     *)
(* server holds, in which a tail may never be chosen.                       *)
(*                                                                          *)
(* What may happen in a behaviour is drawn at the start from FaultSets:     *)
(*   "kill"       the process is killed and started again                   *)
(*   "unrecorded" also before an index was recorded, with a tail in the log *)
(*   "torn"       also while the objects of a snapshot are being written    *)
(*   "receive"    a server with an empty log is sent a snapshot             *)
(*   "behind"     a server that has applied entries is sent a snapshot      *)
(***************************************************************************)
EXTENDS Integers, Sequences, SequencesExt, FiniteSets, FiniteSetsExt

CONSTANTS Requests,          \* requests: [op, session, path]
          SnapshotDistance,  \* snapshot_distance
          KeepSnapshots,     \* keep_max_snapshot_count
          Reserved,          \* reserved_log_items
          BatchSize,         \* entries the loader puts into a batch, 10000
          QueueLimit,        \* batches the loader may be ahead, 10
          MaxLog,            \* bound: entries of the log
          MaxKills,          \* bound: times the process is killed
          FaultSets

ASSUME StateMachineAssumption ==
    /\ \A r \in Requests : r.op \in {"create", "set", "close"} /\ r.session \in Nat \ {0}
    /\ SnapshotDistance \in Nat \ {0} /\ KeepSnapshots \in Nat \ {0} /\ Reserved \in Nat
    /\ BatchSize \in Nat \ {0} /\ QueueLimit \in Nat \ {0}
    /\ MaxLog \in Nat /\ MaxKills \in Nat

VARIABLES chosen, log, log_start, sm_commit_index,         \* raft
          store, committed_queue, last_committed_idx,      \* the running server
          commit_pc,         \* raft's commit thread: "commit", "wait" or "create"
          snapshots,         \* KeeperSnapshotManager: indexes
          receiving,         \* index of the snapshot being received, 0 for none
          next_object,       \* of the snapshot being created or received
          task_queue,        \* RaftTaskManager: indexes still to be recorded
          committed_task,    \* file: the recorded index
          files,             \* snapshot files: [index, object, content]
          phase,             \* "replay" (the constructor) or "up"
          last_log_index, batch_start_index, log_queue, main_pc, loader_pc,
          kills, faults

raftVars == <<chosen, log, log_start>>
storeVars == <<store, last_committed_idx>>
commitVars == <<sm_commit_index, committed_queue, task_queue, commit_pc>>
snapVars == <<snapshots, receiving, next_object>>
diskVars == <<committed_task, files>>
replayVars == <<last_log_index, batch_start_index, log_queue, main_pc, loader_pc>>
runVars == <<phase, kills, faults>>
vars == <<raftVars, storeVars, commitVars, snapVars, diskVars, replayVars, runVars>>

-----------------------------------------------------------------------------
(* The store and what entries do to it.                                     *)

Session == [op |-> "session"]      \* a new session request
Config == [op |-> "config"]        \* not an app_log
Entries == Requests \cup {Session, Config}

EmptyStore == [zxid |-> 1, session_id_counter |-> 1, sessions |-> {}, nodes |-> {}]

\* getSessionID
NewSession(st) ==
    [st EXCEPT !.zxid = @ + 1, !.session_id_counter = @ + 1,
               !.sessions = @ \cup {st.session_id_counter}]

At(st, path) == {n \in st.nodes : n.path = path}

\* processRequest of a request that raft has committed.  Nodes are ephemeral; a
\* request of a session that is closed is ignored.
ProcessRequest(st, r) ==
    CASE r.op = "close" ->
            [st EXCEPT !.zxid = @ + 1, !.sessions = @ \ {r.session},
                       !.nodes = {n \in @ : n.owner # r.session}]
      [] r.op # "close" /\ r.session \notin st.sessions -> st
      [] r.op = "create" /\ r.session \in st.sessions ->
            [st EXCEPT !.zxid = @ + 1,
                       !.nodes = IF At(st, r.path) # {} THEN @
                                 ELSE @ \cup {[path |-> r.path, owner |-> r.session,
                                                version |-> 0]}]
      [] r.op = "set" /\ r.session \in st.sessions ->
            [st EXCEPT !.zxid = @ + 1,
                       !.nodes = (@ \ At(st, r.path))
                                   \cup {[n EXCEPT !.version = @ + 1] : n \in At(st, r.path)}]

ReplayEntry(st, e) ==
    CASE e = Session -> NewSession(st)
      [] e = Config -> st
      [] OTHER -> ProcessRequest(st, e)

\* What the entries behind the first done, up to the n-th, make of a store when
\* they are applied in order and those that wait are left out.
Apply(st, entries, done, n, waiting) ==
    LET after[k \in done .. n] ==
            IF k = done THEN st
            ELSE IF k \in waiting THEN after[k - 1]
            ELSE ReplayEntry(after[k - 1], entries[k])
    IN  after[n]

-----------------------------------------------------------------------------
(* Snapshot objects.  The object with the ACLs is left out.                 *)

Objects == 1 .. 3

\* The part of the store that object k holds.
Object(st, k) ==
    CASE k = 1 -> [EmptyStore EXCEPT !.zxid = st.zxid,
                                     !.session_id_counter = st.session_id_counter]
      [] k = 2 -> [EmptyStore EXCEPT !.sessions = st.sessions]
      [] k = 3 -> [EmptyStore EXCEPT !.nodes = st.nodes]

File(i, st, k) == [index |-> i, object |-> k, content |-> Object(st, k)]

ObjectsOf(i) == {f \in files : f.index = i}

\* parseObject: every file that is there is put over what the store holds.
Parse(st, fs) ==
    LET maps == {f.content : f \in {g \in fs : g.object = 1}}
        counters == IF maps = {} THEN st ELSE CHOOSE c \in maps : TRUE
        new == UNION {f.content.nodes : f \in fs}
    IN  [zxid |-> counters.zxid,
         session_id_counter |-> counters.session_id_counter,
         sessions |-> st.sessions \cup UNION {f.content.sessions : f \in fs},
         nodes |-> new \cup {n \in st.nodes : \A m \in new : m.path # n.path}]

LastSnapshot(indexes) == IF indexes = {} THEN 0 ELSE Max(indexes)

(* Mutant of Kept: the newest snapshots go first. *)
MutantKeptOldest(indexes) ==
    {i \in indexes : Cardinality({j \in indexes : j < i}) < KeepSnapshots}

\* removeSnapshots: the indexes that stay.
Kept(indexes) ==
    {i \in indexes : Cardinality({j \in indexes : j > i}) < KeepSnapshots}

-----------------------------------------------------------------------------
Init ==
    /\ chosen = <<>> /\ log = <<>> /\ log_start = 1 /\ sm_commit_index = 0
    /\ store = EmptyStore /\ committed_queue = <<>> /\ last_committed_idx = 0
    /\ commit_pc = "commit" /\ snapshots = {} /\ receiving = 0 /\ next_object = 1
    /\ task_queue = <<>> /\ committed_task = 0 /\ files = {}
    /\ phase = "up"
    /\ last_log_index = 0 /\ batch_start_index = 1 /\ log_queue = <<>>
    /\ main_pc = "check" /\ loader_pc = "load"
    /\ kills = 0 /\ faults \in FaultSets

-----------------------------------------------------------------------------
(* Raft, external                                                           *)

\* Only sessions that exist send requests.
Possible(entries, e) ==
    e \in Requests =>
        e.session <= Cardinality({k \in DOMAIN entries : entries[k] = Session})

\* The cluster commits an entry, which this server may hold or not.
Choose(e) ==
    /\ Len(chosen) < MaxLog
    /\ Possible(chosen, e)
    /\ chosen' = Append(chosen, e)
    /\ UNCHANGED <<log, log_start, storeVars, commitVars, snapVars, diskVars,
                   replayVars, runVars>>

Agree(n) == n <= Len(chosen) /\ n <= Len(log) /\ SubSeq(log, 1, n) = SubSeq(chosen, 1, n)

\* This server is sent the next chosen entry, or one that may never be chosen, or
\* overwrites the end of its log.
Replicate(e) ==
    /\ phase = "up" /\ receiving = 0
    /\ \/ /\ Agree(Len(log))
          /\ \/ Len(log) < Len(chosen) /\ e = chosen[Len(log) + 1]
             \/ Len(log) = Len(chosen) /\ Len(log) < MaxLog /\ Possible(log, e)
          /\ log' = Append(log, e)
       \/ /\ ~Agree(Len(log)) /\ Len(log) <= Len(chosen)
          /\ e = chosen[Len(log)]
          /\ log' = Append(SubSeq(log, 1, Len(log) - 1), e)
    /\ UNCHANGED <<chosen, log_start, storeVars, commitVars, snapVars, diskVars,
                   replayVars, runVars>>

\* log_store::compact(i)
CompactTo(i) ==
    /\ log_start' = IF i + 1 > log_start THEN i + 1 ELSE log_start
    /\ log' = IF i > Len(log) THEN SubSeq(chosen, 1, i) ELSE log

-----------------------------------------------------------------------------
(* The commit thread and the request processor                              *)

\* chk_create_snapshot, which raft calls at a distance from the last snapshot: its
\* timer decides, and time is external.
ChkCreateSnapshot(i) ==
    IF i - LastSnapshot(snapshots) >= SnapshotDistance THEN {"wait", "commit"} ELSE {"commit"}

\* commit, and the test whether a snapshot is due.
Commit ==
    LET i == sm_commit_index + 1
        e == log[i]
    IN  /\ phase = "up" /\ commit_pc = "commit" /\ receiving = 0
        /\ Agree(i)
        /\ sm_commit_index' = i
        /\ store' = IF e = Session THEN NewSession(store) ELSE store
        /\ committed_queue' = IF e \in Requests THEN Append(committed_queue, i)
                              ELSE committed_queue
        /\ last_committed_idx' = IF e = Config THEN last_committed_idx ELSE i
        /\ task_queue' = IF e = Config THEN task_queue ELSE Append(task_queue, i)
        /\ commit_pc' \in ChkCreateSnapshot(i)
        /\ UNCHANGED <<raftVars, snapVars, diskVars, replayVars, runVars>>

\* The processor applies the first committed request and takes it off the queue.
ApplyRequest ==
    /\ phase = "up" /\ committed_queue # <<>>
    /\ store' = ProcessRequest(store, log[Head(committed_queue)])
    /\ committed_queue' = Tail(committed_queue)
    /\ UNCHANGED <<raftVars, last_committed_idx, sm_commit_index, task_queue,
                   commit_pc, snapVars, diskVars, replayVars, runVars>>

(* Mutant of WaitCommitQueue: the queue is not waited for. *)
MutantNoWait ==
    /\ phase = "up" /\ commit_pc = "wait"
    /\ commit_pc' = "create" /\ next_object' = 1
    /\ UNCHANGED <<raftVars, storeVars, sm_commit_index, committed_queue, task_queue,
                   snapshots, receiving, diskVars, replayVars, runVars>>

\* create_snapshot: "wait commit queue empty".
WaitCommitQueue ==
    /\ phase = "up" /\ commit_pc = "wait" /\ committed_queue = <<>>
    /\ commit_pc' = "create" /\ next_object' = 1
    /\ UNCHANGED <<raftVars, storeVars, sm_commit_index, committed_queue, task_queue,
                   snapshots, receiving, diskVars, replayVars, runVars>>

\* createObjects: one object; behind the last one old snapshots are removed and
\* raft compacts the log.
CreateObject ==
    LET i == sm_commit_index
        k == next_object
        written == files \cup {File(i, store, k)}
    IN  /\ phase = "up" /\ commit_pc = "create"
        /\ IF k < Max(Objects)
           THEN /\ files' = written /\ next_object' = k + 1
                /\ UNCHANGED <<commit_pc, snapshots, log, log_start>>
           ELSE /\ snapshots' = Kept(snapshots \cup {i})
                /\ files' = {f \in written : f.index \in snapshots'}
                /\ commit_pc' = "commit" /\ next_object' = 1
                /\ IF i > Reserved THEN CompactTo(i - Reserved)
                                   ELSE UNCHANGED <<log, log_start>>
        /\ UNCHANGED <<chosen, storeVars, sm_commit_index, committed_queue, task_queue,
                       receiving, committed_task, replayVars, runVars>>

\* RaftTaskManager's thread writes the last index of what is queued; fewer than
\* its BatchSize of 1000 are.
WriteCommitted ==
    /\ phase = "up" /\ task_queue # <<>>
    /\ committed_task' = Last(task_queue)
    /\ task_queue' = <<>>
    /\ UNCHANGED <<raftVars, storeVars, sm_commit_index, committed_queue, commit_pc,
                   snapVars, files, replayVars, runVars>>

-----------------------------------------------------------------------------
(* A snapshot from the leader                                               *)

\* save_logical_snp_obj(0): the leader no longer has what this server needs next.
ReceiveSnapshot(i) ==
    /\ "receive" \in faults
    /\ phase = "up" /\ commit_pc = "commit" /\ receiving = 0
    /\ i > Len(log) /\ i <= Len(chosen)
    /\ log = <<>> \/ "behind" \in faults
    /\ receiving' = i /\ next_object' = 1
    /\ snapshots' = snapshots \cup {i}
    /\ UNCHANGED <<raftVars, storeVars, commitVars, diskVars, replayVars, runVars>>

\* The state of a server that has applied the first n chosen entries.
Reference(n) == Apply(EmptyStore, chosen, 0, n, {})

\* save_logical_snp_obj of an object and, behind the last one, apply_snapshot and
\* raft's compaction.
SaveObject ==
    LET i == receiving
        k == next_object
    IN  /\ phase = "up" /\ i # 0
        /\ files' = files \cup {File(i, Reference(i), k)}
        /\ IF k < Max(Objects)
           THEN /\ next_object' = k + 1
                /\ UNCHANGED <<receiving, store, sm_commit_index, log, log_start>>
           ELSE /\ receiving' = 0 /\ next_object' = 1
                /\ store' = Parse(store, {f \in files' : f.index = i})
                /\ sm_commit_index' = i
                /\ CompactTo(i)
        /\ UNCHANGED <<chosen, last_committed_idx, committed_queue, task_queue,
                       commit_pc, snapshots, committed_task, replayVars, runVars>>

-----------------------------------------------------------------------------
(* The constructor                                                          *)

(* Mutant of LastLogIndex: the whole log is replayed. *)
MutantWholeLog == Len(log)

\* What is known to be committed, or the whole log when nothing was recorded.
LastLogIndex ==
    IF committed_task # 0 /\ committed_task < Len(log) THEN committed_task ELSE Len(log)

\* The process is killed and the next one loads the latest snapshot.
Restart ==
    LET indexes == {f.index : f \in files}
        last == LastSnapshot(indexes)
    IN  /\ "kill" \in faults /\ kills < MaxKills
        /\ (commit_pc # "create" /\ receiving = 0) \/ "torn" \in faults
        /\ committed_task # 0 \/ Agree(Len(log)) \/ "unrecorded" \in faults
        /\ kills' = kills + 1
        /\ snapshots' = indexes
        /\ store' = Parse(EmptyStore, ObjectsOf(last))
        /\ last_committed_idx' = last
        /\ last_log_index' = LastLogIndex
        /\ batch_start_index' = last + 1
        /\ phase' = "replay" /\ main_pc' = "check" /\ loader_pc' = "load" /\ log_queue' = <<>>
        /\ committed_queue' = <<>> /\ task_queue' = <<>>
        /\ commit_pc' = "commit" /\ receiving' = 0 /\ next_object' = 1
        /\ UNCHANGED <<raftVars, sm_commit_index, diskVars, faults>>

\* The loader: [ batch_start_index, batch_end_index ) is pushed, then
\* batch_start_index is moved.
NextBatch ==
    LET end == batch_start_index + BatchSize
    IN  IF end > last_log_index + 1 THEN last_log_index + 1 ELSE end

(* Mutant of LoadBatch: the queue is not bounded. *)
MutantLoadUnbounded ==
    /\ phase = "replay" /\ loader_pc = "load"
    /\ batch_start_index < last_log_index
    /\ log_queue' = Append(log_queue, [start |-> batch_start_index, end |-> NextBatch])
    /\ loader_pc' = "move"
    /\ UNCHANGED <<raftVars, storeVars, commitVars, snapVars, diskVars, last_log_index,
                   batch_start_index, main_pc, runVars>>

LoadBatch ==
    /\ phase = "replay" /\ loader_pc = "load"
    /\ batch_start_index < last_log_index
    /\ Len(log_queue) < QueueLimit
    /\ log_queue' = Append(log_queue, [start |-> batch_start_index, end |-> NextBatch])
    /\ loader_pc' = "move"
    /\ UNCHANGED <<raftVars, storeVars, commitVars, snapVars, diskVars, last_log_index,
                   batch_start_index, main_pc, runVars>>

MoveStart ==
    /\ phase = "replay" /\ loader_pc = "move"
    /\ batch_start_index' = NextBatch
    /\ loader_pc' = "load"
    /\ UNCHANGED <<raftVars, storeVars, commitVars, snapVars, diskVars, last_log_index,
                   log_queue, main_pc, runVars>>

\* The condition of the outer loop.  The loader may have pushed a batch, which has
\* been replayed already, and not yet moved batch_start_index behind it.
CheckReplay ==
    /\ phase = "replay" /\ main_pc = "check"
    /\ main_pc' = IF log_queue # <<>> \/ batch_start_index < last_log_index
                  THEN "wait" ELSE "done"
    /\ UNCHANGED <<raftVars, storeVars, commitVars, snapVars, diskVars, last_log_index,
                   batch_start_index, log_queue, loader_pc, runVars>>

(* Mutant of StopReplay: a last entry on its own is waited for. *)
MutantAwaitLast ==
    /\ phase = "replay" /\ main_pc = "wait" /\ log_queue = <<>>
    /\ batch_start_index = last_log_index + 1
    /\ main_pc' = "done"
    /\ UNCHANGED <<raftVars, storeVars, commitVars, snapVars, diskVars, last_log_index,
                   batch_start_index, log_queue, loader_pc, runVars>>

\* "log vector is null": the last entry on its own is left to raft.
StopReplay ==
    /\ phase = "replay" /\ main_pc = "wait" /\ log_queue = <<>>
    /\ batch_start_index = last_log_index
    /\ main_pc' = "done"
    /\ UNCHANGED <<raftVars, storeVars, commitVars, snapVars, diskVars, last_log_index,
                   batch_start_index, log_queue, loader_pc, runVars>>

\* A batch is replayed.
ReplayBatch ==
    LET batch == Head(log_queue)
    IN  /\ phase = "replay" /\ main_pc = "wait" /\ log_queue # <<>>
        /\ store' = Apply(store, log, batch.start - 1, batch.end - 1, {})
        /\ last_committed_idx' = batch.end - 1
        /\ log_queue' = Tail(log_queue)
        /\ main_pc' = "check"
        /\ UNCHANGED <<raftVars, commitVars, snapVars, diskVars, last_log_index,
                       batch_start_index, loader_pc, runVars>>

\* The loader has ended; raft goes on behind last_committed_idx.
Finish ==
    /\ phase = "replay" /\ main_pc = "done"
    /\ loader_pc = "load" /\ batch_start_index >= last_log_index
    /\ phase' = "up"
    /\ sm_commit_index' = last_committed_idx
    /\ IF Len(log) + 1 <= last_committed_idx THEN CompactTo(last_committed_idx)
       ELSE UNCHANGED <<log, log_start>>
    /\ UNCHANGED <<chosen, storeVars, committed_queue, task_queue, commit_pc, snapVars,
                   diskVars, replayVars, kills, faults>>

-----------------------------------------------------------------------------
Next ==
    \/ \E e \in Entries : Choose(e) \/ Replicate(e)
    \/ Commit \/ ApplyRequest \/ WaitCommitQueue \/ CreateObject \/ WriteCommitted
    \/ \E i \in 1 .. MaxLog : ReceiveSnapshot(i)
    \/ SaveObject
    \/ Restart
    \/ LoadBatch \/ MoveStart \/ CheckReplay \/ StopReplay \/ ReplayBatch \/ Finish

Spec == Init /\ [][Next]_vars

\* The leader goes on sending what the cluster has chosen; every thread loops.
FairSpec ==
    /\ Spec
    /\ WF_vars(/\ Len(log) <= Len(chosen) /\ ~Agree(Len(chosen))
               /\ \E e \in Entries : Replicate(e))
    /\ WF_vars(Commit) /\ WF_vars(ApplyRequest) /\ WF_vars(WaitCommitQueue)
    /\ WF_vars(CreateObject) /\ WF_vars(WriteCommitted) /\ WF_vars(SaveObject)
    /\ WF_vars(LoadBatch) /\ WF_vars(MoveStart)
    /\ WF_vars(CheckReplay) /\ WF_vars(StopReplay) /\ WF_vars(ReplayBatch) /\ WF_vars(Finish)

-----------------------------------------------------------------------------
(* Properties *)

\* The state keeps its types.
TypeOK ==
    /\ chosen \in Seq(Entries) /\ log \in Seq(Entries)
    /\ log_start \in 1 .. MaxLog + 1
    /\ sm_commit_index \in 0 .. MaxLog /\ last_committed_idx \in 0 .. MaxLog
    /\ store.zxid \in Nat /\ store.session_id_counter \in Nat /\ store.sessions \subseteq Nat
    /\ committed_queue \in Seq(1 .. MaxLog) /\ task_queue \in Seq(1 .. MaxLog)
    /\ commit_pc \in {"commit", "wait", "create"}
    /\ snapshots \subseteq 1 .. MaxLog
    /\ receiving \in 0 .. MaxLog /\ next_object \in Objects
    /\ committed_task \in 0 .. MaxLog
    /\ \A f \in files : f.index \in 1 .. MaxLog /\ f.object \in Objects
    /\ phase \in {"replay", "up"}
    /\ last_log_index \in 0 .. MaxLog /\ batch_start_index \in 1 .. MaxLog + 1
    /\ Len(log_queue) <= QueueLimit
    /\ main_pc \in {"check", "wait", "done"} /\ loader_pc \in {"load", "move"}
    /\ kills \in 0 .. MaxKills

Least(a, b) == IF a < b THEN a ELSE b

\* How far this server has come.
Upto == IF phase = "up" THEN sm_commit_index ELSE last_committed_idx

\* The store is what the cluster's entries make of it: each of the first Upto
\* chosen entries has had its effect once and in order, except the requests that
\* still wait in the committed queue, which sessions may overtake.  Nothing else
\* has, such as the end of the log, which another leader may overwrite.  It holds
\* through snapshots, kills, replay and what raft commits again afterwards.
StoreAgrees ==
    LET waiting == {committed_queue[k] : k \in DOMAIN committed_queue}
    IN  store = Apply(EmptyStore, chosen, 0, Least(Upto, Len(chosen)), waiting)

\* A snapshot that a restart would load holds the effects of the chosen entries
\* up to its index and of no other, and all its objects are there.
SnapshotsExact ==
    \A i \in snapshots \ {receiving} :
        ObjectsOf(i) = {File(i, Reference(i), k) : k \in Objects}

\* Whenever the process is killed, snapshot and log together hold every entry: no
\* entry was compacted that the latest snapshot on disk does not cover, and the
\* loader reads none that is gone.
Rebuildable ==
    /\ log_start <= LastSnapshot({f.index : f \in files}) + 1
    /\ phase = "replay" => \A k \in DOMAIN log_queue : log_queue[k].start >= log_start

\* The replayer waits for a batch that will not come: the loader has moved
\* batch_start_index beyond the last entry while it was on its way to wait.
ReplayerStuck ==
    /\ phase = "replay" /\ main_pc = "wait" /\ log_queue = <<>>
    /\ batch_start_index > last_log_index

\* When the cluster has nothing more to commit, which the bound on the log sees to,
\* this server applies all that was chosen, also when a snapshot had to wait for
\* the queue, the process was killed or the end of its log was overwritten, unless
\* the replayer is stuck: nothing else keeps the constructor from returning or the
\* threads of a server that is up from going on.
CatchesUp ==
    []<>(\/ phase = "up" /\ sm_commit_index = Len(chosen) /\ committed_queue = <<>>
         \/ ReplayerStuck)

\* A server that was killed and started again comes up: the constructor returns.
ReplayEnds == phase = "replay" ~> phase = "up"
=============================================================================
