------------------------------ MODULE LogStore ------------------------------
(***************************************************************************)
(* The raft log on disk: NuRaftFileLogStore with its cache of recent        *)
(* entries and its fsync thread (log_fsync_mode fsync_parallel, the         *)
(* default), on top of LogSegmentStore with its files.                      *)
(*                                                                          *)
(* The log is kept in closed segments and at most one open one; a full open *)
(* segment is closed and a new one created when the next entry is appended. *)
(* Overwriting truncates the log first, which may open a closed segment     *)
(* again; compaction removes whole segments.  Raft's calls are serialised   *)
(* by raft, so each is one step; the fsync thread runs beside them and has  *)
(* two, the system call and the publication of the index.                   *)
(*                                                                          *)
(* What happens to the process or is asked of it in a behaviour is drawn at *)
(* the start from FaultSets:                                                *)
(*   "kill"     the process is stopped and started; files keep everything   *)
(*   "power"    the machine stops; what was not synced may be gone          *)
(*   "roll"     a segment is closed before all of it has been synced        *)
(*   "rewrite"  raft overwrites entries that are durable                    *)
(*   "pack"     entries arrive in packs, as they do at a server that joins  *)
(*   "recached" packs arrive at a server that has entries in its cache      *)
(*   "one_left" a compaction leaves exactly one entry                       *)
(*   "empty"    the process is started again with an empty open segment     *)
(***************************************************************************)
EXTENDS Integers, Sequences, SequencesExt

CONSTANTS Entries,          \* log entries
          AppLogs,          \* those of type app_log
          NoEntry,          \* nullptr, and the dummy entry of an empty log
          SegmentSize,      \* entries after which a file exceeds max_log_size
          CacheSize,        \* MAX_VECTOR_SIZE
          Reserved,         \* reserved_log_items
          MaxIndex,         \* bound: the largest index written
          FaultSets

ASSUME LogStoreAssumption ==
    /\ AppLogs \subseteq Entries
    /\ NoEntry \notin Entries
    /\ SegmentSize \in Nat \ {0} /\ CacheSize \in Nat \ {0}
    /\ Reserved \in Nat /\ MaxIndex \in Nat

VARIABLES store,            \* LogSegmentStore: files and indexes
          log_queue,        \* LogEntryQueue: the cache, a ring
          last_log_entry,
          disk_last_durable_index,
          parallel_fsync_event,
          last_flush_index, \* of the fsync thread
          fsync_pc,         \* "wait" or "publish"
          snapshot,         \* index of the latest snapshot
          faults            \* drawn at the start, see above

fsyncVars == <<disk_last_durable_index, parallel_fsync_event, last_flush_index, fsync_pc>>
vars == <<store, log_queue, last_log_entry, fsyncVars, snapshot, faults>>

-----------------------------------------------------------------------------
(* NuRaftLogSegment.  synced is how many entries the last fdatasync of the  *)
(* file covered.  named says that the segment knows its create_time, which  *)
(* is part of the file name; a closed segment that was loaded does not.     *)

NewSegment(i) == [first |-> i, entries |-> <<>>, synced |-> 0, named |-> TRUE]
NoSegment == NewSegment(0)

LastIndex(s) == s.first + Len(s.entries) - 1

Holds(s, i) == s # NoSegment /\ s.first <= i /\ i <= LastIndex(s)

EntryIn(s, i) == IF Holds(s, i) THEN s.entries[i - s.first + 1] ELSE NoEntry

\* truncate: the file is cut behind index kept.
Truncate(s, kept) ==
    LET n == kept + 1 - s.first
    IN  [s EXCEPT !.entries = SubSeq(@, 1, n),
                  !.synced = IF n < @ THEN n ELSE @,
                  !.named = TRUE]

\* flush of the open segment.
Synced(s) == [s EXCEPT !.synced = Len(s.entries)]

Full(s) == Len(s.entries) >= SegmentSize

-----------------------------------------------------------------------------
(* LogSegmentStore, as functions of its state.                              *)

(* Mutant of OpenSegment: a full segment is written on. *)
MutantOpenNeverFull(st) ==
    IF st.open # NoSegment THEN st ELSE [st EXCEPT !.open = NewSegment(st.last + 1)]

\* openSegment: close a full segment without syncing it and create a file.
OpenSegment(st) ==
    IF st.open # NoSegment /\ ~Full(st.open) THEN st
    ELSE [st EXCEPT !.segments = IF st.open = NoSegment THEN @ ELSE Append(@, st.open),
                    !.open = NewSegment(st.last + 1)]

\* What a loop that erases the other segments leaves: those at the positions ks.
Remaining(segs, ks) ==
    LET upto[n \in 0 .. Len(segs)] ==
            IF n = 0 THEN <<>>
            ELSE IF n \in ks THEN Append(upto[n - 1], segs[n])
            ELSE upto[n - 1]
    IN  upto[Len(segs)]

AppendEntry(st, e) ==
    LET st1 == OpenSegment(st)
    IN  [st1 EXCEPT !.open.entries = Append(@, e),
                    !.last = LastIndex(st1.open) + 1]

\* truncateLog: segments behind kept are removed; the one that holds kept is cut
\* and, if it was closed, opened again.
TruncateLog(st, kept) ==
    LET segs == Remaining(st.segments,
                          {k \in DOMAIN st.segments : st.segments[k].first <= kept})
        cut == [st EXCEPT !.segments = segs,
                          !.open = IF @.first > kept THEN NoSegment ELSE @,
                          !.last = kept]
    IN  CASE st.last <= kept -> st
          [] st.last > kept /\ Holds(cut.open, kept) ->
                [cut EXCEPT !.open = Truncate(@, kept)]
          [] st.last > kept /\ segs # <<>> /\ kept < LastIndex(Last(segs)) ->
                [cut EXCEPT !.segments = Front(segs), !.open = Truncate(Last(segs), kept)]
          [] OTHER -> cut

\* writeAt
WriteEntryAt(st, i, e) ==
    LET st1 == TruncateLog(st, i - 1)
    IN  IF i = st1.last + 1 THEN AppendEntry(st1, e) ELSE st1

\* "reset last_log_index" of removeSegment.
ResetLast(last, first, to) == IF last = 0 \/ last - 1 < first THEN to ELSE last

(* Mutant of RemoveSegment: the segment that holds kept is removed too. *)
MutantRemoveHolder(st, kept) ==
    LET segs == Remaining(st.segments,
                          {k \in DOMAIN st.segments : st.segments[k].first >= kept})
        open == IF LastIndex(st.open) < kept THEN NoSegment ELSE st.open
        left == segs \o (IF open = NoSegment THEN <<>> ELSE <<open>>)
        early == left # <<>> /\ left[1].first < kept
        first == IF early THEN left[1].first ELSE kept
    IN  IF st.first >= kept THEN st
        ELSE [st EXCEPT !.segments = segs, !.open = open, !.first = first,
                        !.last = ResetLast(@, first, first - 1)]

\* removeSegment: segments that end before kept are removed; the first segment
\* left may begin before it.
RemoveSegment(st, kept) ==
    LET segs == Remaining(st.segments,
                          {k \in DOMAIN st.segments : LastIndex(st.segments[k]) >= kept})
        open == IF LastIndex(st.open) < kept THEN NoSegment ELSE st.open
        left == segs \o (IF open = NoSegment THEN <<>> ELSE <<open>>)
        early == left # <<>> /\ left[1].first < kept
        first == IF early THEN left[1].first ELSE kept
        last == IF early THEN ResetLast(st.last, first, LastIndex(left[1])) ELSE st.last
    IN  IF st.first >= kept THEN st
        ELSE [st EXCEPT !.segments = segs, !.open = open, !.first = first,
                        !.last = ResetLast(last, first, first - 1)]

\* getEntry
GetEntry(st, i) ==
    IF i < st.first \/ i > st.last THEN NoEntry
    ELSE IF st.open # NoSegment /\ i >= st.open.first THEN EntryIn(st.open, i)
    ELSE LET ks == {k \in DOMAIN st.segments : Holds(st.segments[k], i)}
         IN  IF ks = {} THEN NoEntry ELSE EntryIn(st.segments[CHOOSE k \in ks : TRUE], i)

\* init of the next process: listSegments, loadSegments, openSegment.  An open
\* segment without entries, in front of which there is none, is set aside; its
\* file stays.
Discards(st) == st.open # NoSegment /\ st.segments = <<>> /\ st.open.entries = <<>>

Load(st) ==
    LET segs == [k \in DOMAIN st.segments |-> [st.segments[k] EXCEPT !.named = FALSE]]
        first == IF st.open = NoSegment THEN 1
                 ELSE IF segs # <<>> THEN segs[1].first ELSE st.open.first
        last == IF st.open # NoSegment THEN LastIndex(st.open)
                ELSE IF segs # <<>> THEN LastIndex(Last(segs)) ELSE 0
    IN  OpenSegment([segments |-> segs,
                     open |-> IF Discards(st) THEN NoSegment ELSE st.open,
                     first |-> first,
                     last |-> IF last = 0 THEN first - 1 ELSE last,
                     set_aside |-> st.set_aside \/ Discards(st)])

-----------------------------------------------------------------------------
(* LogEntryQueue *)

EmptyQueue == [entry_vec |-> [k \in 0 .. CacheSize - 1 |-> NoEntry], max_index |-> 0]

PutEntry(q, i, e) ==
    [entry_vec |-> [q.entry_vec EXCEPT ![i % CacheSize] = e],
     max_index |-> IF i > q.max_index THEN i ELSE q.max_index]

(* Mutant of Cached: off by one, the slot has been taken by a later entry. *)
MutantCachedOffByOne(q, i) ==
    IF i > q.max_index \/ q.max_index - i > CacheSize THEN NoEntry
    ELSE q.entry_vec[i % CacheSize]

\* getEntry; batch_index is always max_index \div CacheSize, so the test of the
\* batch says no more than the test of the distance.
Cached(q, i) ==
    IF i > q.max_index \/ q.max_index - i >= CacheSize THEN NoEntry
    ELSE q.entry_vec[i % CacheSize]

\* entry_at: what raft reads.
EntryAt(i) ==
    IF Cached(log_queue, i) # NoEntry THEN Cached(log_queue, i) ELSE GetEntry(store, i)

-----------------------------------------------------------------------------
Init ==
    /\ store = [segments |-> <<>>, open |-> NewSegment(1), first |-> 1, last |-> 0,
                set_aside |-> FALSE]
    /\ log_queue = EmptyQueue
    /\ last_log_entry = NoEntry
    /\ disk_last_durable_index = 0
    /\ parallel_fsync_event = FALSE
    /\ last_flush_index = 0
    /\ fsync_pc = "wait"
    /\ snapshot = 0
    /\ faults \in FaultSets

\* Everything in closed segments has been synced.
ClosedSynced(st) ==
    \A k \in DOMAIN st.segments : st.segments[k].synced = Len(st.segments[k].entries)

\* append
AppendLog(e) ==
    /\ store.last < MaxIndex
    /\ store' = AppendEntry(store, e)
    /\ ClosedSynced(store') \/ "roll" \in faults
    /\ log_queue' = PutEntry(log_queue, store'.last, e)
    /\ last_log_entry' = e
    /\ parallel_fsync_event' = (parallel_fsync_event \/ e \notin AppLogs)
    /\ UNCHANGED <<disk_last_durable_index, last_flush_index, fsync_pc, snapshot, faults>>

\* A truncation that has to rename a closed segment which does not know its name
\* fails with an exception; such a call has no step here.
Renamable(kept) ==
    \A k \in DOMAIN store.segments :
        LET s == store.segments[k]
        IN  Holds(s, kept) /\ kept < LastIndex(s) => s.named

(* Mutant of WriteAt: the last entry is not replaced. *)
MutantWriteKeepsLast(i, e) ==
    /\ i > snapshot
    /\ Renamable(i - 1)
    /\ store' = WriteEntryAt(store, i, e)
    /\ ClosedSynced(store') \/ "roll" \in faults
    /\ log_queue' = IF store'.last = i THEN EmptyQueue ELSE log_queue
    /\ parallel_fsync_event' = (parallel_fsync_event \/ e \notin AppLogs)
    /\ UNCHANGED <<last_log_entry, disk_last_durable_index, last_flush_index, fsync_pc,
                   snapshot, faults>>

\* write_at; raft never overwrites what a snapshot covers.
WriteAt(i, e) ==
    /\ i > snapshot
    /\ Renamable(i - 1)
    /\ i <= disk_last_durable_index \/ (fsync_pc = "publish" /\ i <= last_flush_index)
          => "rewrite" \in faults
    /\ store' = WriteEntryAt(store, i, e)
    /\ ClosedSynced(store') \/ "roll" \in faults
    /\ log_queue' = IF store'.last = i THEN EmptyQueue ELSE log_queue
    /\ last_log_entry' = e
    /\ parallel_fsync_event' = (parallel_fsync_event \/ e \notin AppLogs)
    /\ UNCHANGED <<disk_last_durable_index, last_flush_index, fsync_pc, snapshot, faults>>

\* end_of_append_batch
EndOfAppendBatch ==
    /\ parallel_fsync_event' = TRUE
    /\ UNCHANGED <<store, log_queue, last_log_entry, disk_last_durable_index,
                   last_flush_index, fsync_pc, snapshot, faults>>

\* apply_pack of two entries behind the last one.
ApplyPack(e, f) ==
    /\ "pack" \in faults
    /\ log_queue = EmptyQueue \/ "recached" \in faults
    /\ store.last + 1 < MaxIndex
    /\ LET st == WriteEntryAt(store, store.last + 1, e)
       IN  store' = WriteEntryAt(st, st.last + 1, f)
    /\ ClosedSynced(store') \/ "roll" \in faults
    /\ parallel_fsync_event' = TRUE
    /\ UNCHANGED <<log_queue, last_log_entry, disk_last_durable_index,
                   last_flush_index, fsync_pc, snapshot, faults>>

(* Mutant of Fsync: the index is taken and the file not synced. *)
MutantFsyncNothing ==
    /\ fsync_pc = "wait" /\ parallel_fsync_event
    /\ parallel_fsync_event' = FALSE
    /\ last_flush_index' = IF store.open = NoSegment THEN 0 ELSE LastIndex(store.open)
    /\ fsync_pc' = IF last_flush_index' = 0 THEN "wait" ELSE "publish"
    /\ UNCHANGED <<store, log_queue, last_log_entry, disk_last_durable_index, snapshot, faults>>

\* fsyncThread: flush.
Fsync ==
    /\ fsync_pc = "wait" /\ parallel_fsync_event
    /\ parallel_fsync_event' = FALSE
    /\ last_flush_index' = IF store.open = NoSegment THEN 0 ELSE LastIndex(store.open)
    /\ store' = IF store.open = NoSegment THEN store ELSE [store EXCEPT !.open = Synced(@)]
    /\ fsync_pc' = IF last_flush_index' = 0 THEN "wait" ELSE "publish"
    /\ UNCHANGED <<log_queue, last_log_entry, disk_last_durable_index, snapshot, faults>>

(* Mutant of Publish: an event set during the sync is reset. *)
MutantPublishResets ==
    /\ fsync_pc = "publish"
    /\ disk_last_durable_index' = last_flush_index
    /\ fsync_pc' = "wait"
    /\ parallel_fsync_event' = FALSE
    /\ UNCHANGED <<store, log_queue, last_log_entry, last_flush_index, snapshot, faults>>

\* fsyncThread: the index is stored and raft is told.
Publish ==
    /\ fsync_pc = "publish"
    /\ disk_last_durable_index' = last_flush_index
    /\ fsync_pc' = "wait"
    /\ UNCHANGED <<store, log_queue, last_log_entry, parallel_fsync_event,
                   last_flush_index, snapshot, faults>>

\* compact
LeavesOne(st) == st.open # NoSegment /\ st.first = LastIndex(st.open)

CompactLog(i) ==
    /\ store' = RemoveSegment(store, i + 1)
    /\ store' # store /\ LeavesOne(store') => "one_left" \in faults
    /\ log_queue' = EmptyQueue
    /\ UNCHANGED <<last_log_entry, fsyncVars, faults>>

\* Raft has created a snapshot up to i and compacts what it need not reserve.
CreateSnapshot(i) ==
    /\ i > snapshot /\ i <= store.last
    /\ snapshot' = i
    /\ IF i > Reserved THEN CompactLog(i - Reserved)
       ELSE UNCHANGED <<store, log_queue, last_log_entry, fsyncVars, faults>>

\* A snapshot is received from the leader, possibly ahead of the log.
ReceiveSnapshot(i) == i > snapshot /\ snapshot' = i /\ CompactLog(i)

\* The next process: the log is loaded and, when the log ends before the latest
\* snapshot, compacted up to it by the state machine's constructor.
Start(st) ==
    LET st1 == Load(st)
    IN  /\ ~st.set_aside
        /\ Discards(st) => "empty" \in faults
        /\ store' = IF st1.last + 1 <= snapshot THEN RemoveSegment(st1, snapshot + 1) ELSE st1
        /\ log_queue' = EmptyQueue
        /\ last_log_entry' = IF st1.last < 1 THEN NoEntry ELSE GetEntry(st1, st1.last)
        /\ disk_last_durable_index' = st1.last
        /\ parallel_fsync_event' = FALSE
        /\ last_flush_index' = 0
        /\ fsync_pc' = "wait"
        /\ UNCHANGED <<snapshot, faults>>

Restart == "kill" \in faults /\ Start(store)

\* What was written to the open segment and not synced may be gone.  A closed
\* segment that was not synced would be found damaged and is left out.
PowerLoss ==
    /\ "power" \in faults
    /\ ClosedSynced(store)
    /\ IF store.open = NoSegment THEN Start(store)
       ELSE \E n \in store.open.synced .. Len(store.open.entries) :
              Start([store EXCEPT !.open.entries = SubSeq(@, 1, n), !.open.synced = n])

Next ==
    \/ \E e \in Entries : AppendLog(e)
    \/ \E i \in store.first .. store.last, e \in Entries : WriteAt(i, e)
    \/ EndOfAppendBatch
    \/ \E e, f \in Entries : ApplyPack(e, f)
    \/ Fsync
    \/ Publish
    \/ \E i \in 1 .. MaxIndex : CreateSnapshot(i) \/ ReceiveSnapshot(i)
    \/ Restart
    \/ PowerLoss

Spec == Init /\ [][Next]_vars

\* The fsync thread loops until the store is shut down.
FairSpec == Spec /\ WF_vars(Fsync) /\ WF_vars(Publish)

-----------------------------------------------------------------------------
(* Properties *)

Segments == {NewSegment(0)} \cup
    [first : 1 .. MaxIndex + 1, entries : UNION {[1 .. n -> Entries] : n \in 0 .. SegmentSize},
     synced : 0 .. SegmentSize, named : BOOLEAN]

\* The state keeps its types: segments are files of at most SegmentSize entries.
TypeOK ==
    /\ \A k \in DOMAIN store.segments : store.segments[k] \in Segments
    /\ store.open \in Segments
    /\ store.first \in 1 .. MaxIndex + 1
    /\ store.last \in 0 .. MaxIndex
    /\ store.set_aside \in BOOLEAN
    /\ log_queue.entry_vec \in [0 .. CacheSize - 1 -> Entries \cup {NoEntry}]
    /\ log_queue.max_index \in 0 .. MaxIndex
    /\ last_log_entry \in Entries \cup {NoEntry}
    /\ disk_last_durable_index \in 0 .. MaxIndex
    /\ parallel_fsync_event \in BOOLEAN
    /\ last_flush_index \in 0 .. MaxIndex
    /\ fsync_pc \in {"wait", "publish"}
    /\ snapshot \in 0 .. MaxIndex

\* The files of the log, in order.
Files == store.segments \o (IF store.open = NoSegment THEN <<>> ELSE <<store.open>>)

\* The segments cover first_log_index .. last_log_index without hole or overlap,
\* whatever was truncated, compacted, loaded or closed: only then does getSegment
\* find the right file and appendEntry of the open segment the right index.
SegmentsContiguous ==
    /\ \A k \in 1 .. Len(Files) - 1 : Files[k + 1].first = LastIndex(Files[k]) + 1
    /\ \A k \in DOMAIN store.segments : store.segments[k].entries # <<>>
    /\ Files # <<>> => /\ Files[1].first = store.first
                       /\ LastIndex(Files[Len(Files)]) = store.last
    /\ Files = <<>> => store.last = store.first - 1

\* The log as raft reads it, through the cache.
ReadLog == [k \in 1 .. store.last + 1 - store.first |-> EntryAt(store.first + k - 1)]

RL == INSTANCE RaftLog WITH start <- store.first, log <- ReadLog

\* Through segments, files, truncation, compaction, cache and restart raft sees
\* the log that log_store promises: what was appended, until it is overwritten,
\* covered by a snapshot or lost with the power.
ImplementsLog == RL!Spec

OnDisk(i) == \E k \in DOMAIN Files : Holds(Files[k], i) /\ i - Files[k].first < Files[k].synced

\* No index up to last_durable_index() can be lost with the power: raft counts
\* this server's vote for these entries ("In this mode data is safety").
DurableOnDisk ==
    "power" \in faults =>
        \A i \in store.first .. store.last : i <= disk_last_durable_index => OnDisk(i)

\* last_entry(), whose term raft compares in elections, is the entry at the end
\* of the log, also after truncations, compactions and restarts.  (apply_pack
\* does not set it.)
LastEntryFresh ==
    "pack" \notin faults /\ store.first <= store.last => last_log_entry = EntryAt(store.last)

\* The fsync thread misses no batch: once a batch has ended, every index in the
\* open segment becomes durable unless it is truncated, compacted or lost before.
DurableCatchesUp ==
    \A i \in 1 .. MaxIndex :
        (parallel_fsync_event /\ Holds(store.open, i))
            ~> (disk_last_durable_index >= i \/ i \notin store.first .. store.last)
=============================================================================
