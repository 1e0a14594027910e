------------------------------ MODULE RaftLog ------------------------------
(***************************************************************************)
(* What raft is promised by its log store (the interface nuraft::log_store, *)
(* which NuRaftFileLogStore implements): a sequence of entries with         *)
(* consecutive indexes from start on.  Entries are added at the end, an     *)
(* entry is overwritten together with everything behind it, entries that a  *)
(* snapshot covers may be compacted, and a loss of power may take a suffix. *)
(* There are no segments, files or caches here; LogStore implements this    *)
(* with them.                                                               *)
(***************************************************************************)
EXTENDS Naturals, Sequences, SequencesExt

CONSTANT Entries            \* log entries; what is in them is of no concern

VARIABLES start,            \* start_index(): the first index of the log
          log,              \* the entries from start on
          snapshot          \* the last index that the latest snapshot covers

vars == <<start, log, snapshot>>

\* next_slot(): the index of the entry that is appended next.
NextSlot == start + Len(log)

\* The entries below index i, and those from i on.
Below(i) == SubSeq(log, 1, i - start)
From(i)  == SubSeq(log, i - start + 1, Len(log))

Init == start = 1 /\ log = <<>> /\ snapshot = 0

\* append and, with several entries, apply_pack: the log grows at its end.
Extend ==
    /\ Len(log') > Len(log)
    /\ SubSeq(log', 1, Len(log)) = log
    /\ \A k \in Len(log) + 1 .. Len(log') : log'[k] \in Entries
    /\ UNCHANGED <<start, snapshot>>

\* write_at: an entry is replaced, those behind it are gone and those before it
\* untouched.  Raft never overwrites what a snapshot covers.
Overwrite ==
    LET i == NextSlot' - 1
    IN  /\ UNCHANGED <<start, snapshot>>
        /\ i \in start .. NextSlot - 1
        /\ i > snapshot
        /\ Front(log') = Below(i)
        /\ Last(log') \in Entries

\* A snapshot is created or received; some of the entries it covers, and no
\* others, are compacted.  A received one may lie behind the end of the log.
Snapshot ==
    /\ snapshot' \in Nat
    /\ snapshot' > snapshot
    /\ \/ start' \in start .. NextSlot /\ start' <= snapshot' + 1 /\ log' = From(start')
       \/ snapshot' >= NextSlot /\ start' = snapshot' + 1 /\ log' = <<>>

\* Entries at the end are lost; which ones never are, LogStore's durable index
\* says.  If the log then ends before the snapshot it starts anew behind it.
LoseTail ==
    /\ \/ Len(log') <= Len(log) /\ log' = SubSeq(log, 1, Len(log')) /\ UNCHANGED start
       \/ start' = snapshot + 1 /\ log' = <<>>
    /\ UNCHANGED snapshot

Next == Extend \/ Overwrite \/ Snapshot \/ LoseTail

Spec == Init /\ [][Next]_vars
=============================================================================
