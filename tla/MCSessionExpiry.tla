--------------------------- MODULE MCSessionExpiry ---------------------------
(* Instances of SessionExpiry for TLC. *)
EXTENDS SessionExpiry

CONSTANTS n1, n2            \* servers

const_Servers  == {n1, n2}
const_Timeout  == [s \in Sessions |-> 4]

\* Two sessions whose clients stay where they are; or one whose client moves while
\* a follower restarts, the leader changes, followers lag or connections break.
const_Faults   == {{"two"}, {"move", "restart"}, {"move", "election"},
                   {"move", "lag", "lost"}, {"move", "half_open"}}
=============================================================================
