--------------------------- MODULE MCStateMachine ---------------------------
(* Instances of StateMachine for TLC. *)
EXTENDS StateMachine

CONSTANT p                  \* a path

\* The first session creates an ephemeral node, writes it and is closed.
const_Requests ==
    {[op |-> o, session |-> 1, path |-> p] : o \in {"create", "set", "close"}}

\* The process is killed, and as a new server it may be sent a snapshot.
const_Faults == {{"kill", "receive"}}

\* The process is killed.
const_Kill == {{"kill"}}

\* A server that has fallen behind is sent a snapshot.
const_Behind == {{"receive", "behind"}}
=============================================================================
