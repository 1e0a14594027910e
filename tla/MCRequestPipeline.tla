------------------------ MODULE MCRequestPipeline ---------------------------
(* Small instances of RequestPipeline.                                     *)
EXTENDS RequestPipeline

CONSTANTS s1, s2

Nothing == [leader |-> 0, timeout |-> 0, lost |-> 0, refuse |-> 0,
            remote |-> 0, disconnect |-> 0, reconnect |-> 0, clean |-> 0,
            auth |-> 0]

NoFailures == {Nothing}

(* The leader changes, appending and forwarding fail.                      *)
RaftFailures == {[Nothing EXCEPT !.leader = 1, !.timeout = 1, !.lost = 1, !.refuse = 1]}

(* Sessions come and go and expire; or a timeout hits an Auth; or a        *)
(* timeout hits a write of another server's session.                       *)
SessionChanges == {[Nothing EXCEPT !.disconnect = 1, !.reconnect = 1, !.clean = 1],
                   [Nothing EXCEPT !.auth = 1, !.timeout = 1],
                   [Nothing EXCEPT !.remote = 1, !.timeout = 1]}

(* Either of them.                                                         *)
AllFailures == RaftFailures \cup SessionChanges

(* The server loses the leadership and gets it back.                       *)
LeaderFlaps == {[Nothing EXCEPT !.leader = 2]}
=============================================================================
