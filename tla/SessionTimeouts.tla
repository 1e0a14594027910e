--------------------------- MODULE SessionTimeouts ---------------------------
(***************************************************************************)
(* What session expiry promises, without buckets, messages or a log: every *)
(* server keeps one deadline per session.  A server that hears of a session *)
(* moves its deadline to a timeout after now, at most Interval late; the    *)
(* leader may be told other deadlines by followers; and the sessions that   *)
(* the leader condemns are exactly those whose deadline has passed.         *)
(* SessionExpiry implements this.                                           *)
(***************************************************************************)
EXTENDS Naturals, Functions

CONSTANTS Servers, Sessions,
          Timeout,          \* [Sessions -> Nat]
          Interval          \* the most a deadline is rounded up

VARIABLES clock,
          leader,
          expiry,           \* per server: session -> deadline
          closing           \* sessions that the leader has condemned

vars == <<clock, leader, expiry, closing>>

Deadlines(s) == clock + Timeout[s] .. clock + Timeout[s] + Interval

Init ==
    /\ clock = 0
    /\ leader \in Servers
    /\ expiry = [srv \in Servers |-> [s \in {} |-> 0]]
    /\ closing = {}

Others(srv) == \A x \in Servers \ {srv} : expiry'[x] = expiry[x]

Tick == clock' = clock + 1 /\ UNCHANGED <<leader, expiry, closing>>

\* A server hears of a session.
Hear(srv, s) ==
    /\ DOMAIN expiry'[srv] = DOMAIN expiry[srv] \cup {s}
    /\ expiry'[srv][s] \in Deadlines(s)
    /\ Restrict(expiry'[srv], DOMAIN expiry[srv] \ {s})
         = Restrict(expiry[srv], DOMAIN expiry[srv] \ {s})
    /\ Others(srv)
    /\ UNCHANGED <<clock, leader, closing>>

\* A server forgets a session.
Forget(srv, s) ==
    /\ expiry' = [expiry EXCEPT ![srv] = Restrict(@, DOMAIN @ \ {s})]
    /\ UNCHANGED <<clock, leader, closing>>

\* A server takes over deadlines of a message, however old: which ones is left open,
\* but none is later than one that would be set now.
TakeOver(srv, ss) ==
    /\ DOMAIN expiry'[srv] = DOMAIN expiry[srv] \cup ss
    /\ \A s \in ss : expiry'[srv][s] <= clock + Timeout[s] + Interval
    /\ \A s \in DOMAIN expiry[srv] \ ss : expiry'[srv][s] = expiry[srv][s]
    /\ Others(srv)
    /\ UNCHANGED <<clock, leader, closing>>

\* Exactly the sessions whose deadline has passed are condemned.
Condemn ==
    /\ closing' = closing \cup {s \in DOMAIN expiry[leader] : expiry[leader][s] <= clock}
    /\ UNCHANGED <<clock, leader, expiry>>

\* A condemned session is handed to raft, or forgotten with the leader.
Release ==
    /\ closing' \subseteq closing
    /\ leader' \in Servers
    /\ UNCHANGED <<clock, expiry>>

\* A server starts again: it hears of the sessions in its snapshot.
Load(srv, ss) ==
    /\ DOMAIN expiry'[srv] = ss
    /\ \A s \in ss : expiry'[srv][s] \in Deadlines(s)
    /\ Others(srv)
    /\ UNCHANGED <<clock, leader, closing>>

Next ==
    \/ Tick \/ Condemn \/ Release
    \/ \E srv \in Servers, s \in Sessions : Hear(srv, s) \/ Forget(srv, s)
    \/ \E srv \in Servers, ss \in SUBSET Sessions : TakeOver(srv, ss) \/ Load(srv, ss)

Spec == Init /\ [][Next]_vars
=============================================================================
