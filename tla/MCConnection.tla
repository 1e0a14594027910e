---------------------------- MODULE MCConnection ----------------------------
(* Instances of Connection for TLC. *)
EXTENDS Connection

CONSTANTS c1, c2

\* The client comes and goes, its session times out: a handler is deleted before
\* the next one is made.
Expiry == {"leave", "expire"}

\* The client comes back before the server knows that it was gone.
Takeover == {"takeover"}

\* The client stays.
Stays == {}

const_FaultSets == {Expiry, Takeover}
const_Stays == {Stays}

\* Two handlers at a time leave room for one response less.
const_MaxPending ==
    [f \in const_FaultSets |-> IF f = Takeover THEN 1 ELSE 2]
const_StaysPending == [f \in const_Stays |-> 2]
=============================================================================
