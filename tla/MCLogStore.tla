----------------------------- MODULE MCLogStore -----------------------------
(* Instances of LogStore for TLC. *)
EXTENDS LogStore

CONSTANTS a, c              \* entries: of type app_log, and of another type

const_Entries == {a, c}
const_AppLogs == {a}

\* Entries are rewritten, segments closed unsynced and the process killed; or
\* the power is lost; or entries arrive in packs.
const_Faults == {{"rewrite", "roll", "kill"}, {"power"}, {"pack", "roll"}}

\* The machine may lose its power with an unsynced segment behind the open one.
const_Unsynced == {{"power", "roll"}}
=============================================================================
