---------------------------- MODULE SessionExpiry ----------------------------
(***************************************************************************)
(* Expiry of sessions: SessionExpiryQueue in the store of every server, the *)
(* follower's RequestForwarder that tells the leader about its sessions,    *)
(* and the leader's session cleaner.                                        *)
(*                                                                          *)
(* A request of a session moves the session's deadline on the servers that  *)
(* apply it: all of them for a write, only the session's own server for a   *)
(* heartbeat or a read.  Every SyncPeriod a follower sends the deadlines of *)
(* its sessions to the leader, which takes them as they come.  The periods  *)
(* and the delay of messages are real: time does not pass while a message,  *)
(* a follower or a client is late.  The servers' clocks agree (the code:    *)
(* "if keeper nodes time has large gap something will be wrong").           *)
(*                                                                          *)
(* What may happen in a behaviour is drawn at the start from FaultSets:     *)
(*   "two"       there is a second session                                  *)
(*   "move"      clients lose their connection and come back                *)
(*   "election"  another server becomes leader                              *)
(*   "lost"      messages of followers are lost with their connection       *)
(*   "restart"   a follower is stopped and started                          *)
(*   "half_open" a client moves to another server before the one it leaves  *)
(*               has noticed that its connection is broken                  *)
(*   "lag"       time passes while a follower has entries to apply, and a   *)
(*               client that comes back is registered before the update of  *)
(*               its session is applied there                               *)
(***************************************************************************)
EXTENDS Naturals, Sequences, SequencesExt, Functions

CONSTANTS Servers,
          MaxSessions,      \* bound: sessions that are opened
          FirstLeader,      \* the server that is leader at first
          NoServer,
          Timeout,          \* [Sessions -> Nat]: the negotiated timeouts
          Interval,         \* expiration_interval = dead_session_check_period_ms
          SyncPeriod,       \* session_sync_period_ms
          HeartbeatPeriod,  \* how often a connected client sends something
          MaxDelay,         \* bound: how long a message is under way
          MaxPending,       \* bound: entries committed and not applied
          MaxClock,         \* bound
          FaultSets

ASSUME SessionExpiryAssumption ==
    /\ FirstLeader \in Servers /\ NoServer \notin Servers
    /\ MaxSessions \in Nat
    /\ Timeout \in [1 .. MaxSessions -> Nat]
    /\ Interval \in Nat \ {0} /\ SyncPeriod \in Nat \ {0}
    /\ HeartbeatPeriod \in Nat /\ MaxDelay \in Nat /\ MaxPending \in Nat /\ MaxClock \in Nat

VARIABLES clock,
          leader,
          session_expiry_queue, \* per server, see below
          session_and_timeout,  \* per server: the sessions it knows
          local,                \* per server: session_to_response_callback
          pending,              \* per server: committed, not applied
          session_id_counter,   \* the next new session
          handshake,            \* per session: the handshake a client is in
          closing,              \* the cleaner's Close requests
          last_sync,            \* per server: session_sync_time_watch
          net,                  \* deadlines under way to a server
          silent,               \* ticks since a connected client was last heard
          faults

Sessions == 1 .. MaxSessions

vars == <<clock, leader, session_expiry_queue, session_and_timeout, local, pending,
          session_id_counter, handshake, closing, last_sync, net, silent, faults>>

-----------------------------------------------------------------------------
(* SessionExpiryQueue *)

EmptyQueue == [session_to_expiration_time |-> [s \in {} |-> 0],
               expiry_to_sessions |-> [t \in {} |-> {}]]

Least(a, b) == IF a < b THEN a ELSE b

Without(f, x) == Restrict(f, DOMAIN f \ {x})
With(f, x, v) == [y \in DOMAIN f \cup {x} |-> IF y = x THEN v ELSE f[y]]

Known(q, s) == s \in DOMAIN q.session_to_expiration_time

(* Mutant of RoundToNextInterval: one interval too far. *)
MutantRoundTooFar(t) == ((t + Interval) \div Interval + 1) * Interval

RoundToNextInterval(t) == (t \div Interval + 1) * Interval

(* Mutant of Leave: an empty bucket stays. *)
MutantLeaveEmpty(buckets, t, s) == [buckets EXCEPT ![t] = @ \ {s}]

\* A session leaves its bucket, and an empty bucket the map.
Leave(buckets, t, s) ==
    IF buckets[t] = {s} THEN Without(buckets, t) ELSE [buckets EXCEPT ![t] = @ \ {s}]

\* A session enters a bucket, which is created if need be.
Enter(buckets, t, s) ==
    With(buckets, t, IF t \in DOMAIN buckets THEN buckets[t] \cup {s} ELSE {s})

\* remove
RemoveSession(q, s) ==
    IF ~Known(q, s) THEN q
    ELSE [session_to_expiration_time |-> Without(q.session_to_expiration_time, s),
          expiry_to_sessions |->
              Leave(q.expiry_to_sessions, q.session_to_expiration_time[s], s)]

\* setSessionExpirationTime
SetSessionExpirationTime(q, s, t) ==
    LET entered == Enter(q.expiry_to_sessions, t, s)
    IN  IF Known(q, s) /\ q.session_to_expiration_time[s] = t THEN q
        ELSE [session_to_expiration_time |-> With(q.session_to_expiration_time, s, t),
              expiry_to_sessions |->
                  IF Known(q, s) THEN Leave(entered, q.session_to_expiration_time[s], s)
                  ELSE entered]

\* The loops that set the deadlines of several sessions, one after the other.
SetEach(q, deadlines) ==
    LET set[n \in 0 .. MaxSessions] ==
            IF n = 0 THEN q
            ELSE IF n \in DOMAIN deadlines
                 THEN SetSessionExpirationTime(set[n - 1], n, deadlines[n])
                 ELSE set[n - 1]
    IN  set[MaxSessions]

\* addNewSessionOrUpdate
AddNewSessionOrUpdate(q, s) ==
    SetSessionExpirationTime(q, s, RoundToNextInterval(clock + Timeout[s]))

\* getExpiredSessions: the buckets are looked at in order of time.
GetExpiredSessions(q) ==
    UNION {q.expiry_to_sessions[t] : t \in {u \in DOMAIN q.expiry_to_sessions : u <= clock}}

NoHandshake == [srv |-> NoServer, op |-> "none", granted |-> FALSE]

-----------------------------------------------------------------------------
Init ==
    /\ clock = 0
    /\ leader = FirstLeader
    /\ session_expiry_queue = [srv \in Servers |-> EmptyQueue]
    /\ session_and_timeout = [srv \in Servers |-> {}]
    /\ local = [srv \in Servers |-> {}]
    /\ pending = [srv \in Servers |-> <<>>]
    /\ session_id_counter = 1
    /\ handshake = [s \in Sessions |-> NoHandshake]
    /\ closing = {}
    /\ last_sync = [srv \in Servers |-> 0]
    /\ net = {}
    /\ silent = [s \in Sessions |-> 0]
    /\ faults \in FaultSets

\* Raft commits an entry on all servers; each applies it in its own time.
Commit(op, s) ==
    /\ \A srv \in Servers : Len(pending[srv]) < MaxPending
    /\ pending' = [srv \in Servers |-> Append(pending[srv], [op |-> op, session |-> s])]

(* Handshakes (KeeperServer::getSessionID and updateSessionTimeout).  raft    *)
(* returns what the leader's commit has returned; the server then waits until *)
(* it has caught up itself, or gives up.                                       *)

\* A client asks for a new session.
AskSession(srv) ==
    LET s == session_id_counter
    IN  /\ s \in Sessions
        /\ s = 1 \/ "two" \in faults
        /\ Commit("new", s)
        /\ session_id_counter' = s + 1
        /\ handshake' = [handshake EXCEPT ![s] = [srv |-> srv, op |-> "new", granted |-> FALSE]]
        /\ UNCHANGED <<clock, leader, session_expiry_queue, session_and_timeout, local,
                       closing, last_sync, net, silent, faults>>

\* A client comes back with its session, perhaps to another server.
AskUpdate(srv, s) ==
    /\ handshake[s].op = "none"
    /\ s \in session_and_timeout[srv]
    /\ "half_open" \in faults \/ \A x \in Servers : s \notin local[x]
    /\ Commit("update", s)
    /\ handshake' = [handshake EXCEPT ![s] = [srv |-> srv, op |-> "update", granted |-> FALSE]]
    /\ UNCHANGED <<clock, leader, session_expiry_queue, session_and_timeout, local,
                   session_id_counter, closing, last_sync, net, silent, faults>>

\* The server has caught up: a new session is there, a session that came back is
\* not dead.  The callback is registered.
CaughtUp(h, s) ==
    IF h.op = "new" THEN s \in session_and_timeout[h.srv]
    ELSE s \notin GetExpiredSessions(session_expiry_queue[h.srv])

UpdateOf(s) == [op |-> "update", session |-> s]

Register(s) ==
    LET h == handshake[s]
    IN  /\ h.granted /\ CaughtUp(h, s)
        /\ "lag" \in faults \/ h.op = "new" \/ ~Contains(pending[h.srv], UpdateOf(s))
        /\ local' = [local EXCEPT ![h.srv] = @ \cup {s}]
        /\ handshake' = [handshake EXCEPT ![s] = NoHandshake]
        /\ UNCHANGED <<clock, leader, session_expiry_queue, session_and_timeout, pending,
                       session_id_counter, closing, last_sync, net, silent, faults>>

\* Time out, can not allocate session.
GiveUp(s) ==
    /\ handshake[s].granted /\ ~CaughtUp(handshake[s], s)
    /\ handshake' = [handshake EXCEPT ![s] = NoHandshake]
    /\ UNCHANGED <<clock, leader, session_expiry_queue, session_and_timeout, local, pending,
                   session_id_counter, closing, last_sync, net, silent, faults>>

\* A connection is gone: finishSession.
Disconnect(srv, s) ==
    /\ "move" \in faults
    /\ s \in local[srv]
    /\ local' = [local EXCEPT ![srv] = @ \ {s}]
    /\ silent' = [silent EXCEPT ![s] = 0]
    /\ UNCHANGED <<clock, leader, session_expiry_queue, session_and_timeout, pending,
                   session_id_counter, closing, last_sync, net, handshake, faults>>

\* A heartbeat or a read is answered by the session's server alone.
Heartbeat(srv, s) ==
    /\ s \in local[srv] \cap session_and_timeout[srv]
    /\ session_expiry_queue' =
           [session_expiry_queue EXCEPT ![srv] = AddNewSessionOrUpdate(@, s)]
    /\ silent' = [silent EXCEPT ![s] = 0]
    /\ UNCHANGED <<clock, leader, session_and_timeout, local, pending,
                   session_id_counter, closing, last_sync, net, handshake, faults>>

\* A write or a Close of the client is committed.
Write(op, srv, s) ==
    /\ s \in local[srv]
    /\ Commit(op, s)
    /\ UNCHANGED <<clock, leader, session_expiry_queue, session_and_timeout, local,
                   session_id_counter, closing, last_sync, net, silent, handshake, faults>>

-----------------------------------------------------------------------------
(* Applying what is committed.  Entries about sessions are applied by raft's *)
(* commit thread, requests later by the request processor: the former may    *)
(* overtake the latter.                                                       *)

SessionOps == {"new", "update"}

FirstSessionOp(srv) ==
    SelectInSeq(pending[srv], LAMBDA e : e.op \in SessionOps)

\* commit of a new session or of an update of one; an update of a session that
\* is not there fails.
ApplySessionOp(srv) ==
    LET k == FirstSessionOp(srv)
        e == pending[srv][k]
    IN  /\ k > 0
        /\ pending' = [pending EXCEPT ![srv] = RemoveAt(@, k)]
        /\ session_and_timeout' =
               [session_and_timeout EXCEPT
                   ![srv] = IF e.op = "new" THEN @ \cup {e.session} ELSE @]
        /\ session_expiry_queue' =
               [session_expiry_queue EXCEPT
                   ![srv] = IF e.session \in session_and_timeout'[srv]
                            THEN AddNewSessionOrUpdate(@, e.session) ELSE @]
        /\ handshake' =
               IF srv # leader \/ handshake[e.session].op # e.op THEN handshake
               ELSE IF e.session \in session_and_timeout'[srv]
               THEN [handshake EXCEPT ![e.session].granted = TRUE]
               ELSE [handshake EXCEPT ![e.session] = NoHandshake]
        /\ UNCHANGED <<clock, leader, local, session_id_counter, closing, last_sync, net,
                       silent, faults>>

\* processRequest of a write: ignored if the session is gone.
ApplyWrite(srv) ==
    LET s == Head(pending[srv]).session
    IN  /\ pending[srv] # <<>> /\ Head(pending[srv]).op = "write"
        /\ pending' = [pending EXCEPT ![srv] = Tail(@)]
        /\ session_expiry_queue' =
               [session_expiry_queue EXCEPT
                   ![srv] = IF s \in session_and_timeout[srv]
                            THEN AddNewSessionOrUpdate(@, s) ELSE @]
        /\ silent' = [silent EXCEPT ![s] = IF s \in local[srv] THEN 0 ELSE @]
        /\ UNCHANGED <<clock, leader, session_and_timeout, local, session_id_counter,
                       closing, last_sync, net, handshake, faults>>

(* Mutant of ApplyClose: the expiry queue keeps the session. *)
MutantCloseKeepsDeadline(srv) ==
    LET s == Head(pending[srv]).session
    IN  /\ pending[srv] # <<>> /\ Head(pending[srv]).op = "close"
        /\ pending' = [pending EXCEPT ![srv] = Tail(@)]
        /\ session_and_timeout' = [session_and_timeout EXCEPT ![srv] = @ \ {s}]
        /\ local' = [local EXCEPT ![srv] = @ \ {s}]
        /\ UNCHANGED <<clock, leader, session_expiry_queue, session_id_counter, closing,
                       last_sync, net, silent, handshake, faults>>

\* processRequest of a Close, and the response that unregisters the callback.
ApplyClose(srv) ==
    LET s == Head(pending[srv]).session
    IN  /\ pending[srv] # <<>> /\ Head(pending[srv]).op = "close"
        /\ pending' = [pending EXCEPT ![srv] = Tail(@)]
        /\ session_expiry_queue' = [session_expiry_queue EXCEPT ![srv] = RemoveSession(@, s)]
        /\ session_and_timeout' = [session_and_timeout EXCEPT ![srv] = @ \ {s}]
        /\ local' = [local EXCEPT ![srv] = @ \ {s}]
        /\ UNCHANGED <<clock, leader, session_id_counter, closing, last_sync, net,
                       silent, handshake, faults>>

-----------------------------------------------------------------------------
(* The follower tells the leader, the leader cleans up. *)

(* Mutant of LocalDeadlines: the sessions of other servers are sent too. *)
MutantAllDeadlines(srv) == session_expiry_queue[srv].session_to_expiration_time

\* filterLocalSessions
LocalDeadlines(srv) ==
    Restrict(session_expiry_queue[srv].session_to_expiration_time,
             local[srv] \cap DOMAIN session_expiry_queue[srv].session_to_expiration_time)

(* Mutant of SendSessions: the watch is set to the end of the next period. *)
MutantSendSetsAhead(srv) ==
    /\ srv # leader
    /\ clock - last_sync[srv] >= SyncPeriod
    /\ last_sync' = [last_sync EXCEPT ![srv] = clock + SyncPeriod]
    /\ net' = net \cup {[to |-> leader, sent |-> clock, deadlines |-> LocalDeadlines(srv)]}
    /\ UNCHANGED <<clock, leader, session_expiry_queue, session_and_timeout, local, pending,
                   session_id_counter, closing, silent, handshake, faults>>

\* RequestForwarder::runSend, when the period has elapsed.
SendSessions(srv) ==
    /\ srv # leader
    /\ clock - last_sync[srv] >= SyncPeriod
    /\ last_sync' = [last_sync EXCEPT ![srv] = clock]
    /\ net' = IF LocalDeadlines(srv) = EmptyQueue.session_to_expiration_time THEN net
              ELSE net \cup {[to |-> leader, sent |-> clock, deadlines |-> LocalDeadlines(srv)]}
    /\ UNCHANGED <<clock, leader, session_expiry_queue, session_and_timeout, local, pending,
                   session_id_counter, closing, silent, handshake, faults>>

\* handleRemoteSession for every session in a message.
HandleRemoteSessions(q, deadlines) == SetEach(q, deadlines)

\* The messages of different runners use different connections and arrive in
\* any order.
ReceiveSessions(m) ==
    /\ session_expiry_queue' =
           [session_expiry_queue EXCEPT ![m.to] = HandleRemoteSessions(@, m.deadlines)]
    /\ net' = net \ {m}
    /\ UNCHANGED <<clock, leader, session_and_timeout, local, pending,
                   session_id_counter, closing, last_sync, silent, handshake, faults>>

\* A message is lost with its connection.
LoseSessions(m) ==
    /\ "lost" \in faults
    /\ net' = net \ {m}
    /\ UNCHANGED <<clock, leader, session_expiry_queue, session_and_timeout, local, pending,
                   session_id_counter, closing, last_sync, silent, handshake, faults>>

\* sessionCleanerTask: Close requests are pushed and local callbacks dropped.
CleanSessions ==
    LET dead == GetExpiredSessions(session_expiry_queue[leader])
    IN  /\ ~(dead \subseteq closing)
        /\ closing' = closing \cup dead
        /\ local' = [local EXCEPT ![leader] = @ \ dead]
        /\ UNCHANGED <<clock, leader, session_expiry_queue, session_and_timeout, pending,
                       session_id_counter, last_sync, net, silent, handshake, faults>>

\* A Close request of the cleaner reaches raft and is committed.
CommitClose(s) ==
    /\ s \in closing
    /\ Commit("close", s)
    /\ closing' = closing \ {s}
    /\ UNCHANGED <<clock, leader, session_expiry_queue, session_and_timeout, local,
                   session_id_counter, last_sync, net, silent, handshake, faults>>

-----------------------------------------------------------------------------
\* Another server becomes leader (bound: once); requests of the old one are lost,
\* and calls of raft that wait for a result fail.
Elect(srv) ==
    /\ "election" \in faults
    /\ leader = FirstLeader
    /\ srv # leader
    /\ leader' = srv
    /\ closing' = {}
    /\ handshake' = [s \in Sessions |-> IF handshake[s].granted THEN handshake[s]
                                        ELSE NoHandshake]
    /\ UNCHANGED <<clock, session_expiry_queue, session_and_timeout, local, pending,
                   session_id_counter, last_sync, net, silent, faults>>

\* A follower starts again and loads its sessions from the snapshot: addSessionID.
LoadSessions(ss) ==
    SetEach(EmptyQueue, [s \in ss |-> RoundToNextInterval(clock + Timeout[s])])

Restart(srv) ==
    /\ "restart" \in faults
    /\ srv # leader
    /\ session_expiry_queue' =
           [session_expiry_queue EXCEPT ![srv] = LoadSessions(session_and_timeout[srv])]
    /\ local' = [local EXCEPT ![srv] = {}]
    /\ handshake' = [s \in Sessions |-> IF handshake[s].srv = srv THEN NoHandshake
                                        ELSE handshake[s]]
    /\ UNCHANGED <<clock, leader, session_and_timeout, pending, session_id_counter,
                   closing, last_sync, net, silent, faults>>

\* A client that the server knows and that has been silent for as long as clients
\* ever are while they are connected.
Due(s) ==
    /\ silent[s] >= HeartbeatPeriod
    /\ \E srv \in Servers : s \in local[srv] \cap session_and_timeout[srv]

\* Time passes unless a message, a follower, a client or an entry is late.
Tick ==
    /\ clock < MaxClock
    /\ \A m \in net : clock - m.sent < MaxDelay
    /\ \A srv \in Servers \ {leader} : clock - last_sync[srv] < SyncPeriod
    /\ \A s \in Sessions : ~Due(s)
    /\ \/ "lag" \in faults
       \/ /\ \A srv \in Servers : pending[srv] = <<>>
          /\ \A s \in Sessions : ~handshake[s].granted
    /\ clock' = clock + 1
    /\ silent' = [s \in Sessions |-> IF \E srv \in Servers : s \in local[srv]
                                     THEN Least(silent[s] + 1, HeartbeatPeriod) ELSE 0]
    /\ UNCHANGED <<leader, session_expiry_queue, session_and_timeout, local, pending,
                   session_id_counter, closing, last_sync, net, handshake, faults>>

Next ==
    \/ \E s \in Sessions : Register(s) \/ GiveUp(s) \/ CommitClose(s)
    \/ \E srv \in Servers, s \in Sessions :
           \/ AskUpdate(srv, s)
           \/ Disconnect(srv, s)
           \/ Heartbeat(srv, s)
           \/ Write("write", srv, s)
           \/ Write("close", srv, s)
    \/ \E srv \in Servers :
           \/ AskSession(srv)
           \/ ApplySessionOp(srv)
           \/ ApplyWrite(srv)
           \/ ApplyClose(srv)
           \/ SendSessions(srv)
           \/ Elect(srv)
           \/ Restart(srv)
    \/ \E m \in net : ReceiveSessions(m) \/ LoseSessions(m)
    \/ CleanSessions
    \/ Tick

Spec == Init /\ [][Next]_vars

\* The cleaner and the threads that apply what is committed run as long as the
\* server does.  The queue of requests is served in order, so that a Close is not
\* overtaken for ever by writes: strong fairness.
FairSpec ==
    /\ Spec
    /\ WF_vars(CleanSessions)
    /\ \A s \in Sessions : SF_vars(CommitClose(s))
    /\ \A srv \in Servers : WF_vars(ApplySessionOp(srv) \/ ApplyWrite(srv) \/ ApplyClose(srv))

-----------------------------------------------------------------------------
(* Properties *)

Opened == 1 .. session_id_counter - 1

\* The state keeps its types.
TypeOK ==
    /\ clock \in 0 .. MaxClock
    /\ leader \in Servers
    /\ \A srv \in Servers :
        /\ DOMAIN session_expiry_queue[srv].session_to_expiration_time \subseteq Opened
        /\ session_and_timeout[srv] \subseteq Opened
        /\ local[srv] \subseteq Opened
        /\ \A k \in DOMAIN pending[srv] :
               pending[srv][k] \in [op : SessionOps \cup {"write", "close"}, session : Opened]
        /\ last_sync[srv] \in 0 .. clock
    /\ session_id_counter \in 1 .. MaxSessions + 1
    /\ closing \subseteq Opened
    /\ handshake \in [Sessions -> [srv : Servers \cup {NoServer},
                                   op : SessionOps \cup {"none"}, granted : BOOLEAN]]
    /\ silent \in [Sessions -> 0 .. HeartbeatPeriod]

\* The two maps of SessionExpiryQueue say the same, and no bucket is empty:
\* remove and setSessionExpirationTime dereference the iterator of a session's
\* bucket without looking whether there is one.
BucketsAgree ==
    \A srv \in Servers :
        LET q == session_expiry_queue[srv]
            times == q.session_to_expiration_time
        IN  /\ DOMAIN q.expiry_to_sessions = {times[s] : s \in DOMAIN times}
            /\ \A t \in DOMAIN q.expiry_to_sessions :
                   q.expiry_to_sessions[t] = {s \in DOMAIN times : times[s] = t}

ST == INSTANCE SessionTimeouts
        WITH expiry <- [srv \in Servers |->
                           session_expiry_queue[srv].session_to_expiration_time]

\* Through buckets, the log, messages and restarts the cleaner condemns exactly
\* the sessions whose deadline on the leader has passed, and a deadline is at no
\* time set later than a session that is heard of now would have it.  Who told a
\* server of a deadline, and how old it is, is left open here: what it may cost a
\* client is NoLiveExpired's subject.
ImplementsTimeouts == ST!Spec

\* The session of a client that is connected and sends its heartbeats in time is
\* not condemned, whatever the order in which followers' deadlines arrive, older
\* ones included, and whichever server the client moves to.  A timeout needs room
\* for a heartbeat and a synchronisation period and twice the delay: an older
\* deadline that arrives late moves the session back until the next one comes.
NoLiveExpired ==
    [][faults \cap {"election", "half_open", "lag", "lost"} = {} =>
         \A s \in closing' \ closing, srv \in Servers : s \notin local[srv]]_vars

\* A session that is dead on the leader is closed or heard of again: also one that
\* a late message has brought back after it was closed, and under a new leader.
DeadAreClosed ==
    \A s \in Sessions :
        (s \in GetExpiredSessions(session_expiry_queue[leader]))
            ~> (s \notin GetExpiredSessions(session_expiry_queue[leader]))
=============================================================================
