------------------------- MODULE SessionExpiryProofs -------------------------
(***************************************************************************)
(* Proofs about session expiry, for any servers, sessions, timeouts and    *)
(* periods and whatever faults a behaviour has.                            *)
(*                                                                         *)
(* The lemmas about SessionExpiryQueue say what each of its operations     *)
(* does to the map from sessions to deadlines, and that the buckets follow *)
(* it.  With them the whole system is seen as deadlines that move.         *)
(***************************************************************************)
EXTENDS SessionExpiry, IntervalInduction, SequenceTheorems, TLAPS

\* A map from sessions to deadlines.
IsDeadlines(f) == DOMAIN f \subseteq Sessions /\ f \in [DOMAIN f -> Nat]

\* The buckets of a queue are those of its deadlines, as in BucketsAgree.
Agrees(q) ==
    LET times == q.session_to_expiration_time
    IN  /\ DOMAIN q.expiry_to_sessions = {times[s] : s \in DOMAIN times}
        /\ \A t \in DOMAIN q.expiry_to_sessions :
               q.expiry_to_sessions[t] = {s \in DOMAIN times : times[s] = t}

GoodQueue(q) == IsDeadlines(q.session_to_expiration_time) /\ Agrees(q)

\* Deadlines f with those of g put over them.
Overlaid(f, g) ==
    [s \in DOMAIN f \cup DOMAIN g |-> IF s \in DOMAIN g THEN g[s] ELSE f[s]]

-----------------------------------------------------------------------------
(* SessionExpiryQueue *)

(* setSessionExpirationTime sets the deadline of that session and of no    *)
(* other, and moves the session from its bucket to the one of the deadline.*)
LEMMA SetMoves ==
  ASSUME NEW q, GoodQueue(q), NEW s, NEW t
  PROVE  /\ Agrees(SetSessionExpirationTime(q, s, t))
         /\ SetSessionExpirationTime(q, s, t).session_to_expiration_time
              = With(q.session_to_expiration_time, s, t)
<1> DEFINE times == q.session_to_expiration_time
           buckets == q.expiry_to_sessions
           entered == Enter(buckets, t, s)
           r == SetSessionExpirationTime(q, s, t)
<1>1. IsDeadlines(times) /\ Agrees(q)
  BY DEF GoodQueue
<1>2. CASE Known(q, s) /\ times[s] = t
  <2>1. r = q
    BY <1>2 DEF SetSessionExpirationTime
  <2>2. With(times, s, t) = times
    BY <1>1, <1>2 DEF With, Known, IsDeadlines
  <2>. QED BY <1>1, <2>1, <2>2
<1>3. CASE ~(Known(q, s) /\ times[s] = t)
  <2>1. /\ r.session_to_expiration_time = With(times, s, t)
        /\ r.expiry_to_sessions
             = IF Known(q, s) THEN Leave(entered, times[s], s) ELSE entered
    BY <1>3 DEF SetSessionExpirationTime
  <2>3. /\ DOMAIN With(times, s, t) = DOMAIN times \cup {s}
        /\ With(times, s, t)[s] = t
        /\ \A x \in DOMAIN times \ {s} : With(times, s, t)[x] = times[x]
    BY DEF With
  <2>4. /\ DOMAIN entered = DOMAIN buckets \cup {t}
        /\ entered[t] = (IF t \in DOMAIN buckets THEN buckets[t] ELSE {}) \cup {s}
        /\ \A u \in DOMAIN buckets \ {t} : entered[u] = buckets[u]
    BY DEF Enter, With
  <2> HIDE DEF r, entered
  <2>5. CASE Known(q, s)
    <3>1. times[s] # t /\ s \in DOMAIN times /\ times[s] \in DOMAIN buckets
      BY <1>1, <1>3, <2>5 DEF Known, Agrees
    <3>2. /\ DOMAIN entered = DOMAIN buckets \cup {t}
          /\ entered[t] = {x \in DOMAIN times : times[x] = t} \cup {s}
          /\ \A u \in DOMAIN buckets \ {t} : entered[u] = {x \in DOMAIN times : times[x] = u}
      <4>1. (IF t \in DOMAIN buckets THEN buckets[t] ELSE {})
               = {x \in DOMAIN times : times[x] = t}
        BY <1>1 DEF Agrees
      <4>. QED BY <1>1, <2>4, <4>1 DEF Agrees
    <3>3. times[s] \in DOMAIN entered
      BY <3>1, <3>2
    <3>4. /\ DOMAIN r.expiry_to_sessions
               = IF entered[times[s]] = {s} THEN DOMAIN entered \ {times[s]} ELSE DOMAIN entered
          /\ entered[times[s]] # {s}
               => r.expiry_to_sessions[times[s]] = entered[times[s]] \ {s}
          /\ \A u \in DOMAIN entered \ {times[s]} : r.expiry_to_sessions[u] = entered[u]
      BY <2>1, <2>5, <3>3 DEF Leave, Without, Restrict
    <3>5. entered[times[s]] = {x \in DOMAIN times : times[x] = times[s]}
      BY <3>1, <3>2
    <3>6. \A u : {x \in DOMAIN With(times, s, t) : With(times, s, t)[x] = u}
               = IF u = t THEN {x \in DOMAIN times : times[x] = t} \cup {s}
                 ELSE {x \in DOMAIN times : times[x] = u} \ {s}
      BY <2>3, <3>1
    <3>7. DOMAIN r.expiry_to_sessions
            = {With(times, s, t)[x] : x \in DOMAIN With(times, s, t)}
      <4>1. DOMAIN buckets = {times[x] : x \in DOMAIN times}
        BY <1>1 DEF Agrees
      <4>2. CASE entered[times[s]] = {s}
        BY <2>3, <3>1, <3>2, <3>4, <3>5, <4>1, <4>2
      <4>3. CASE entered[times[s]] # {s}
        <5>1. PICK y \in DOMAIN times \ {s} : times[y] = times[s]
          BY <3>1, <3>5, <4>3
        <5>. QED BY <2>3, <3>1, <3>2, <3>4, <4>1, <4>3, <5>1
      <4>. QED BY <4>2, <4>3
    <3>8. ASSUME NEW u \in DOMAIN r.expiry_to_sessions
          PROVE  r.expiry_to_sessions[u]
                   = {x \in DOMAIN With(times, s, t) : With(times, s, t)[x] = u}
      <4>1. CASE u = times[s]
        BY <3>1, <3>4, <3>5, <3>6, <4>1
      <4>2. CASE u # times[s]
        BY <3>1, <3>2, <3>4, <3>6, <4>2
      <4>. QED BY <4>1, <4>2
    <3>9. Agrees(r)
      BY <2>1, <3>7, <3>8 DEF Agrees
    <3>. QED BY <2>1, <3>9 DEF r
  <2>6. ~Known(q, s) => Agrees(r)
    <3> SUFFICES ASSUME s \notin DOMAIN times PROVE Agrees(r)
      BY DEF Known
    <3>1. r.expiry_to_sessions = entered
      BY <2>1 DEF Known
    <3>2. {With(times, s, t)[x] : x \in DOMAIN With(times, s, t)}
            = {times[x] : x \in DOMAIN times} \cup {t}
      BY <2>3
    <3>3. \A u : {x \in DOMAIN With(times, s, t) : With(times, s, t)[x] = u}
               = IF u = t THEN {x \in DOMAIN times : times[x] = t} \cup {s}
                 ELSE {x \in DOMAIN times : times[x] = u}
      BY <2>3
    <3>4. (IF t \in DOMAIN buckets THEN buckets[t] ELSE {})
             = {x \in DOMAIN times : times[x] = t}
      BY <1>1 DEF Agrees
    <3>5. DOMAIN entered = {With(times, s, t)[x] : x \in DOMAIN With(times, s, t)}
      BY <1>1, <2>4, <3>2 DEF Agrees
    <3>6. ASSUME NEW u \in DOMAIN entered
          PROVE  entered[u] = {x \in DOMAIN With(times, s, t) : With(times, s, t)[x] = u}
      <4>1. CASE u = t
        BY <2>4, <3>3, <3>4, <4>1
      <4>2. CASE u # t
        <5>1. u \in DOMAIN buckets /\ buckets[u] = {x \in DOMAIN times : times[x] = u}
          BY <1>1, <2>4, <4>2 DEF Agrees
        <5>. QED BY <2>4, <3>3, <4>2, <5>1
      <4>. QED BY <4>1, <4>2
    <3>. QED BY <2>1, <3>1, <3>5, <3>6 DEF Agrees
  <2>. QED BY <2>1, <2>5, <2>6 DEF r
<1>. QED BY <1>2, <1>3

LEMMA SetOne ==
  ASSUME NEW q, GoodQueue(q), NEW s \in Sessions, NEW t \in Nat
  PROVE  /\ GoodQueue(SetSessionExpirationTime(q, s, t))
         /\ SetSessionExpirationTime(q, s, t).session_to_expiration_time
              = With(q.session_to_expiration_time, s, t)
<1>1. IsDeadlines(With(q.session_to_expiration_time, s, t))
  BY DEF GoodQueue, IsDeadlines, With
<1>. QED BY <1>1, SetMoves DEF GoodQueue

(* remove takes the session out of both maps and leaves the others.        *)
LEMMA RemoveOne ==
  ASSUME NEW q, GoodQueue(q), NEW s
  PROVE  /\ GoodQueue(RemoveSession(q, s))
         /\ RemoveSession(q, s).session_to_expiration_time
              = Without(q.session_to_expiration_time, s)
<1> DEFINE times == q.session_to_expiration_time
           buckets == q.expiry_to_sessions
           left == Without(times, s)
           r == RemoveSession(q, s)
<1>1. IsDeadlines(times) /\ Agrees(q)
  BY DEF GoodQueue
<1>2. CASE ~Known(q, s)
  <2>1. r = q /\ left = times
    BY <1>1, <1>2 DEF RemoveSession, Known, Without, Restrict, IsDeadlines
  <2>. QED BY <2>1
<1>3. CASE Known(q, s)
  <2>1. /\ r.session_to_expiration_time = left
        /\ r.expiry_to_sessions = Leave(buckets, times[s], s)
    BY <1>3 DEF RemoveSession
  <2>2. IsDeadlines(left)
    BY <1>1 DEF IsDeadlines, Without, Restrict
  <2>3. DOMAIN left = DOMAIN times \ {s} /\ \A x \in DOMAIN left : left[x] = times[x]
    BY DEF Without, Restrict
  <2>4. /\ s \in DOMAIN times /\ times[s] \in DOMAIN buckets
        /\ buckets[times[s]] = {x \in DOMAIN times : times[x] = times[s]}
        /\ DOMAIN buckets = {times[x] : x \in DOMAIN times}
    BY <1>1, <1>3 DEF Known, Agrees
  <2>5. /\ DOMAIN r.expiry_to_sessions
             = IF buckets[times[s]] = {s} THEN DOMAIN buckets \ {times[s]} ELSE DOMAIN buckets
        /\ buckets[times[s]] # {s}
             => r.expiry_to_sessions[times[s]] = buckets[times[s]] \ {s}
        /\ \A u \in DOMAIN buckets \ {times[s]} : r.expiry_to_sessions[u] = buckets[u]
    BY <2>1, <2>4 DEF Leave, Without, Restrict
  <2> HIDE DEF r, left
  <2>6. DOMAIN r.expiry_to_sessions = {left[x] : x \in DOMAIN left}
    <3>1. CASE buckets[times[s]] = {s}
      BY <2>3, <2>4, <2>5, <3>1
    <3>2. CASE buckets[times[s]] # {s}
      <4>1. PICK y \in DOMAIN times \ {s} : times[y] = times[s]
        BY <2>4, <3>2
      <4>. QED BY <2>3, <2>4, <2>5, <3>2, <4>1
    <3>. QED BY <3>1, <3>2
  <2>7. \A u : {x \in DOMAIN left : left[x] = u} = {x \in DOMAIN times : times[x] = u} \ {s}
    BY <2>3
  <2>8. ASSUME NEW u \in DOMAIN r.expiry_to_sessions
        PROVE  r.expiry_to_sessions[u] = {x \in DOMAIN left : left[x] = u}
    <3>1. CASE u = times[s]
      <4>1. r.expiry_to_sessions[u] = {x \in DOMAIN times : times[x] = u} \ {s}
        BY <2>4, <2>5, <3>1
      <4>. QED BY <2>7, <4>1, Zenon
    <3>2. CASE u # times[s]
      <4>1. u \in DOMAIN buckets /\ buckets[u] = {x \in DOMAIN times : times[x] = u}
        BY <1>1, <2>5, <3>2 DEF Agrees
      <4>2. buckets[u] = {x \in DOMAIN times : times[x] = u} \ {s}
        BY <3>2, <4>1
      <4>3. r.expiry_to_sessions[u] = buckets[u]
        BY <2>5, <3>2, <4>1
      <4>. QED BY <2>7, <4>2, <4>3, Zenon
    <3>. QED BY <3>1, <3>2
  <2>9. Agrees(r)
    BY <2>1, <2>6, <2>8 DEF Agrees
  <2>. QED BY <2>1, <2>2, <2>9 DEF GoodQueue, r, left
<1>. QED BY <1>2, <1>3

(* Deadlines of several sessions, set one after the other: the function    *)
(* that SetEach unrolls exists, and its values overlay the deadlines.      *)
LEMMA SetEachOverlays ==
  ASSUME NEW q, GoodQueue(q), NEW deadlines, IsDeadlines(deadlines)
  PROVE  /\ GoodQueue(SetEach(q, deadlines))
         /\ SetEach(q, deadlines).session_to_expiration_time
              = Overlaid(q.session_to_expiration_time, deadlines)
<1> DEFINE next(r, n) == IF n \in DOMAIN deadlines
                         THEN SetSessionExpirationTime(r, n, deadlines[n]) ELSE r
           Unrolls(g, k) == g = [n \in 0 .. k |-> IF n = 0 THEN q ELSE next(g[n - 1], n)]
           times == q.session_to_expiration_time
           upto(n) == [s \in DOMAIN times \cup (DOMAIN deadlines \cap 1 .. n) |->
                         IF s \in DOMAIN deadlines \cap 1 .. n THEN deadlines[s] ELSE times[s]]
<1>0. MaxSessions \in Nat
  BY SessionExpiryAssumption
<1>1. \E g : Unrolls(g, MaxSessions)
  <2> DEFINE T == {k \in 0 .. MaxSessions : \E g : Unrolls(g, k)}
  <2>1. 0 \in T
    <3> DEFINE g == [n \in 0 .. 0 |-> q]
    <3>1. Unrolls(g, 0)
      OBVIOUS
    <3> HIDE DEF Unrolls, g
    <3>. QED BY <1>0, <3>1
  <2>2. ASSUME NEW k \in 0 .. MaxSessions - 1, k \in T PROVE k + 1 \in T
    <3>1. PICK g : Unrolls(g, k)
      BY <2>2
    <3> DEFINE h == [n \in 0 .. k + 1 |-> IF n = k + 1 THEN next(g[k], k + 1) ELSE g[n]]
    <3>2. Unrolls(h, k + 1)
      <4> HIDE DEF next
      <4>1. ASSUME NEW n \in 0 .. k + 1
            PROVE  h[n] = IF n = 0 THEN q ELSE next(h[n - 1], n)
        <5>1. CASE n = k + 1
          BY <1>0, <5>1
        <5>2. CASE n # k + 1
          BY <1>0, <3>1, <5>2
        <5>. QED BY <5>1, <5>2
      <4>. QED BY <4>1
    <3> HIDE DEF Unrolls, h
    <3>. QED BY <1>0, <3>2
  <2> HIDE DEF T
  <2>3. MaxSessions \in T
    BY <1>0, <2>1, <2>2, UpTo
  <2>. QED BY <2>3 DEF T
<1>2. PICK g : Unrolls(g, MaxSessions) /\ SetEach(q, deadlines) = g[MaxSessions]
  BY <1>1 DEF SetEach
<1>3. \A n \in 0 .. MaxSessions :
        GoodQueue(g[n]) /\ g[n].session_to_expiration_time = upto(n)
  <2> DEFINE T == {n \in 0 .. MaxSessions :
                     GoodQueue(g[n]) /\ g[n].session_to_expiration_time = upto(n)}
  <2>1. 0 \in T
    <3>1. g[0] = q
      BY <1>0, <1>2
    <3>2. upto(0) = times
      BY DEF GoodQueue, IsDeadlines
    <3>. QED BY <1>0, <3>1, <3>2
  <2>2. ASSUME NEW k \in 0 .. MaxSessions - 1, k \in T PROVE k + 1 \in T
    <3>1. g[k + 1] = next(g[k], k + 1)
      BY <1>0, <1>2
    <3>2. GoodQueue(g[k]) /\ g[k].session_to_expiration_time = upto(k)
      BY <2>2
    <3>3. CASE k + 1 \notin DOMAIN deadlines
      <4>1. upto(k + 1) = upto(k)
        BY <3>3
      <4>. QED BY <1>0, <3>1, <3>2, <3>3, <4>1
    <3>4. CASE k + 1 \in DOMAIN deadlines
      <4>1. k + 1 \in Sessions /\ deadlines[k + 1] \in Nat
        BY <3>4 DEF IsDeadlines
      <4>2. /\ GoodQueue(g[k + 1])
            /\ g[k + 1].session_to_expiration_time = With(upto(k), k + 1, deadlines[k + 1])
        BY <3>1, <3>2, <3>4, <4>1, SetOne
      <4>3. With(upto(k), k + 1, deadlines[k + 1]) = upto(k + 1)
        BY <3>4 DEF With
      <4>. QED BY <1>0, <4>2, <4>3
    <3>. QED BY <3>3, <3>4
  <2> HIDE DEF T
  <2>3. \A n \in 0 .. MaxSessions : n \in T
    BY <1>0, <2>1, <2>2, UpTo
  <2>. QED BY <2>3 DEF T
<1>4. upto(MaxSessions) = Overlaid(times, deadlines)
  BY DEF IsDeadlines, Sessions, Overlaid
<1>5. GoodQueue(g[MaxSessions]) /\ g[MaxSessions].session_to_expiration_time = upto(MaxSessions)
  <2> HIDE DEF upto
  <2>. QED BY <1>0, <1>3
<1> HIDE DEF upto, Unrolls
<1>. QED BY <1>2, <1>4, <1>5

(* A deadline is rounded up, by at most the interval.                      *)
LEMMA Rounding ==
  ASSUME NEW t \in Nat
  PROVE  RoundToNextInterval(t) \in t + 1 .. t + Interval
<1>1. Interval \in Nat /\ Interval > 0
  BY SessionExpiryAssumption
<1>2. t \div Interval \in Int
  BY <1>1
<1>3. t < (t \div Interval + 1) * Interval
  BY <1>1
<1>4. (t \div Interval + 1) * Interval <= t + Interval
  BY <1>1
<1>. QED BY <1>1, <1>2, <1>3, <1>4 DEF RoundToNextInterval

-----------------------------------------------------------------------------
(* The servers.  The deadlines that are known anywhere, in queues and in   *)
(* messages, are of sessions that have been opened and are not later than  *)
(* one that would be set now.                                              *)

Ops == SessionOps \cup {"write", "close"}
Items == [op : Ops, session : Opened]
Handshakes == [srv : Servers \cup {NoServer}, op : SessionOps \cup {"none"},
               granted : BOOLEAN]

Times(srv) == session_expiry_queue[srv].session_to_expiration_time

NotLater(f) ==
    DOMAIN f \subseteq Opened /\ \A s \in DOMAIN f : f[s] <= clock + Timeout[s] + Interval

QueuesInv ==
    /\ session_expiry_queue = [srv \in Servers |-> session_expiry_queue[srv]]
    /\ \A srv \in Servers : GoodQueue(session_expiry_queue[srv]) /\ NotLater(Times(srv))

NetInv ==
    \A m \in net : m.to \in Servers /\ IsDeadlines(m.deadlines) /\ NotLater(m.deadlines)

SessionTypes ==
    /\ session_id_counter \in 1 .. MaxSessions + 1
    /\ session_and_timeout \in [Servers -> SUBSET Opened]
    /\ local \in [Servers -> SUBSET Opened]
    /\ pending \in [Servers -> Seq(Items)]
    /\ closing \in SUBSET Opened
    /\ handshake \in [Sessions -> Handshakes]
    /\ \A s \in Sessions : handshake[s].granted => s \in Opened

ClockTypes ==
    /\ clock \in 0 .. MaxClock /\ leader \in Servers
    /\ last_sync \in [Servers -> 0 .. clock]
    /\ silent \in [Sessions -> 0 .. HeartbeatPeriod]

ExpiryInv == SessionTypes /\ ClockTypes /\ QueuesInv /\ NetInv

LEMMA ExpiryInit == Init => ExpiryInv
<1> SUFFICES ASSUME Init PROVE ExpiryInv
  OBVIOUS
<1> USE SessionExpiryAssumption
<1>1. SessionTypes
  <2>1. <<>> \in Seq(Items)
    BY EmptySeq
  <2>. QED
    BY <2>1 DEF Init, SessionTypes, Opened, Handshakes, NoHandshake, SessionOps
<1>2. ClockTypes
  BY DEF Init, ClockTypes
<1>3. QueuesInv
  <2>1. /\ EmptyQueue.session_to_expiration_time = [s \in {} |-> 0]
        /\ EmptyQueue.expiry_to_sessions = [t \in {} |-> {}]
    BY DEF EmptyQueue
  <2>2. GoodQueue(EmptyQueue) /\ NotLater(EmptyQueue.session_to_expiration_time)
    BY <2>1 DEF GoodQueue, IsDeadlines, Agrees, NotLater
  <2>. QED BY <2>2 DEF Init, QueuesInv, Times
<1>. QED BY <1>1, <1>2, <1>3 DEF Init, ExpiryInv, NetInv

(* Sessions that are opened stay opened, and deadlines that are not later  *)
(* than one set now never become so: time and the counter only grow.       *)
LEMMA StillNotLater ==
  ASSUME ExpiryInv, NEW f, NotLater(f), clock' \in Nat, clock' >= clock,
         IsDeadlines(f), Opened \subseteq Opened'
  PROVE  NotLater(f)'
<1>1. \A s \in DOMAIN f : Timeout[s] \in Nat /\ f[s] \in Nat
  BY SessionExpiryAssumption DEF IsDeadlines, Sessions
<1>2. clock \in Nat /\ Interval \in Nat
  BY SessionExpiryAssumption DEF ExpiryInv, ClockTypes
<1>. QED BY <1>1, <1>2 DEF NotLater

(* A step that touches neither queues nor messages.                        *)
LEMMA DeadlinesKept ==
  ASSUME ExpiryInv, clock' \in Nat, clock' >= clock, Opened \subseteq Opened',
         session_expiry_queue' = session_expiry_queue, net' \subseteq net
  PROVE  QueuesInv' /\ NetInv'
BY StillNotLater DEF ExpiryInv, QueuesInv, NetInv, GoodQueue, Times

(* A step that sets the queue of one server.                               *)
LEMMA QueueSet ==
  ASSUME ExpiryInv, UNCHANGED <<clock, session_id_counter>>,
         NEW srv \in Servers, NEW q, GoodQueue(q), NotLater(q.session_to_expiration_time),
         session_expiry_queue' = [session_expiry_queue EXCEPT ![srv] = q],
         net' \subseteq net
  PROVE  QueuesInv' /\ NetInv'
BY DEF ExpiryInv, QueuesInv, NetInv, NotLater, Times, Opened

(* Hearing of a session.                                                   *)
LEMMA Hears ==
  ASSUME ExpiryInv, NEW srv \in Servers, NEW s \in Opened
  PROVE  LET q == AddNewSessionOrUpdate(session_expiry_queue[srv], s)
             t == RoundToNextInterval(clock + Timeout[s])
         IN  /\ GoodQueue(q) /\ NotLater(q.session_to_expiration_time)
             /\ q.session_to_expiration_time = With(Times(srv), s, t)
             /\ t \in clock + Timeout[s] .. clock + Timeout[s] + Interval
<1> DEFINE q == AddNewSessionOrUpdate(session_expiry_queue[srv], s)
           t == RoundToNextInterval(clock + Timeout[s])
<1>1. s \in Sessions
  BY SessionExpiryAssumption DEF ExpiryInv, SessionTypes, Opened, Sessions
<1>2. Timeout[s] \in Nat /\ clock \in Nat /\ Interval \in Nat
  BY <1>1, SessionExpiryAssumption DEF Sessions, ExpiryInv, ClockTypes
<1>3. t \in clock + Timeout[s] .. clock + Timeout[s] + Interval /\ t \in Nat
  BY <1>2, Rounding
<1>4. GoodQueue(q) /\ q.session_to_expiration_time = With(Times(srv), s, t)
  BY <1>1, <1>3, SetOne DEF AddNewSessionOrUpdate, ExpiryInv, QueuesInv, Times
<1>5. NotLater(With(Times(srv), s, t))
  BY <1>3 DEF With, NotLater, ExpiryInv, QueuesInv
<1>. QED BY <1>3, <1>4, <1>5

(* What raft commits about a session that is opened is well typed.         *)
LEMMA CommitType ==
  ASSUME ExpiryInv, NEW op \in Ops, NEW s \in Opened', Opened \subseteq Opened',
         Commit(op, s)
  PROVE  pending' \in [Servers -> Seq(Items')]
<1>1. Items \subseteq Items' /\ [op |-> op, session |-> s] \in Items'
  BY DEF Items
<1>2. \A srv \in Servers : pending[srv] \in Seq(Items')
  BY <1>1, SeqMonotonic DEF ExpiryInv, SessionTypes
<1>3. \A srv \in Servers : Append(pending[srv], [op |-> op, session |-> s]) \in Seq(Items')
  BY <1>1, <1>2, AppendProperties
<1>. QED BY <1>3 DEF Commit

(* The session operation that the commit thread takes next.                *)
LEMMA FirstSessionOpType ==
  ASSUME ExpiryInv, NEW srv \in Servers, FirstSessionOp(srv) > 0
  PROVE  /\ pending[srv][FirstSessionOp(srv)] \in Items
         /\ pending[srv][FirstSessionOp(srv)].op \in SessionOps
         /\ RemoveAt(pending[srv], FirstSessionOp(srv)) \in Seq(Items)
<1> DEFINE q == pending[srv]
           I == {i \in 1 .. Len(q) : q[i].op \in SessionOps}
           k == FirstSessionOp(srv)
<1>1. q \in Seq(Items) /\ Len(q) \in Nat
  BY LenProperties DEF ExpiryInv, SessionTypes
<1>2. k = IF I # {} THEN Min(I) ELSE 0
  BY DEF FirstSessionOp, SelectInSeq
<1>3. I # {}
  BY <1>2
<1>4. \E i \in I : \A j \in I : i <= j
  <2>1. I \in SUBSET Nat
    BY <1>1
  <2> HIDE DEF I
  <2>. QED BY <1>3, <2>1, LeastNatural
<1>5. k \in I
  <2> HIDE DEF I, k
  <2>. QED BY <1>2, <1>3, <1>4 DEF Min
<1>6. q[k] \in Items
  BY <1>1, <1>5, ElementOfSeq
<1>7. SubSeq(q, 1, k - 1) \in Seq(Items) /\ SubSeq(q, k + 1, Len(q)) \in Seq(Items)
  <2>1. k \in 1 .. Len(q) /\ k \in Nat
    BY <1>1, <1>5
  <2>2. /\ \A j \in 1 .. (k - 1) : q[j] \in Items
        /\ \A j \in (k + 1) .. Len(q) : q[j] \in Items
    BY <1>1, <2>1, ElementOfSeq, LenProperties
  <2> HIDE DEF k, q
  <2>. QED BY <1>1, <2>1, <2>2, SubSeqProperties
<1>. QED BY <1>5, <1>6, <1>7, ConcatProperties DEF RemoveAt

(* Sessions that are dead are known, so they have been opened.             *)
LEMMA ExpiredAreOpened ==
  ASSUME ExpiryInv, NEW srv \in Servers
  PROVE  GetExpiredSessions(session_expiry_queue[srv])
           = {s \in DOMAIN Times(srv) : Times(srv)[s] <= clock}
BY DEF ExpiryInv, QueuesInv, GoodQueue, Agrees, Times, GetExpiredSessions

-----------------------------------------------------------------------------
(* Handshakes and clients.                                                 *)
LEMMA ClientSteps ==
  ASSUME ExpiryInv,
         \/ \E srv \in Servers : AskSession(srv)
         \/ \E srv \in Servers, s \in Sessions :
               \/ AskUpdate(srv, s) \/ Disconnect(srv, s)
               \/ Write("write", srv, s) \/ Write("close", srv, s)
         \/ \E s \in Sessions : Register(s) \/ GiveUp(s) \/ CommitClose(s)
  PROVE  ExpiryInv'
<1> USE SessionExpiryAssumption
<1>1. /\ clock' = clock /\ leader' = leader /\ session_expiry_queue' = session_expiry_queue
      /\ net' = net /\ last_sync' = last_sync
      /\ session_and_timeout' = session_and_timeout
  BY DEF AskSession, AskUpdate, Disconnect, Write, Register, GiveUp, CommitClose
<1>2. clock \in Nat /\ Opened \subseteq Sessions
  BY DEF ExpiryInv, ClockTypes, SessionTypes, Opened, Sessions
<1>3. CASE \E srv \in Servers : AskSession(srv)
  <2>1. PICK srv \in Servers : AskSession(srv)
    BY <1>3
  <2>2. /\ Opened' = Opened \cup {session_id_counter} /\ session_id_counter \in Opened'
        /\ session_id_counter' \in 1 .. MaxSessions + 1
    BY <2>1 DEF AskSession, ExpiryInv, SessionTypes, Opened, Sessions
  <2>3. pending' \in [Servers -> Seq(Items')]
    BY <2>1, <2>2, CommitType DEF AskSession, Ops, SessionOps
  <2>4. /\ handshake' \in [Sessions -> Handshakes]
        /\ \A s \in Sessions : handshake'[s].granted => handshake[s].granted
    BY <2>1 DEF AskSession, ExpiryInv, SessionTypes, Handshakes, SessionOps
  <2>5. SessionTypes'
    BY <1>1, <2>1, <2>2, <2>3, <2>4 DEF AskSession, ExpiryInv, SessionTypes, Handshakes
  <2>6. ClockTypes'
    BY <1>1, <2>1 DEF AskSession, ExpiryInv, ClockTypes
  <2>7. QueuesInv' /\ NetInv'
    BY <1>1, <1>2, <2>2, DeadlinesKept
  <2>. QED BY <2>5, <2>6, <2>7 DEF ExpiryInv
<1>4. CASE ~\E srv \in Servers : AskSession(srv)
  <2>1. session_id_counter' = session_id_counter /\ Opened' = Opened
    BY <1>4 DEF AskUpdate, Disconnect, Write, Register, GiveUp, CommitClose, Opened
  <2>2. QueuesInv' /\ NetInv'
    BY <1>1, <1>2, <2>1, DeadlinesKept
  <2>3. pending' \in [Servers -> Seq(Items')]
    <3>1. CASE pending' = pending
      BY <2>1, <3>1 DEF ExpiryInv, SessionTypes, Items
    <3>2. CASE pending' # pending
      <4>1. PICK op \in Ops, s \in Opened : Commit(op, s)
        BY <1>4, <3>2 DEF AskUpdate, Disconnect, Write, Register, GiveUp, CommitClose,
           ExpiryInv, SessionTypes, Ops, SessionOps
      <4>. QED BY <2>1, <4>1, CommitType
    <3>. QED BY <3>1, <3>2
  <2>4. /\ handshake' \in [Sessions -> Handshakes]
        /\ \A s \in Sessions : handshake'[s].granted => handshake[s].granted
    <3>1. NoHandshake \in Handshakes /\ ~NoHandshake.granted
      BY DEF NoHandshake, Handshakes
    <3>2. ASSUME NEW srv \in Servers
          PROVE  [srv |-> srv, op |-> "update", granted |-> FALSE] \in Handshakes
      BY DEF Handshakes, SessionOps
    <3>3. handshake \in [Sessions -> Handshakes]
      BY DEF ExpiryInv, SessionTypes
    <3>. QED
      BY <1>4, <3>1, <3>2, <3>3
         DEF AskUpdate, Disconnect, Write, Register, GiveUp, CommitClose
  <2>5. local' \in [Servers -> SUBSET Opened] /\ closing' \in SUBSET Opened
    <3>0. local \in [Servers -> SUBSET Opened] /\ closing \in SUBSET Opened
      BY DEF ExpiryInv, SessionTypes
    <3>1. ASSUME NEW s \in Sessions, Register(s)
          PROVE  local' \in [Servers -> SUBSET Opened] /\ closing' = closing
      <4>1. s \in Opened /\ local' = [local EXCEPT ![handshake[s].srv] = @ \cup {s}]
        BY <3>1 DEF Register, ExpiryInv, SessionTypes
      <4>2. /\ local' = [x \in Servers |->
                           IF x = handshake[s].srv THEN local[x] \cup {s} ELSE local[x]]
        BY <3>0, <4>1, Zenon
      <4>3. \A x \in Servers :
              (IF x = handshake[s].srv THEN local[x] \cup {s} ELSE local[x]) \in SUBSET Opened
        BY <3>0, <4>1
      <4>4. local' \in [Servers -> SUBSET Opened]
        BY <4>2, <4>3, Zenon
      <4>. QED BY <3>1, <4>4 DEF Register
    <3>2. ASSUME NEW s \in Sessions, NEW srv \in Servers, Disconnect(srv, s)
          PROVE  local' \in [Servers -> SUBSET Opened] /\ closing' = closing
      BY <3>0, <3>2 DEF Disconnect
    <3>3. ASSUME NEW s \in Sessions, CommitClose(s)
          PROVE  local' = local /\ closing' \subseteq closing
      BY <3>3 DEF CommitClose
    <3>4. ASSUME NEW s \in Sessions,
                 \/ GiveUp(s)
                 \/ \E srv \in Servers : AskUpdate(srv, s) \/ Write("write", srv, s)
                                          \/ Write("close", srv, s)
          PROVE  local' = local /\ closing' = closing
      BY <3>4 DEF AskUpdate, Write, GiveUp
    <3>. QED BY <1>4, <3>0, <3>1, <3>2, <3>3, <3>4
  <2>6. SessionTypes'
    BY <1>1, <2>1, <2>3, <2>4, <2>5 DEF ExpiryInv, SessionTypes, Handshakes
  <2>7. silent' \in [Sessions -> 0 .. HeartbeatPeriod]
    <3>0. silent \in [Sessions -> 0 .. HeartbeatPeriod] /\ 0 \in 0 .. HeartbeatPeriod
      BY DEF ExpiryInv, ClockTypes
    <3>1. \/ silent' = silent
          \/ \E s \in Sessions : silent' = [silent EXCEPT ![s] = 0]
      BY <1>4 DEF AskUpdate, Disconnect, Write, Register, GiveUp, CommitClose
    <3>. QED BY <3>0, <3>1
  <2>8. ClockTypes'
    BY <1>1, <2>7 DEF ExpiryInv, ClockTypes
  <2>. QED BY <2>2, <2>6, <2>8 DEF ExpiryInv
<1>. QED BY <1>3, <1>4

-----------------------------------------------------------------------------
(* Requests that move deadlines.                                           *)

LEMMA Hearing ==
  ASSUME ExpiryInv, UNCHANGED <<clock, session_id_counter, net>>,
         NEW srv \in Servers, NEW s \in Opened, NEW heard \in BOOLEAN,
         session_expiry_queue' =
             [session_expiry_queue EXCEPT
                 ![srv] = IF heard THEN AddNewSessionOrUpdate(@, s) ELSE @]
  PROVE  QueuesInv' /\ NetInv'
<1> DEFINE q == AddNewSessionOrUpdate(session_expiry_queue[srv], s)
<1>1. GoodQueue(q) /\ NotLater(q.session_to_expiration_time)
  BY Hears
<1>2. CASE heard
  <2>1. session_expiry_queue' = [session_expiry_queue EXCEPT ![srv] = q]
    BY <1>2
  <2> HIDE DEF q
  <2>. QED BY <1>1, <2>1, QueueSet
<1>3. CASE ~heard
  <2>1. session_expiry_queue' = session_expiry_queue
    BY <1>3 DEF ExpiryInv, QueuesInv
  <2>2. clock \in Nat /\ Opened' = Opened
    BY SessionExpiryAssumption DEF ExpiryInv, ClockTypes, Opened
  <2>. QED BY <2>1, <2>2, DeadlinesKept
<1>. QED BY <1>2, <1>3

LEMMA HeartbeatStep ==
  ASSUME ExpiryInv, NEW srv \in Servers, NEW s \in Sessions, Heartbeat(srv, s)
  PROVE  ExpiryInv'
<1> USE SessionExpiryAssumption
<1>1. /\ s \in Opened
      /\ session_expiry_queue' = [session_expiry_queue EXCEPT
             ![srv] = IF TRUE THEN AddNewSessionOrUpdate(@, s) ELSE @]
      /\ UNCHANGED <<clock, session_id_counter, net>>
  BY DEF Heartbeat, ExpiryInv, SessionTypes
<1>2. QueuesInv' /\ NetInv'
  BY <1>1, Hearing
<1>3. SessionTypes'
  BY DEF Heartbeat, ExpiryInv, SessionTypes, Opened, Items
<1>4. ClockTypes'
  BY DEF Heartbeat, ExpiryInv, ClockTypes
<1>. QED BY <1>2, <1>3, <1>4 DEF ExpiryInv

(* commit of a session that is opened or updated.                          *)
LEMMA ApplySessionOpStep ==
  ASSUME ExpiryInv, NEW srv \in Servers, ApplySessionOp(srv)
  PROVE  ExpiryInv'
<1> DEFINE k == FirstSessionOp(srv)
           e == pending[srv][k]
<1>1. /\ e \in Items /\ e.op \in SessionOps
      /\ pending' = [pending EXCEPT ![srv] = RemoveAt(pending[srv], k)]
      /\ RemoveAt(pending[srv], k) \in Seq(Items)
  BY FirstSessionOpType DEF ApplySessionOp
<1>2. /\ session_and_timeout' = [session_and_timeout EXCEPT
              ![srv] = IF e.op = "new" THEN @ \cup {e.session} ELSE @]
      /\ session_expiry_queue' = [session_expiry_queue EXCEPT
              ![srv] = IF e.session \in session_and_timeout'[srv]
                       THEN AddNewSessionOrUpdate(@, e.session) ELSE @]
      /\ handshake' =
              IF srv # leader \/ handshake[e.session].op # e.op THEN handshake
              ELSE IF e.session \in session_and_timeout'[srv]
              THEN [handshake EXCEPT ![e.session].granted = TRUE]
              ELSE [handshake EXCEPT ![e.session] = NoHandshake]
      /\ UNCHANGED <<clock, leader, local, session_id_counter, closing, last_sync, net,
                      silent, faults>>
  BY DEF ApplySessionOp
<1>3. e.session \in Opened /\ Opened' = Opened /\ Items' = Items
  BY <1>1, <1>2 DEF Items, Opened
<1> HIDE DEF e, k
<1>4. QueuesInv' /\ NetInv'
  <2>1. (e.session \in session_and_timeout'[srv]) \in BOOLEAN
    OBVIOUS
  <2>. QED BY <1>2, <1>3, <2>1, Hearing
<1>5. /\ handshake' \in [Sessions -> Handshakes]
      /\ \A s \in Sessions : handshake'[s].granted => s \in Opened
  <2>1. /\ handshake \in [Sessions -> Handshakes] /\ e.session \in Sessions
        /\ \A s \in Sessions : handshake[s].granted => s \in Opened
    BY <1>3, SessionExpiryAssumption DEF ExpiryInv, SessionTypes, Opened, Sessions
  <2>2. NoHandshake \in Handshakes /\ ~NoHandshake.granted
    BY DEF NoHandshake, Handshakes
  <2>3. ASSUME handshake' = [handshake EXCEPT ![e.session].granted = TRUE]
        PROVE  /\ handshake' \in [Sessions -> Handshakes]
               /\ \A s \in Sessions : handshake'[s].granted => s \in Opened
    BY <1>3, <2>1, <2>3 DEF Handshakes
  <2>4. ASSUME handshake' = [handshake EXCEPT ![e.session] = NoHandshake]
        PROVE  /\ handshake' \in [Sessions -> Handshakes]
               /\ \A s \in Sessions : handshake'[s].granted => s \in Opened
    BY <2>1, <2>2, <2>4
  <2>. QED BY <1>2, <2>1, <2>3, <2>4
<1>6. /\ session_and_timeout' \in [Servers -> SUBSET Opened]
      /\ pending' \in [Servers -> Seq(Items)]
  BY <1>1, <1>2, <1>3 DEF ExpiryInv, SessionTypes
<1>7. SessionTypes'
  BY <1>2, <1>3, <1>5, <1>6 DEF ExpiryInv, SessionTypes, Handshakes
<1>8. ClockTypes'
  BY <1>2 DEF ExpiryInv, ClockTypes
<1>. QED BY <1>4, <1>7, <1>8 DEF ExpiryInv

(* The request at the head of a server's entries.                          *)
LEMMA HeadType ==
  ASSUME ExpiryInv, NEW srv \in Servers, pending[srv] # <<>>
  PROVE  /\ Head(pending[srv]) \in Items /\ Head(pending[srv]).session \in Opened
         /\ Tail(pending[srv]) \in Seq(Items)
<1>1. pending[srv] \in Seq(Items)
  BY DEF ExpiryInv, SessionTypes
<1>2. Head(pending[srv]) \in Items /\ Tail(pending[srv]) \in Seq(Items)
  BY <1>1, HeadTailProperties
<1>. QED BY <1>2 DEF Items

LEMMA ApplyWriteStep ==
  ASSUME ExpiryInv, NEW srv \in Servers, ApplyWrite(srv)
  PROVE  ExpiryInv'
<1> USE SessionExpiryAssumption
<1> DEFINE s == Head(pending[srv]).session
<1>1. s \in Opened /\ Tail(pending[srv]) \in Seq(Items)
  BY HeadType DEF ApplyWrite
<1>2. /\ pending' = [pending EXCEPT ![srv] = Tail(@)]
      /\ session_expiry_queue' = [session_expiry_queue EXCEPT
             ![srv] = IF s \in session_and_timeout[srv] THEN AddNewSessionOrUpdate(@, s) ELSE @]
      /\ silent' = [silent EXCEPT ![s] = IF s \in local[srv] THEN 0 ELSE @]
      /\ UNCHANGED <<clock, leader, session_and_timeout, local, session_id_counter,
                      closing, last_sync, net, handshake, faults>>
  BY DEF ApplyWrite
<1>3. Opened' = Opened /\ Items' = Items
  BY <1>2 DEF Items, Opened
<1> HIDE DEF s
<1>4. QueuesInv' /\ NetInv'
  <2>1. (s \in session_and_timeout[srv]) \in BOOLEAN
    OBVIOUS
  <2>. QED BY <1>1, <1>2, <2>1, Hearing
<1>5. SessionTypes'
  <2>1. pending' \in [Servers -> Seq(Items)]
    BY <1>1, <1>2 DEF ExpiryInv, SessionTypes
  <2>. QED BY <1>2, <1>3, <2>1 DEF ExpiryInv, SessionTypes, Handshakes
<1>6. ClockTypes'
  <2>1. silent \in [Sessions -> 0 .. HeartbeatPeriod] /\ 0 \in 0 .. HeartbeatPeriod
    BY DEF ExpiryInv, ClockTypes
  <2>2. s \in Sessions
    BY <1>1 DEF ExpiryInv, SessionTypes, Opened, Sessions
  <2>3. silent' \in [Sessions -> 0 .. HeartbeatPeriod]
    BY <1>2, <2>1, <2>2
  <2>. QED BY <1>2, <2>3 DEF ExpiryInv, ClockTypes
<1>. QED BY <1>4, <1>5, <1>6 DEF ExpiryInv

LEMMA ApplyCloseStep ==
  ASSUME ExpiryInv, NEW srv \in Servers, ApplyClose(srv)
  PROVE  ExpiryInv'
<1> DEFINE s == Head(pending[srv]).session
           q == RemoveSession(session_expiry_queue[srv], s)
<1>1. s \in Opened /\ Tail(pending[srv]) \in Seq(Items)
  BY HeadType DEF ApplyClose
<1>2. /\ pending' = [pending EXCEPT ![srv] = Tail(@)]
      /\ session_expiry_queue' = [session_expiry_queue EXCEPT ![srv] = q]
      /\ session_and_timeout' = [session_and_timeout EXCEPT ![srv] = @ \ {s}]
      /\ local' = [local EXCEPT ![srv] = @ \ {s}]
      /\ UNCHANGED <<clock, leader, session_id_counter, closing, last_sync, net,
                      silent, handshake, faults>>
  BY DEF ApplyClose
<1>3. Opened' = Opened /\ Items' = Items
  BY <1>2 DEF Items, Opened
<1>4. GoodQueue(q) /\ q.session_to_expiration_time = Without(Times(srv), s)
  BY RemoveOne DEF ExpiryInv, QueuesInv, Times
<1> HIDE DEF s, q
<1>5. NotLater(Without(Times(srv), s))
  BY DEF ExpiryInv, QueuesInv, NotLater, Without, Restrict
<1>6. QueuesInv' /\ NetInv'
  BY <1>2, <1>4, <1>5, QueueSet
<1>7. SessionTypes'
  <2>1. /\ pending' \in [Servers -> Seq(Items)]
        /\ session_and_timeout' \in [Servers -> SUBSET Opened]
        /\ local' \in [Servers -> SUBSET Opened]
    BY <1>1, <1>2 DEF ExpiryInv, SessionTypes
  <2>. QED BY <1>2, <1>3, <2>1 DEF ExpiryInv, SessionTypes, Handshakes
<1>8. ClockTypes'
  BY <1>2 DEF ExpiryInv, ClockTypes
<1>. QED BY <1>6, <1>7, <1>8 DEF ExpiryInv

-----------------------------------------------------------------------------
(* Followers, the leader and time.                                         *)

(* Some deadlines of a map are deadlines.                                  *)
LEMMA RestrictedDeadlines ==
  ASSUME NEW f, IsDeadlines(f), NotLater(f), NEW D \in SUBSET DOMAIN f
  PROVE  IsDeadlines(Restrict(f, D)) /\ NotLater(Restrict(f, D))
BY DEF IsDeadlines, NotLater, Restrict

LEMMA MessageSteps ==
  ASSUME ExpiryInv,
         \/ \E srv \in Servers : SendSessions(srv)
         \/ \E m \in net : ReceiveSessions(m) \/ LoseSessions(m)
  PROVE  ExpiryInv'
<1> USE SessionExpiryAssumption
<1>0. UNCHANGED <<clock, leader, session_and_timeout, local, pending, session_id_counter,
                  closing, silent, handshake>>
  BY DEF SendSessions, ReceiveSessions, LoseSessions
<1>1. /\ UNCHANGED <<clock, leader, session_and_timeout, local, pending, session_id_counter,
                      closing, silent, handshake>>
      /\ clock \in Nat /\ Opened' = Opened /\ Items' = Items
  BY <1>0 DEF ExpiryInv, ClockTypes, Opened, Items
<1>2. SessionTypes'
  BY <1>1 DEF ExpiryInv, SessionTypes, Handshakes
<1>3. ClockTypes'
  <2>1. last_sync' \in [Servers -> 0 .. clock]
    BY <1>1, SMTT(30) DEF SendSessions, ReceiveSessions, LoseSessions, ExpiryInv, ClockTypes
  <2>. QED BY <1>1, <2>1 DEF ExpiryInv, ClockTypes
<1>4. ASSUME NEW srv \in Servers, SendSessions(srv)
      PROVE  QueuesInv' /\ NetInv'
  <2> DEFINE m == [to |-> leader, sent |-> clock, deadlines |-> LocalDeadlines(srv)]
  <2>1. QueuesInv'
    BY <1>1, <1>4 DEF SendSessions, ExpiryInv, QueuesInv, NotLater, Times
  <2>2. /\ m.to \in Servers /\ IsDeadlines(m.deadlines) /\ NotLater(m.deadlines)
    BY RestrictedDeadlines
       DEF LocalDeadlines, ExpiryInv, ClockTypes, QueuesInv, GoodQueue, Times
  <2>3. net' \subseteq net \cup {m}
    BY <1>4 DEF SendSessions
  <2> HIDE DEF m
  <2>. QED BY <1>1, <2>1, <2>2, <2>3 DEF ExpiryInv, NetInv, NotLater
<1>5. ASSUME NEW m \in net, ReceiveSessions(m)
      PROVE  QueuesInv' /\ NetInv'
  <2> DEFINE q == SetEach(session_expiry_queue[m.to], m.deadlines)
  <2>1. /\ m.to \in Servers /\ GoodQueue(q)
        /\ q.session_to_expiration_time = Overlaid(Times(m.to), m.deadlines)
    BY SetEachOverlays DEF ExpiryInv, QueuesInv, NetInv, Times
  <2>2. NotLater(Overlaid(Times(m.to), m.deadlines))
    <3>1. NotLater(Times(m.to)) /\ NotLater(m.deadlines)
      BY <2>1 DEF ExpiryInv, QueuesInv, NetInv
    <3>. QED BY <3>1 DEF NotLater, Overlaid
  <2>3. session_expiry_queue' = [session_expiry_queue EXCEPT ![m.to] = q] /\ net' \subseteq net
    BY <1>5 DEF ReceiveSessions, HandleRemoteSessions
  <2> HIDE DEF q
  <2>. QED BY <1>1, <2>1, <2>2, <2>3, QueueSet
<1>6. ASSUME NEW m \in net, LoseSessions(m)
      PROVE  QueuesInv' /\ NetInv'
  BY <1>1, <1>6, DeadlinesKept DEF LoseSessions
<1>. QED BY <1>2, <1>3, <1>4, <1>5, <1>6 DEF ExpiryInv

LEMMA LoadedSessions ==
  ASSUME ExpiryInv, NEW ss \in SUBSET Opened
  PROVE  LET q == LoadSessions(ss)
             f == [s \in ss |-> RoundToNextInterval(clock + Timeout[s])]
         IN  /\ GoodQueue(q) /\ NotLater(q.session_to_expiration_time)
             /\ q.session_to_expiration_time = f
             /\ \A s \in ss : f[s] \in clock + Timeout[s] .. clock + Timeout[s] + Interval
<1> DEFINE f == [s \in ss |-> RoundToNextInterval(clock + Timeout[s])]
<1>1. Opened \subseteq Sessions
  BY SessionExpiryAssumption DEF ExpiryInv, SessionTypes, Opened, Sessions
<1>2. \A s \in ss : Timeout[s] \in Nat /\ clock + Timeout[s] \in Nat
  BY <1>1, SessionExpiryAssumption DEF ExpiryInv, ClockTypes, Sessions
<1>3. \A s \in ss : f[s] \in clock + Timeout[s] + 1 .. clock + Timeout[s] + Interval
  BY <1>2, Rounding
<1>4. clock \in Nat /\ Interval \in Nat
  BY SessionExpiryAssumption DEF ExpiryInv, ClockTypes
<1>5. IsDeadlines(f) /\ NotLater(f)
  <2>1. \A s \in ss : f[s] \in Nat /\ f[s] <= clock + Timeout[s] + Interval
    BY <1>2, <1>3, <1>4
  <2>2. DOMAIN f = ss
    OBVIOUS
  <2>. QED BY <1>1, <2>1, <2>2 DEF IsDeadlines, NotLater
<1>6. GoodQueue(EmptyQueue) /\ EmptyQueue.session_to_expiration_time = [s \in {} |-> 0]
  BY DEF GoodQueue, IsDeadlines, Agrees, EmptyQueue
<1>7. Overlaid([s \in {} |-> 0], f) = f
  BY DEF Overlaid
<1>8. GoodQueue(LoadSessions(ss)) /\ LoadSessions(ss).session_to_expiration_time = f
  <2>1. LoadSessions(ss) = SetEach(EmptyQueue, f)
    BY DEF LoadSessions
  <2> HIDE DEF f
  <2>. QED BY <1>5, <1>6, <1>7, <2>1, SetEachOverlays
<1>9. \A s \in ss : f[s] \in clock + Timeout[s] .. clock + Timeout[s] + Interval
  BY <1>2, <1>3, <1>4
<1>. QED BY <1>5, <1>8, <1>9

LEMMA RestartStep ==
  ASSUME ExpiryInv, NEW srv \in Servers, Restart(srv)
  PROVE  ExpiryInv'
<1> DEFINE q == LoadSessions(session_and_timeout[srv])
<1>1. GoodQueue(q) /\ NotLater(q.session_to_expiration_time)
  <2>1. session_and_timeout[srv] \in SUBSET Opened
    BY DEF ExpiryInv, SessionTypes
  <2>. QED BY <2>1, LoadedSessions
<1>2. /\ session_expiry_queue' = [session_expiry_queue EXCEPT ![srv] = q]
      /\ local' = [local EXCEPT ![srv] = {}]
      /\ handshake' = [s \in Sessions |-> IF handshake[s].srv = srv THEN NoHandshake
                                          ELSE handshake[s]]
      /\ UNCHANGED <<clock, leader, session_and_timeout, pending, session_id_counter,
                      closing, last_sync, net, silent, faults>>
      /\ Opened' = Opened /\ Items' = Items
  BY DEF Restart, Opened, Items
<1> HIDE DEF q
<1>3. QueuesInv' /\ NetInv'
  BY <1>1, <1>2, QueueSet
<1>4. SessionTypes'
  <2>1. NoHandshake \in Handshakes /\ ~NoHandshake.granted
    BY DEF NoHandshake, Handshakes
  <2>2. /\ handshake' \in [Sessions -> Handshakes] /\ local' \in [Servers -> SUBSET Opened]
        /\ \A s \in Sessions : handshake'[s].granted => s \in Opened
    BY <1>2, <2>1 DEF ExpiryInv, SessionTypes
  <2>. QED BY <1>2, <2>2 DEF ExpiryInv, SessionTypes, Handshakes
<1>5. ClockTypes'
  BY <1>2 DEF ExpiryInv, ClockTypes
<1>. QED BY <1>3, <1>4, <1>5 DEF ExpiryInv

LEMMA LeaderSteps ==
  ASSUME ExpiryInv, CleanSessions \/ (\E srv \in Servers : Elect(srv)) \/ Tick
  PROVE  ExpiryInv'
<1> USE SessionExpiryAssumption
<1>0. UNCHANGED <<session_expiry_queue, session_and_timeout, pending, session_id_counter,
                  last_sync, net, faults>>
  BY DEF CleanSessions, Elect, Tick
<1>1. /\ UNCHANGED <<session_expiry_queue, session_and_timeout, pending, session_id_counter,
                      last_sync, net, faults>>
      /\ clock \in Nat /\ Opened' = Opened /\ Items' = Items
  BY <1>0 DEF ExpiryInv, ClockTypes, Opened, Items
<1>2. clock' \in clock .. MaxClock /\ leader' \in Servers
  BY DEF CleanSessions, Elect, Tick, ExpiryInv, ClockTypes
<1>3. QueuesInv' /\ NetInv'
  BY <1>1, <1>2, DeadlinesKept
<1>4. silent' \in [Sessions -> 0 .. HeartbeatPeriod]
  <2>1. silent \in [Sessions -> 0 .. HeartbeatPeriod]
    BY DEF ExpiryInv, ClockTypes
  <2>2. \A s \in Sessions : Least(silent[s] + 1, HeartbeatPeriod) \in 0 .. HeartbeatPeriod
    BY <2>1 DEF Least
  <2>. QED BY <2>1, <2>2, SMTT(30) DEF CleanSessions, Elect, Tick
<1>5. ClockTypes'
  BY <1>1, <1>2, <1>4 DEF ExpiryInv, ClockTypes
<1>6. /\ local' \in [Servers -> SUBSET Opened] /\ closing' \in SUBSET Opened
  <2> DEFINE dead == GetExpiredSessions(session_expiry_queue[leader])
  <2>1. dead \subseteq Opened
    BY ExpiredAreOpened DEF ExpiryInv, ClockTypes, QueuesInv, NotLater
  <2>2. CASE CleanSessions
    <3>1. local' = [local EXCEPT ![leader] = @ \ dead] /\ closing' = closing \cup dead
      BY <2>2 DEF CleanSessions
    <3> HIDE DEF dead
    <3>. QED BY <2>1, <3>1 DEF ExpiryInv, SessionTypes
  <2>3. CASE ~CleanSessions
    BY <2>3 DEF Elect, Tick, ExpiryInv, SessionTypes
  <2>. QED BY <2>2, <2>3
<1>7. /\ handshake' \in [Sessions -> Handshakes]
      /\ \A s \in Sessions : handshake'[s].granted => handshake[s].granted
  <2>1. NoHandshake \in Handshakes /\ ~NoHandshake.granted
    BY DEF NoHandshake, Handshakes
  <2>. QED BY <2>1 DEF CleanSessions, Elect, Tick, ExpiryInv, SessionTypes
<1>8. SessionTypes'
  BY <1>1, <1>6, <1>7 DEF ExpiryInv, SessionTypes, Handshakes
<1>. QED BY <1>3, <1>5, <1>8 DEF ExpiryInv

LEMMA ExpiryNext == ExpiryInv /\ [Next]_vars => ExpiryInv'
<1> SUFFICES ASSUME ExpiryInv, [Next]_vars PROVE ExpiryInv'
  OBVIOUS
<1>1. CASE UNCHANGED vars
  BY <1>1 DEF vars, ExpiryInv, SessionTypes, ClockTypes, QueuesInv, NetInv, NotLater, Times,
     Opened, Items
<1>2. CASE Next
  BY <1>2, ClientSteps, HeartbeatStep, ApplySessionOpStep, ApplyWriteStep, ApplyCloseStep,
     MessageSteps, RestartStep, LeaderSteps DEF Next
<1>. QED BY <1>1, <1>2

(* The inductive invariant: types, deadlines that are recorded only for     *)
(* sessions that were opened, and the agreement of the two maps of every    *)
(* SessionExpiryQueue, kept by each operation on it and by every message.   *)
THEOREM ExpiryInvHolds == Spec => []ExpiryInv
BY ExpiryInit, ExpiryNext, PTL DEF Spec

(* The state keeps its types: sessions that are known, local, closing or   *)
(* in an entry have been opened, deadlines are of such sessions, and the   *)
(* watch of a follower is never ahead of its clock.                        *)
THEOREM ExpiryTypeCorrect == Spec => []TypeOK
<1>1. ExpiryInv => TypeOK
  <2> SUFFICES ASSUME ExpiryInv PROVE TypeOK
    OBVIOUS
  <2>1. ASSUME NEW srv \in Servers
        PROVE  /\ DOMAIN session_expiry_queue[srv].session_to_expiration_time \subseteq Opened
               /\ session_and_timeout[srv] \subseteq Opened
               /\ local[srv] \subseteq Opened
               /\ \A k \in DOMAIN pending[srv] :
                      pending[srv][k] \in [op : SessionOps \cup {"write", "close"},
                                          session : Opened]
               /\ last_sync[srv] \in 0 .. clock
    <3>1. DOMAIN session_expiry_queue[srv].session_to_expiration_time \subseteq Opened
      BY DEF ExpiryInv, QueuesInv, NotLater, Times
    <3>2. pending[srv] \in Seq(Items)
      BY DEF ExpiryInv, SessionTypes
    <3>3. \A k \in DOMAIN pending[srv] : pending[srv][k] \in Items
      BY <3>2, ElementOfSeq, LenProperties
    <3>. QED BY <3>1, <3>3 DEF ExpiryInv, SessionTypes, ClockTypes, Items, Ops
  <2>. QED BY <2>1 DEF ExpiryInv, SessionTypes, ClockTypes, TypeOK, Handshakes
<1>. QED BY <1>1, ExpiryInvHolds, PTL

(* The two maps of SessionExpiryQueue agree on every server: remove and    *)
(* setSessionExpirationTime, which dereference the iterator of a session's *)
(* bucket unseen, always find it, through requests, messages that arrive   *)
(* in any order, restarts and elections.                                   *)
THEOREM BucketsAgreeHolds == Spec => []BucketsAgree
<1>1. ExpiryInv => BucketsAgree
  BY DEF ExpiryInv, QueuesInv, GoodQueue, Agrees, BucketsAgree
<1>. QED BY <1>1, ExpiryInvHolds, PTL

-----------------------------------------------------------------------------
(* SessionExpiry implements SessionTimeouts.                               *)

(* The deadlines of the servers when the queue of one of them is set.      *)
LEMMA OneMoves ==
  ASSUME ExpiryInv, NEW srv \in Servers, NEW q,
         session_expiry_queue' = [session_expiry_queue EXCEPT ![srv] = q]
  PROVE  /\ Times(srv)' = q.session_to_expiration_time
         /\ \A x \in Servers \ {srv} : Times(x)' = Times(x)
BY DEF ExpiryInv, QueuesInv, Times

LEMMA HearStep ==
  ASSUME ExpiryInv, UNCHANGED <<clock, leader, closing>>,
         NEW srv \in Servers, NEW s \in Opened, NEW heard \in BOOLEAN,
         session_expiry_queue' =
             [session_expiry_queue EXCEPT
                 ![srv] = IF heard THEN AddNewSessionOrUpdate(@, s) ELSE @]
  PROVE  [ST!Next]_(ST!vars)
<1> DEFINE q == AddNewSessionOrUpdate(session_expiry_queue[srv], s)
           t == RoundToNextInterval(clock + Timeout[s])
<1>1. /\ q.session_to_expiration_time = With(Times(srv), s, t)
      /\ t \in clock + Timeout[s] .. clock + Timeout[s] + Interval
  BY Hears
<1>2. CASE heard
  <2>1. session_expiry_queue' = [session_expiry_queue EXCEPT ![srv] = q]
    BY <1>2
  <2> HIDE DEF q, t
  <2>2. /\ Times(srv)' = With(Times(srv), s, t)
        /\ \A x \in Servers \ {srv} : Times(x)' = Times(x)
    BY <1>1, <2>1, OneMoves
  <2>3. /\ DOMAIN Times(srv)' = DOMAIN Times(srv) \cup {s}
        /\ Times(srv)'[s] = t
        /\ \A x \in DOMAIN Times(srv) \ {s} : Times(srv)'[x] = Times(srv)[x]
    BY <2>2 DEF With
  <2>4. Restrict(Times(srv)', DOMAIN Times(srv) \ {s})
          = Restrict(Times(srv), DOMAIN Times(srv) \ {s})
    BY <2>3 DEF Restrict
  <2>5. ST!Hear(srv, s)
    BY <1>1, <2>2, <2>3, <2>4 DEF ST!Hear, ST!Others, ST!Deadlines, ST!Restrict, Restrict, Times
  <2>6. s \in Sessions
    BY SessionExpiryAssumption DEF ExpiryInv, SessionTypes, Opened, Sessions
  <2>. QED BY <2>5, <2>6 DEF ST!Next
<1>3. CASE ~heard
  BY <1>3 DEF ST!vars, ExpiryInv, QueuesInv
<1>. QED BY <1>2, <1>3

LEMMA ForgetStep ==
  ASSUME ExpiryInv, NEW srv \in Servers, ApplyClose(srv)
  PROVE  [ST!Next]_(ST!vars)
<1>1. PICK s \in Sessions : s = Head(pending[srv]).session
  BY HeadType, SessionExpiryAssumption
     DEF ApplyClose, ExpiryInv, SessionTypes, Opened, Sessions
<1> DEFINE q == RemoveSession(session_expiry_queue[srv], s)
<1>2. q.session_to_expiration_time = Restrict(Times(srv), DOMAIN Times(srv) \ {s})
  BY RemoveOne DEF ExpiryInv, QueuesInv, Times, Without
<1>3. session_expiry_queue' = [session_expiry_queue EXCEPT ![srv] = q]
      /\ UNCHANGED <<clock, leader, closing>>
  BY <1>1 DEF ApplyClose
<1> HIDE DEF q
<1>4. /\ Times(srv)' = Restrict(Times(srv), DOMAIN Times(srv) \ {s})
      /\ \A x \in Servers \ {srv} : Times(x)' = Times(x)
  BY <1>2, <1>3, OneMoves
<1>5. ST!Forget(srv, s)
  <2> DEFINE expiry == [x \in Servers |-> Times(x)]
  <2>1. expiry' = [expiry EXCEPT ![srv] = Restrict(@, DOMAIN @ \ {s})]
    BY <1>4
  <2>. QED BY <1>3, <2>1 DEF ST!Forget, ST!Restrict, Restrict, Times
<1>. QED BY <1>5 DEF ST!Next

LEMMA TakeOverStep ==
  ASSUME ExpiryInv, NEW m \in net, ReceiveSessions(m)
  PROVE  [ST!Next]_(ST!vars)
<1> DEFINE q == SetEach(session_expiry_queue[m.to], m.deadlines)
<1>1. /\ m.to \in Servers
      /\ q.session_to_expiration_time = Overlaid(Times(m.to), m.deadlines)
  BY SetEachOverlays DEF ExpiryInv, QueuesInv, NetInv, Times
<1>2. /\ session_expiry_queue' = [session_expiry_queue EXCEPT ![m.to] = q]
      /\ UNCHANGED <<clock, leader, closing>>
  BY DEF ReceiveSessions, HandleRemoteSessions
<1> HIDE DEF q
<1>3. /\ Times(m.to)' = Overlaid(Times(m.to), m.deadlines)
      /\ \A x \in Servers \ {m.to} : Times(x)' = Times(x)
  BY <1>1, <1>2, OneMoves
<1>4. /\ DOMAIN m.deadlines \in SUBSET Sessions
      /\ \A s \in DOMAIN m.deadlines : m.deadlines[s] <= clock + Timeout[s] + Interval
  BY DEF ExpiryInv, NetInv, IsDeadlines, NotLater
<1>5. ST!TakeOver(m.to, DOMAIN m.deadlines)
  BY <1>1, <1>2, <1>3, <1>4 DEF ST!TakeOver, ST!Others, Overlaid, Times
<1>. QED BY <1>1, <1>4, <1>5 DEF ST!Next

LEMMA LoadStep ==
  ASSUME ExpiryInv, NEW srv \in Servers, Restart(srv)
  PROVE  [ST!Next]_(ST!vars)
<1>1. PICK ss \in SUBSET Sessions : ss = session_and_timeout[srv] /\ ss \in SUBSET Opened
  BY SessionExpiryAssumption DEF ExpiryInv, SessionTypes, Opened, Sessions
<1> DEFINE q == LoadSessions(ss)
<1>2. /\ DOMAIN q.session_to_expiration_time = ss
      /\ \A s \in ss : q.session_to_expiration_time[s]
                         \in clock + Timeout[s] .. clock + Timeout[s] + Interval
  BY <1>1, LoadedSessions
<1>3. /\ session_expiry_queue' = [session_expiry_queue EXCEPT ![srv] = q]
      /\ UNCHANGED <<clock, leader, closing>>
  BY <1>1 DEF Restart
<1> HIDE DEF q
<1>4. /\ Times(srv)' = q.session_to_expiration_time
      /\ \A x \in Servers \ {srv} : Times(x)' = Times(x)
  BY <1>3, OneMoves
<1>5. ST!Load(srv, ss)
  BY <1>2, <1>3, <1>4 DEF ST!Load, ST!Others, ST!Deadlines, Times
<1>. QED BY <1>1, <1>5 DEF ST!Next

(* Whatever a step of a client, a server or a message does, it is a step   *)
(* of the abstract deadlines or leaves them alone.                         *)
LEMMA StepImplements ==
  ASSUME ExpiryInv, [Next]_vars
  PROVE  [ST!Next]_(ST!vars)
<1>1. ASSUME UNCHANGED <<clock, leader, session_expiry_queue, closing>>
      PROVE  [ST!Next]_(ST!vars)
  BY <1>1 DEF ST!vars
<1>2. CASE UNCHANGED vars
  BY <1>1, <1>2 DEF vars
<1>3. ASSUME NEW s \in Sessions, Register(s) \/ GiveUp(s)
      PROVE  [ST!Next]_(ST!vars)
  BY <1>1, <1>3 DEF Register, GiveUp
<1>4. ASSUME NEW s \in Sessions, CommitClose(s)
      PROVE  [ST!Next]_(ST!vars)
  BY <1>4 DEF CommitClose, ExpiryInv, ClockTypes, ST!Release, ST!Next
<1>5. ASSUME NEW srv \in Servers, NEW s \in Sessions,
             \/ AskUpdate(srv, s) \/ Disconnect(srv, s)
             \/ Write("write", srv, s) \/ Write("close", srv, s)
      PROVE  [ST!Next]_(ST!vars)
  BY <1>1, <1>5 DEF AskUpdate, Disconnect, Write
<1>6. ASSUME NEW srv \in Servers, NEW s \in Sessions, Heartbeat(srv, s)
      PROVE  [ST!Next]_(ST!vars)
  <2>1. /\ s \in Opened /\ UNCHANGED <<clock, leader, closing>>
        /\ session_expiry_queue' = [session_expiry_queue EXCEPT
               ![srv] = IF TRUE THEN AddNewSessionOrUpdate(@, s) ELSE @]
    BY <1>6 DEF Heartbeat, ExpiryInv, SessionTypes
  <2>. QED BY <2>1, HearStep
<1>7. ASSUME NEW srv \in Servers, AskSession(srv) \/ SendSessions(srv)
      PROVE  [ST!Next]_(ST!vars)
  BY <1>1, <1>7 DEF AskSession, SendSessions
<1>8. ASSUME NEW srv \in Servers, ApplySessionOp(srv)
      PROVE  [ST!Next]_(ST!vars)
  <2> DEFINE e == pending[srv][FirstSessionOp(srv)]
  <2>1. e.session \in Opened
    BY <1>8, FirstSessionOpType DEF ApplySessionOp, Items
  <2>2. /\ session_expiry_queue' = [session_expiry_queue EXCEPT
               ![srv] = IF e.session \in session_and_timeout'[srv]
                        THEN AddNewSessionOrUpdate(@, e.session) ELSE @]
        /\ UNCHANGED <<clock, leader, closing>>
    BY <1>8 DEF ApplySessionOp
  <2>3. (e.session \in session_and_timeout'[srv]) \in BOOLEAN
    OBVIOUS
  <2> HIDE DEF e
  <2>. QED BY <2>1, <2>2, <2>3, HearStep
<1>9. ASSUME NEW srv \in Servers, ApplyWrite(srv)
      PROVE  [ST!Next]_(ST!vars)
  <2> DEFINE s == Head(pending[srv]).session
  <2>1. s \in Opened
    BY <1>9, HeadType DEF ApplyWrite
  <2>2. /\ session_expiry_queue' = [session_expiry_queue EXCEPT
               ![srv] = IF s \in session_and_timeout[srv]
                        THEN AddNewSessionOrUpdate(@, s) ELSE @]
        /\ UNCHANGED <<clock, leader, closing>>
    BY <1>9 DEF ApplyWrite
  <2>3. (s \in session_and_timeout[srv]) \in BOOLEAN
    OBVIOUS
  <2> HIDE DEF s
  <2>. QED BY <2>1, <2>2, <2>3, HearStep
<1>10. ASSUME NEW srv \in Servers, Elect(srv)
       PROVE  [ST!Next]_(ST!vars)
  BY <1>10 DEF Elect, ST!Release, ST!Next
<1>11. ASSUME NEW m \in net, LoseSessions(m)
       PROVE  [ST!Next]_(ST!vars)
  BY <1>1, <1>11 DEF LoseSessions
<1>12. ASSUME CleanSessions
       PROVE  [ST!Next]_(ST!vars)
  <2>1. /\ closing' = closing \cup {s \in DOMAIN Times(leader) : Times(leader)[s] <= clock}
        /\ leader \in Servers /\ UNCHANGED <<clock, leader, session_expiry_queue>>
    BY <1>12, ExpiredAreOpened DEF CleanSessions, ExpiryInv, ClockTypes
  <2>2. ST!Condemn
    BY <2>1 DEF ST!Condemn, Times
  <2>. QED BY <2>2 DEF ST!Next
<1>13. ASSUME Tick PROVE [ST!Next]_(ST!vars)
  BY <1>13 DEF Tick, ST!Tick, ST!Next
<1>. QED
  BY <1>2, <1>3, <1>4, <1>5, <1>6, <1>7, <1>8, <1>9, <1>10, <1>11, <1>12, <1>13,
     ForgetStep, TakeOverStep, LoadStep DEF Next

(* Through buckets, the log, messages and restarts, the leader condemns    *)
(* exactly the sessions whose deadline there has passed, and a deadline    *)
(* moves only when its server hears of the session, forgets it, loads it   *)
(* or is told one that was known elsewhere, never one that is later than   *)
(* what would be set now.                                                  *)
THEOREM ExpiryImplementsTimeouts == Spec => ImplementsTimeouts
<1>1. Init => ST!Init
  BY SessionExpiryAssumption DEF Init, EmptyQueue, ST!Init
<1>2. ExpiryInv /\ [Next]_vars => [ST!Next]_(ST!vars)
  BY StepImplements
<1>. QED BY <1>1, <1>2, ExpiryInvHolds, PTL DEF Spec, ImplementsTimeouts, ST!Spec
=============================================================================
