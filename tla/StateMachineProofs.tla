------------------------- MODULE StateMachineProofs -------------------------
(***************************************************************************)
(* Proofs about the state machine: committing, snapshots and recovery, for *)
(* any requests, batch sizes, snapshot distances and number of kills.      *)
(***************************************************************************)
EXTENDS StateMachine, IntervalInduction, SequenceTheorems, TLAPS

-----------------------------------------------------------------------------
(* Applying entries                                                        *)

(* The recursive function in Apply exists, and its value for n + 1 is that *)
(* for n with one more entry.                                              *)
LEMMA ApplyUnrolls ==
  ASSUME NEW st, NEW entries, NEW done \in Nat, NEW waiting
  PROVE  /\ Apply(st, entries, done, done, waiting) = st
         /\ \A n \in Nat : n >= done =>
              Apply(st, entries, done, n + 1, waiting)
                = IF n + 1 \in waiting THEN Apply(st, entries, done, n, waiting)
                  ELSE ReplayEntry(Apply(st, entries, done, n, waiting), entries[n + 1])
<1> DEFINE next(s, k) == IF k \in waiting THEN s ELSE ReplayEntry(s, entries[k])
           Unrolls(g, m) == g = [k \in done .. m |-> IF k = done THEN st ELSE next(g[k - 1], k)]
<1>1. ASSUME NEW m \in Nat, m >= done
      PROVE  \E g : Unrolls(g, m)
  <2> DEFINE T == {k \in done .. m : \E g : Unrolls(g, k)}
  <2>1. done \in T
    <3> DEFINE g == [k \in done .. done |-> st]
    <3>1. Unrolls(g, done)
      OBVIOUS
    <3> HIDE DEF Unrolls, g
    <3>. QED BY <1>1, <3>1
  <2>2. ASSUME NEW k \in done .. m - 1, k \in T PROVE k + 1 \in T
    <3>1. PICK g : Unrolls(g, k)
      BY <2>2
    <3> DEFINE h == [j \in done .. k + 1 |-> IF j = k + 1 THEN next(g[k], k + 1) ELSE g[j]]
    <3>2. Unrolls(h, k + 1)
      <4> HIDE DEF next
      <4>1. ASSUME NEW j \in done .. k + 1
            PROVE  h[j] = IF j = done THEN st ELSE next(h[j - 1], j)
        <5>1. CASE j = k + 1
          BY <5>1
        <5>2. CASE j # k + 1
          BY <3>1, <5>2
        <5>. QED BY <5>1, <5>2
      <4>. QED BY <4>1
    <3> HIDE DEF Unrolls, h
    <3>. QED BY <3>2
  <2> HIDE DEF T
  <2>3. \A k \in done .. m : k \in T
    BY <2>1, <2>2, FromTo
  <2>. QED BY <1>1, <2>3 DEF T
<1>2. ASSUME NEW m \in Nat, m >= done, NEW n \in Nat, n >= m,
             NEW g, NEW h, Unrolls(g, m), Unrolls(h, n)
      PROVE  g[m] = h[m]
  <2> DEFINE T == {k \in done .. m : g[k] = h[k]}
  <2> HIDE DEF next
  <2>1. done \in T
    BY <1>2
  <2>2. ASSUME NEW k \in done .. m - 1, k \in T PROVE k + 1 \in T
    BY <1>2, <2>2
  <2> HIDE DEF T, Unrolls
  <2>3. \A k \in done .. m : k \in T
    BY <2>1, <2>2, FromTo
  <2>. QED BY <1>2, <2>3 DEF T
<1>3. ASSUME NEW m \in Nat, m >= done
      PROVE  \E g : Unrolls(g, m) /\ Apply(st, entries, done, m, waiting) = g[m]
  <2>1. PICK g : Unrolls(g, m)
    BY <1>1, <1>3
  <2>. QED BY <2>1 DEF Apply
<1>4. Apply(st, entries, done, done, waiting) = st
  <2>1. PICK g : Unrolls(g, done) /\ Apply(st, entries, done, done, waiting) = g[done]
    BY <1>3
  <2>. QED BY <2>1
<1>5. ASSUME NEW n \in Nat, n >= done
      PROVE  Apply(st, entries, done, n + 1, waiting)
               = next(Apply(st, entries, done, n, waiting), n + 1)
  <2>1. PICK g : Unrolls(g, n) /\ Apply(st, entries, done, n, waiting) = g[n]
    BY <1>3, <1>5
  <2>2. PICK h : Unrolls(h, n + 1) /\ Apply(st, entries, done, n + 1, waiting) = h[n + 1]
    <3>1. n + 1 \in Nat /\ n + 1 >= done
      BY <1>5
    <3>. QED BY <1>3, <3>1
  <2>3. g[n] = h[n]
    <3> HIDE DEF Unrolls
    <3>. QED BY <1>2, <1>5, <2>1, <2>2
  <2> HIDE DEF next
  <2>4. h[n + 1] = next(h[n], n + 1)
    BY <1>5, <2>2
  <2>. QED BY <2>1, <2>2, <2>3, <2>4
<1>. QED BY <1>4, <1>5

(* Only the entries that are applied and those that wait matter.           *)
LEMMA ApplySame ==
  ASSUME NEW st, NEW a, NEW b, NEW done \in Nat, NEW n \in Nat, n >= done, NEW v, NEW w,
         \A k \in done + 1 .. n : (k \in v <=> k \in w) /\ (k \notin v => a[k] = b[k])
  PROVE  Apply(st, a, done, n, v) = Apply(st, b, done, n, w)
<1> DEFINE T == {k \in done .. n : Apply(st, a, done, k, v) = Apply(st, b, done, k, w)}
<1>1. done \in T
  <2>1. Apply(st, a, done, done, v) = st
    BY ApplyUnrolls
  <2>2. Apply(st, b, done, done, w) = st
    BY ApplyUnrolls
  <2>. QED BY <2>1, <2>2
<1>2. ASSUME NEW k \in done .. n - 1, k \in T PROVE k + 1 \in T
  <2>1. k \in Nat /\ k >= done /\ k + 1 \in done + 1 .. n
    OBVIOUS
  <2>2. Apply(st, a, done, k + 1, v) = Apply(st, b, done, k + 1, w)
    BY <1>2, <2>1, ApplyUnrolls
  <2>. QED BY <2>1, <2>2
<1> HIDE DEF T
<1>3. \A k \in done .. n : k \in T
  BY <1>1, <1>2, FromTo
<1>. QED BY <1>3 DEF T

(* Entries may be applied in two parts.                                    *)
LEMMA ApplyParts ==
  ASSUME NEW st, NEW entries, NEW a \in Nat, NEW b \in Nat, NEW c \in Nat, a <= b, b <= c,
         NEW w
  PROVE  Apply(Apply(st, entries, a, b, w), entries, b, c, w) = Apply(st, entries, a, c, w)
<1> DEFINE mid == Apply(st, entries, a, b, w)
           T == {k \in b .. c : Apply(mid, entries, b, k, w) = Apply(st, entries, a, k, w)}
<1> HIDE DEF mid
<1>1. b \in T
  BY ApplyUnrolls, SMTT(30) DEF mid
<1>2. ASSUME NEW k \in b .. c - 1, k \in T PROVE k + 1 \in T
  <2>1. k \in Nat /\ k >= a /\ k >= b /\ k + 1 \in b .. c
    OBVIOUS
  <2>2. Apply(mid, entries, b, k + 1, w) = Apply(st, entries, a, k + 1, w)
    BY <1>2, <2>1, ApplyUnrolls
  <2>. QED BY <2>1, <2>2
<1> HIDE DEF T
<1>3. \A k \in b .. c : k \in T
  BY <1>1, <1>2, FromTo
<1>. QED BY <1>3 DEF T, mid

-----------------------------------------------------------------------------
(* The store                                                               *)

StoreOf(z, c, ss, ns) == [zxid |-> z, session_id_counter |-> c, sessions |-> ss, nodes |-> ns]

IsStore(st) ==
    /\ st = StoreOf(st.zxid, st.session_id_counter, st.sessions, st.nodes)
    /\ st.zxid \in Nat /\ st.session_id_counter \in Nat /\ st.sessions \subseteq Nat

LEMMA EmptyIsStore == IsStore(EmptyStore) /\ EmptyStore = StoreOf(1, 1, {}, {})
BY DEF EmptyStore, IsStore, StoreOf

LEMMA EntryKinds ==
  /\ Session \notin Requests /\ Config \notin Requests /\ Session # Config
  /\ \A r \in Requests : r.op \in {"create", "set", "close"} /\ r.session \in Nat \ {0}
BY StateMachineAssumption DEF Session, Config

LEMMA NewSessionIs ==
  ASSUME NEW st, IsStore(st)
  PROVE  NewSession(st) = StoreOf(st.zxid + 1, st.session_id_counter + 1,
                                  st.sessions \cup {st.session_id_counter}, st.nodes)
<1> DEFINE c == st.session_id_counter
           a == [st EXCEPT !.zxid = @ + 1]
           b == [a EXCEPT !.session_id_counter = @ + 1]
<1>1. NewSession(st) = [b EXCEPT !.sessions = @ \cup {c}]
  BY DEF NewSession
<1>2. a = StoreOf(st.zxid + 1, c, st.sessions, st.nodes)
  BY DEF IsStore, StoreOf
<1> HIDE DEF a
<1>3. b = StoreOf(st.zxid + 1, c + 1, st.sessions, st.nodes)
  BY <1>2 DEF StoreOf
<1> HIDE DEF b
<1>. QED BY <1>1, <1>3 DEF StoreOf

(* What a request makes of the nodes does not depend on the counter, and   *)
(* on the sessions only by its own.                                        *)
ProcessedNodes(ns, live, r) ==
    IF r.op = "close" THEN {n \in ns : n.owner # r.session}
    ELSE IF ~live THEN ns
    ELSE IF r.op = "create"
    THEN IF {n \in ns : n.path = r.path} # {} THEN ns
         ELSE ns \cup {[path |-> r.path, owner |-> r.session, version |-> 0]}
    ELSE (ns \ {n \in ns : n.path = r.path})
            \cup {[n EXCEPT !.version = @ + 1] : n \in {n \in ns : n.path = r.path}}

LEMMA ProcessRequestIs ==
  ASSUME NEW st, IsStore(st), NEW r \in Requests
  PROVE  ProcessRequest(st, r)
           = StoreOf(IF r.op = "close" \/ r.session \in st.sessions THEN st.zxid + 1 ELSE st.zxid,
                     st.session_id_counter,
                     IF r.op = "close" THEN st.sessions \ {r.session} ELSE st.sessions,
                     ProcessedNodes(st.nodes, r.session \in st.sessions, r))
<1>1. r.op \in {"create", "set", "close"}
  BY EntryKinds
<1>2. CASE r.op = "close"
  <2>1. ProcessRequest(st, r) = [st EXCEPT !.zxid = @ + 1, !.sessions = @ \ {r.session},
                                          !.nodes = {n \in @ : n.owner # r.session}]
    BY <1>2 DEF ProcessRequest
  <2>. QED BY <1>2, <2>1 DEF ProcessedNodes, IsStore, StoreOf
<1>3. CASE r.op # "close" /\ r.session \notin st.sessions
  <2>1. ProcessRequest(st, r) = st
    BY <1>3 DEF ProcessRequest
  <2>. QED BY <1>3, <2>1 DEF ProcessedNodes, IsStore
<1>4. CASE r.op = "create" /\ r.session \in st.sessions
  <2>1. ProcessRequest(st, r)
          = [st EXCEPT !.zxid = @ + 1, !.nodes = ProcessedNodes(@, TRUE, r)]
    BY <1>4 DEF ProcessRequest, ProcessedNodes, At
  <2>. QED BY <1>4, <2>1 DEF IsStore, StoreOf
<1>5. CASE r.op = "set" /\ r.session \in st.sessions
  <2>1. ProcessRequest(st, r)
          = [st EXCEPT !.zxid = @ + 1, !.nodes = ProcessedNodes(@, TRUE, r)]
    BY <1>5 DEF ProcessRequest, ProcessedNodes, At
  <2>. QED BY <1>5, <2>1 DEF IsStore, StoreOf
<1>. QED BY <1>1, <1>2, <1>3, <1>4, <1>5

(* Entries keep the store a store; only sessions move its counter.         *)
LEMMA EntryStore ==
  ASSUME NEW st, IsStore(st), NEW e \in Entries
  PROVE  /\ IsStore(ReplayEntry(st, e))
         /\ ReplayEntry(st, e).session_id_counter
              = IF e = Session THEN st.session_id_counter + 1 ELSE st.session_id_counter
<1>0. st.zxid \in Nat /\ st.session_id_counter \in Nat /\ st.sessions \in SUBSET Nat
  BY DEF IsStore
<1>1. CASE e = Session
  <2>1. ReplayEntry(st, e) = StoreOf(st.zxid + 1, st.session_id_counter + 1,
                                     st.sessions \cup {st.session_id_counter}, st.nodes)
    BY <1>1, NewSessionIs, EntryKinds DEF ReplayEntry
  <2>. QED BY <1>0, <1>1, <2>1 DEF StoreOf, IsStore
<1>2. CASE e = Config
  BY <1>2, EntryKinds DEF ReplayEntry
<1>3. CASE e \in Requests
  <2>1. ReplayEntry(st, e) = ProcessRequest(st, e) /\ e # Session
    BY <1>3, EntryKinds DEF ReplayEntry
  <2>2. /\ (IF e.op = "close" \/ e.session \in st.sessions THEN st.zxid + 1 ELSE st.zxid) \in Nat
        /\ (IF e.op = "close" THEN st.sessions \ {e.session} ELSE st.sessions) \in SUBSET Nat
    BY <1>0
  <2>3. PICK z, ss, ns :
            /\ z \in Nat /\ ss \in SUBSET Nat
            /\ ReplayEntry(st, e) = StoreOf(z, st.session_id_counter, ss, ns)
    BY <1>3, <2>1, <2>2, ProcessRequestIs
  <2>. QED BY <1>0, <2>1, <2>3 DEF StoreOf, IsStore
<1>. QED BY <1>1, <1>2, <1>3 DEF Entries

(* A request of a session that exists and the opening of another may be    *)
(* applied in either order.                                                *)
LEMMA RequestCommutes ==
  ASSUME NEW st, IsStore(st), NEW r \in Requests, r.session < st.session_id_counter
  PROVE  ProcessRequest(NewSession(st), r) = NewSession(ProcessRequest(st, r))
<1>0. /\ st.zxid \in Nat /\ st.session_id_counter \in Nat /\ st.sessions \in SUBSET Nat
      /\ r.session \in Nat /\ r.session # st.session_id_counter
  BY EntryKinds DEF IsStore
<1> DEFINE a == NewSession(st)
           b == ProcessRequest(st, r)
           c == st.session_id_counter
           live == r.session \in st.sessions
<1>1. /\ IsStore(a) /\ a.zxid = st.zxid + 1 /\ a.session_id_counter = c + 1
      /\ a.sessions = st.sessions \cup {c} /\ a.nodes = st.nodes
  <2>1. a = StoreOf(st.zxid + 1, c + 1, st.sessions \cup {c}, st.nodes)
    BY NewSessionIs
  <2> HIDE DEF a
  <2>. QED BY <1>0, <2>1 DEF StoreOf, IsStore
<1>2. /\ IsStore(b) /\ b.zxid = (IF r.op = "close" \/ live THEN st.zxid + 1 ELSE st.zxid)
      /\ b.session_id_counter = c
      /\ b.sessions = (IF r.op = "close" THEN st.sessions \ {r.session} ELSE st.sessions)
      /\ b.nodes = ProcessedNodes(st.nodes, live, r)
  <2>1. /\ (IF r.op = "close" \/ live THEN st.zxid + 1 ELSE st.zxid) \in Nat
        /\ (IF r.op = "close" THEN st.sessions \ {r.session} ELSE st.sessions) \in SUBSET Nat
    BY <1>0
  <2>2. PICK z, ss, ns :
            /\ z \in Nat /\ ss \in SUBSET Nat
            /\ b = StoreOf(z, c, ss, ns) /\ ns = ProcessedNodes(st.nodes, live, r)
            /\ z = (IF r.op = "close" \/ live THEN st.zxid + 1 ELSE st.zxid)
            /\ ss = (IF r.op = "close" THEN st.sessions \ {r.session} ELSE st.sessions)
    BY <2>1, ProcessRequestIs
  <2> HIDE DEF b, live
  <2>. QED BY <1>0, <2>2 DEF StoreOf, IsStore
<1> HIDE DEF a, b
<1>3. (r.session \in a.sessions) = live
  BY <1>0, <1>1
<1>4. ProcessRequest(a, r)
        = StoreOf(IF r.op = "close" \/ live THEN a.zxid + 1 ELSE a.zxid, a.session_id_counter,
                  IF r.op = "close" THEN a.sessions \ {r.session} ELSE a.sessions,
                  ProcessedNodes(a.nodes, live, r))
  BY <1>1, <1>3, ProcessRequestIs
<1>5. NewSession(b) = StoreOf(b.zxid + 1, b.session_id_counter + 1, b.sessions \cup {c}, b.nodes)
  BY <1>2, NewSessionIs
<1>6. (IF r.op = "close" \/ live THEN a.zxid + 1 ELSE a.zxid) = b.zxid + 1
  BY <1>0, <1>1, <1>2
<1>7. (IF r.op = "close" THEN a.sessions \ {r.session} ELSE a.sessions) = b.sessions \cup {c}
  BY <1>0, <1>1, <1>2
<1>. QED BY <1>1, <1>2, <1>4, <1>5, <1>6, <1>7 DEF a, b

(* Entries that are applied keep the store a store.                        *)
LEMMA ApplyStore ==
  ASSUME NEW st, IsStore(st), NEW entries, NEW done \in Nat, NEW n \in Nat, n >= done, NEW w,
         \A k \in done + 1 .. n : k \notin w => entries[k] \in Entries
  PROVE  IsStore(Apply(st, entries, done, n, w))
<1> DEFINE T == {k \in done .. n : IsStore(Apply(st, entries, done, k, w))}
<1>1. done \in T
  <2>1. Apply(st, entries, done, done, w) = st
    BY ApplyUnrolls
  <2>. QED BY <2>1
<1>2. ASSUME NEW k \in done .. n - 1, k \in T PROVE k + 1 \in T
  <2>1. k \in Nat /\ k >= done /\ k + 1 \in done + 1 .. n
    OBVIOUS
  <2>2. IsStore(Apply(st, entries, done, k + 1, w))
    <3>1. CASE k + 1 \in w
      BY <1>2, <2>1, <3>1, ApplyUnrolls
    <3>2. CASE k + 1 \notin w
      <4>1. entries[k + 1] \in Entries
        BY <2>1, <3>2
      <4>2. IsStore(ReplayEntry(Apply(st, entries, done, k, w), entries[k + 1]))
        BY <1>2, <4>1, EntryStore
      <4>. QED BY <2>1, <3>2, <4>2, ApplyUnrolls
    <3>. QED BY <3>1, <3>2
  <2>. QED BY <2>1, <2>2
<1> HIDE DEF T
<1>3. \A k \in done .. n : k \in T
  BY <1>1, <1>2, FromTo
<1>. QED BY <1>3 DEF T

SessionsIn(entries, n) == {k \in 1 .. n : entries[k] = Session}

LEMMA SessionsCounted ==
  ASSUME NEW entries, NEW n \in Nat
  PROVE  /\ Cardinality(SessionsIn(entries, n)) \in Nat
         /\ \A m \in 0 .. n : Cardinality(SessionsIn(entries, m))
                                  <= Cardinality(SessionsIn(entries, n))
         /\ Cardinality(SessionsIn(entries, 0)) = 0
         /\ Cardinality(SessionsIn(entries, n + 1))
              = IF entries[n + 1] = Session THEN Cardinality(SessionsIn(entries, n)) + 1
                ELSE Cardinality(SessionsIn(entries, n))
<1> DEFINE S(m) == SessionsIn(entries, m)
<1>1. IsFiniteSet(S(n))
  <2>1. IsFiniteSet(1 .. n) /\ S(n) \in SUBSET (1 .. n)
    BY FS_Interval DEF SessionsIn
  <2>. QED BY <2>1, FS_Subset
<1>2. Cardinality(S(n)) \in Nat
  BY <1>1, FS_CardinalityType
<1>3. ASSUME NEW m \in 0 .. n PROVE Cardinality(S(m)) <= Cardinality(S(n))
  <2>1. S(m) \in SUBSET S(n)
    BY DEF SessionsIn
  <2> HIDE DEF S
  <2>. QED BY <1>1, <2>1, FS_Subset
<1>4. Cardinality(S(0)) = 0
  <2>1. S(0) = {}
    BY DEF SessionsIn
  <2>. QED BY <2>1, FS_EmptySet
<1>5. CASE entries[n + 1] = Session
  <2>1. S(n + 1) = S(n) \cup {n + 1} /\ n + 1 \notin S(n)
    BY <1>5 DEF SessionsIn
  <2> HIDE DEF S
  <2>2. Cardinality(S(n) \cup {n + 1}) = Cardinality(S(n)) + 1
    BY <1>1, <2>1, FS_AddElement
  <2>. QED BY <1>2, <1>3, <1>4, <1>5, <2>1, <2>2 DEF S
<1>6. CASE entries[n + 1] # Session
  <2>1. S(n + 1) = S(n)
    BY <1>6 DEF SessionsIn
  <2>. QED BY <1>2, <1>3, <1>4, <1>6, <2>1
<1>. QED BY <1>5, <1>6

(* The counter of a store tells how many sessions its entries have opened. *)
LEMMA CounterCounts ==
  ASSUME NEW entries, NEW n \in Nat, NEW w,
         \A k \in 1 .. n : entries[k] \in Entries /\ (k \in w => entries[k] \in Requests)
  PROVE  Apply(EmptyStore, entries, 0, n, w).session_id_counter
           = 1 + Cardinality(SessionsIn(entries, n))
<1> DEFINE st(k) == Apply(EmptyStore, entries, 0, k, w)
           T == {k \in 0 .. n : st(k).session_id_counter
                                   = 1 + Cardinality(SessionsIn(entries, k))}
<1>1. 0 \in T
  <2>1. st(0) = EmptyStore
    BY ApplyUnrolls
  <2>2. EmptyStore.session_id_counter = 1
    BY DEF EmptyStore
  <2>3. Cardinality(SessionsIn(entries, 0)) = 0
    BY SessionsCounted
  <2>. QED BY <2>1, <2>2, <2>3
<1>2. ASSUME NEW k \in 0 .. n - 1, k \in T PROVE k + 1 \in T
  <2>1. k \in Nat /\ k >= 0 /\ k + 1 \in 1 .. n /\ \A j \in 0 + 1 .. k : j \in 1 .. n
    OBVIOUS
  <2>2. IsStore(st(k))
    BY <2>1, EmptyIsStore, ApplyStore
  <2>3. st(k + 1) = IF k + 1 \in w THEN st(k) ELSE ReplayEntry(st(k), entries[k + 1])
    BY <2>1, ApplyUnrolls
  <2>4. entries[k + 1] \in Entries /\ (k + 1 \in w => entries[k + 1] # Session)
    BY <2>1, EntryKinds
  <2>5. st(k).session_id_counter = 1 + Cardinality(SessionsIn(entries, k))
    BY <1>2
  <2>6. /\ Cardinality(SessionsIn(entries, k)) \in Nat
        /\ Cardinality(SessionsIn(entries, k + 1))
              = IF entries[k + 1] = Session THEN Cardinality(SessionsIn(entries, k)) + 1
                ELSE Cardinality(SessionsIn(entries, k))
    BY <2>1, SessionsCounted
  <2> HIDE DEF st
  <2>7. k + 1 \notin w =>
          st(k + 1).session_id_counter
            = IF entries[k + 1] = Session THEN st(k).session_id_counter + 1
              ELSE st(k).session_id_counter
    BY <2>2, <2>3, <2>4, EntryStore
  <2>8. st(k + 1).session_id_counter = 1 + Cardinality(SessionsIn(entries, k + 1))
    BY <2>3, <2>4, <2>5, <2>6, <2>7
  <2>. QED BY <2>1, <2>8
<1> HIDE DEF T
<1>3. \A k \in 0 .. n : k \in T
  BY <1>1, <1>2, FromTo
<1>. QED BY <1>3 DEF T

(* The first request that waits is applied behind the sessions that have   *)
(* overtaken it, with the effect it would have had in its place.           *)
LEMMA FirstWaitingApplied ==
  ASSUME NEW entries, NEW n \in Nat, NEW w, NEW h \in 1 .. n, h \in w,
         \A k \in 1 .. n : entries[k] \in Entries /\ (k \in w => entries[k] \in Requests),
         \A k \in 1 .. h - 1 : k \notin w,
         \A k \in h .. n : entries[k] \in Requests => k \in w,
         entries[h].session <= Cardinality(SessionsIn(entries, h - 1))
  PROVE  ProcessRequest(Apply(EmptyStore, entries, 0, n, w), entries[h])
           = Apply(EmptyStore, entries, 0, n, w \ {h})
<1> DEFINE r == entries[h]
           v == w \ {h}
           a(k) == Apply(EmptyStore, entries, 0, k, w)
           b(k) == Apply(EmptyStore, entries, 0, k, v)
           T == {k \in h .. n : ProcessRequest(a(k), r) = b(k)}
<1>0. r \in Requests /\ r # Session /\ r # Config /\ r.session \in Nat
  BY EntryKinds
<1>1. h \in T
  <2>1. PICK m \in Nat : m >= 0 /\ m + 1 = h /\ m = h - 1 /\ h \notin v
    <3>1. h - 1 \in Nat /\ h - 1 >= 0 /\ (h - 1) + 1 = h /\ h \notin v
      OBVIOUS
    <3> HIDE DEF v
    <3>. QED BY <3>1
  <2>2. a(m + 1) = IF m + 1 \in w THEN a(m) ELSE ReplayEntry(a(m), entries[m + 1])
    BY ApplyUnrolls
  <2>3. b(m + 1) = IF m + 1 \in v THEN b(m) ELSE ReplayEntry(b(m), entries[m + 1])
    BY ApplyUnrolls
  <2>4. a(m) = b(m)
    <3>1. \A k \in 0 + 1 .. m : (k \in w <=> k \in v)
      BY <2>1
    <3> HIDE DEF v
    <3>. QED BY <2>1, <3>1, ApplySame
  <2>5. b(m + 1) = ProcessRequest(b(m), r)
    BY <1>0, <2>1, <2>3 DEF ReplayEntry
  <2> HIDE DEF a, b
  <2>. QED BY <2>1, <2>2, <2>4, <2>5
<1>2. ASSUME NEW k \in h .. n - 1, k \in T PROVE k + 1 \in T
  <2>1. k \in Nat /\ k >= 0 /\ k + 1 \in h .. n /\ k + 1 \in 1 .. n /\ h - 1 \in 0 .. k
    OBVIOUS
  <2>2. a(k + 1) = IF k + 1 \in w THEN a(k) ELSE ReplayEntry(a(k), entries[k + 1])
    BY <2>1, ApplyUnrolls
  <2>3. b(k + 1) = IF k + 1 \in v THEN b(k) ELSE ReplayEntry(b(k), entries[k + 1])
    BY <2>1, ApplyUnrolls
  <2>4. k + 1 \in v <=> k + 1 \in w
    BY <2>1
  <2>5. ProcessRequest(a(k), r) = b(k)
    BY <1>2
  <2>6. IsStore(a(k))
    <3>1. \A j \in 0 + 1 .. k : entries[j] \in Entries
      OBVIOUS
    <3>. QED BY <2>1, <3>1, EmptyIsStore, ApplyStore
  <2>7. r.session < a(k).session_id_counter
    <3>1. a(k).session_id_counter = 1 + Cardinality(SessionsIn(entries, k))
      <4>1. \A j \in 1 .. k : entries[j] \in Entries /\ (j \in w => entries[j] \in Requests)
        OBVIOUS
      <4>. QED BY <2>1, <4>1, CounterCounts
    <3>2. /\ Cardinality(SessionsIn(entries, k)) \in Nat
          /\ Cardinality(SessionsIn(entries, h - 1)) <= Cardinality(SessionsIn(entries, k))
      BY <2>1, SessionsCounted
    <3>3. Cardinality(SessionsIn(entries, h - 1)) \in Nat
      <4>1. h - 1 \in Nat
        OBVIOUS
      <4>. QED BY <4>1, SessionsCounted
    <3> HIDE DEF a
    <3>. QED BY <1>0, <3>1, <3>2, <3>3
  <2> HIDE DEF a, b, v
  <2>8. CASE k + 1 \in w
    BY <2>1, <2>2, <2>3, <2>4, <2>5, <2>8
  <2>9. CASE k + 1 \notin w
    <3>1. entries[k + 1] \in {Session, Config}
      BY <2>1, <2>9 DEF Entries
    <3>2. CASE entries[k + 1] = Session
      <4>1. a(k + 1) = NewSession(a(k)) /\ b(k + 1) = NewSession(b(k))
        BY <2>2, <2>3, <2>4, <2>9, <3>2, EntryKinds DEF ReplayEntry
      <4>2. ProcessRequest(NewSession(a(k)), r) = NewSession(ProcessRequest(a(k), r))
        BY <1>0, <2>6, <2>7, RequestCommutes
      <4>. QED BY <2>1, <2>5, <4>1, <4>2
    <3>3. CASE entries[k + 1] = Config
      <4>1. a(k + 1) = a(k) /\ b(k + 1) = b(k)
        BY <2>2, <2>3, <2>4, <2>9, <3>3, EntryKinds DEF ReplayEntry
      <4>. QED BY <2>1, <2>5, <4>1
    <3>. QED BY <3>1, <3>2, <3>3
  <2>. QED BY <2>8, <2>9
<1> HIDE DEF T
<1>3. \A k \in h .. n : k \in T
  BY <1>1, <1>2, FromTo
<1>. QED BY <1>3 DEF T

-----------------------------------------------------------------------------
(* Positions.  What holds whatever faults a behaviour has: where the       *)
(* indexes of commits, snapshots and replay stand to each other.           *)

Indexes == {f.index : f \in files}
Latest == LastSnapshot(Indexes)
Batches == [start : 1 .. MaxLog, end : 1 .. MaxLog + 1]

RaftTypes ==
    /\ chosen \in Seq(Entries) /\ Len(chosen) <= MaxLog
    /\ log \in Seq(Entries) /\ Len(log) <= MaxLog
    /\ log_start \in 1 .. MaxLog + 1

StoreTypes ==
    /\ IsStore(store)
    /\ \A f \in files : f.index \in 1 .. MaxLog /\ f.object \in Objects /\ IsStore(f.content)

CommitTypes ==
    /\ sm_commit_index \in 0 .. MaxLog /\ committed_task \in 0 .. MaxLog
    /\ committed_queue \in Seq(1 .. MaxLog) /\ task_queue \in Seq(1 .. MaxLog)
    /\ commit_pc \in {"commit", "wait", "create"}
    /\ snapshots \in SUBSET (1 .. MaxLog)
    /\ receiving \in 0 .. MaxLog /\ next_object \in Objects

ReplayTypes ==
    /\ phase \in {"replay", "up"} /\ kills \in 0 .. MaxKills
    /\ last_committed_idx \in 0 .. MaxLog
    /\ last_log_index \in 0 .. MaxLog /\ batch_start_index \in 1 .. MaxLog + 1
    /\ log_queue \in Seq(Batches) /\ Len(log_queue) <= QueueLimit
    /\ main_pc \in {"check", "wait", "done"} /\ loader_pc \in {"load", "move"}

\* What waits for the request processor is agreed upon.
QueueAgreed ==
    \A k \in 1 .. Len(committed_queue) :
        Agree(committed_queue[k]) /\ log[committed_queue[k]] \in Requests

\* Snapshots are behind the commit index or being received, and the log begins
\* where the latest of them ends or before.
SnapshotPositions ==
    /\ commit_pc # "commit" => phase = "up" /\ receiving = 0 /\ sm_commit_index >= 1
    /\ receiving # 0 => phase = "up" /\ receiving > Len(log) /\ receiving <= Len(chosen)
    /\ phase = "up" =>
         /\ sm_commit_index <= Len(log)
         /\ \A i \in snapshots \cup Indexes : i <= sm_commit_index \/ i = receiving
    /\ \A i \in Indexes : i <= Len(log) \/ i <= Len(chosen)
    /\ log_start <= Latest + 1

\* The loader is behind the snapshot that was loaded and within the log.
ReplayPositions ==
    phase = "replay" =>
        /\ snapshots = Indexes
        /\ last_log_index <= Len(log)
        /\ Latest <= last_committed_idx
        /\ last_committed_idx <= Len(log) \/ last_committed_idx = Latest
        /\ Latest < batch_start_index
        /\ \A k \in 1 .. Len(log_queue) :
               /\ Latest < log_queue[k].start /\ log_queue[k].start < log_queue[k].end
               /\ log_queue[k].end <= last_log_index + 1
        /\ loader_pc = "move" => batch_start_index < last_log_index

IndexInv ==
    /\ RaftTypes /\ StoreTypes /\ CommitTypes /\ ReplayTypes
    /\ QueueAgreed /\ SnapshotPositions /\ ReplayPositions

LEMMA LastSnapshotIs ==
  ASSUME NEW N \in Nat, NEW S \in SUBSET (1 .. N)
  PROVE  /\ LastSnapshot(S) \in 0 .. N
         /\ \A i \in S : i <= LastSnapshot(S)
         /\ S = {} => LastSnapshot(S) = 0
         /\ S # {} => LastSnapshot(S) \in S
<1>1. CASE S = {}
  BY <1>1 DEF LastSnapshot
<1>2. CASE S # {}
  <2>1. \E m \in S : \A k \in S : k <= m
    <3>1. S \in SUBSET (0 .. N)
      OBVIOUS
    <3>. QED BY <1>2, <3>1, GreatestNatural
  <2>2. \E m \in S : \A k \in S : m >= k
    BY <2>1
  <2>3. Max(S) \in S /\ \A k \in S : Max(S) >= k
    BY <2>2 DEF Max
  <2>4. LastSnapshot(S) = Max(S)
    BY <1>2 DEF LastSnapshot
  <2>5. Max(S) \in 1 .. N /\ \A k \in S : k <= Max(S)
    <3>1. \A k \in S : k \in 1 .. N
      OBVIOUS
    <3>. QED BY <2>3, <3>1
  <2>. QED BY <1>2, <2>3, <2>4, <2>5
<1>. QED BY <1>1, <1>2

(* More snapshots: the latest is not earlier.                              *)
LEMMA LatestGrows ==
  ASSUME NEW N \in Nat, NEW S \in SUBSET (1 .. N), NEW T \in SUBSET (1 .. N), S \subseteq T
  PROVE  LastSnapshot(S) <= LastSnapshot(T)
<1>1. CASE S = {}
  BY <1>1, LastSnapshotIs
<1>2. CASE S # {}
  <2>1. LastSnapshot(S) \in S
    BY <1>2, LastSnapshotIs
  <2>2. LastSnapshot(S) \in T
    BY <2>1
  <2>. QED BY <2>2, LastSnapshotIs
<1>. QED BY <1>1, <1>2

(* The newest snapshot is kept.                                            *)
LEMMA NewestKept ==
  ASSUME NEW S, NEW i \in S, i \in Nat, \A j \in S : j \in Nat /\ j <= i
  PROVE  i \in Kept(S) /\ Kept(S) \subseteq S
<1>0. \A j \in S : ~(j > i)
  OBVIOUS
<1>1. {j \in S : j > i} = {}
  BY <1>0
<1>2. Cardinality({j \in S : j > i}) = 0
  BY <1>1, FS_EmptySet
<1>. QED BY <1>2, StateMachineAssumption DEF Kept

LEMMA LastObject == Max(Objects) = 3
<1>1. \E x \in Objects : \A y \in Objects : x >= y
  BY DEF Objects
<1>2. Max(Objects) \in Objects /\ \A y \in Objects : Max(Objects) >= y
  BY <1>1 DEF Max
<1>. QED BY <1>2 DEF Objects

LEMMA SamePrefix ==
  ASSUME NEW S, NEW a \in Seq(S), NEW b \in Seq(S), NEW n \in Nat, n <= Len(a), n <= Len(b)
  PROVE  SubSeq(a, 1, n) = SubSeq(b, 1, n) <=> \A k \in 1 .. n : a[k] = b[k]
<1>1. /\ \A k \in 1 .. n : a[k] \in S /\ b[k] \in S
  BY ElementOfSeq, LenProperties
<1>2. /\ SubSeq(a, 1, n) \in Seq(S) /\ Len(SubSeq(a, 1, n)) = n
      /\ \A k \in 1 .. n : SubSeq(a, 1, n)[k] = a[k]
  BY <1>1, SubSeqProperties
<1>3. /\ SubSeq(b, 1, n) \in Seq(S) /\ Len(SubSeq(b, 1, n)) = n
      /\ \A k \in 1 .. n : SubSeq(b, 1, n)[k] = b[k]
  BY <1>1, SubSeqProperties
<1>4. ASSUME \A k \in 1 .. n : a[k] = b[k] PROVE SubSeq(a, 1, n) = SubSeq(b, 1, n)
  BY <1>2, <1>3, <1>4, SeqEqual
<1>5. ASSUME SubSeq(a, 1, n) = SubSeq(b, 1, n), NEW k \in 1 .. n PROVE a[k] = b[k]
  BY <1>2, <1>3, <1>5
<1>. QED BY <1>4, <1>5

(* Agree, entry by entry.                                                  *)
AgreeAt(n) == n <= Len(chosen) /\ n <= Len(log) /\ \A k \in 1 .. n : log[k] = chosen[k]

LEMMA AgreeIs ==
  ASSUME RaftTypes, NEW n \in Nat
  PROVE  Agree(n) <=> AgreeAt(n)
BY SamePrefix DEF RaftTypes, Agree, AgreeAt

LEMMA AgreeIsPrimed ==
  ASSUME RaftTypes', NEW n \in Nat
  PROVE  Agree(n)' <=> AgreeAt(n)'
BY SamePrefix DEF RaftTypes, Agree, AgreeAt

LEMMA AgreeBelow ==
  ASSUME RaftTypes, NEW n \in Nat, Agree(n), NEW m \in 0 .. n
  PROVE  Agree(m)
<1>1. m \in Nat /\ Len(chosen) \in Nat /\ Len(log) \in Nat
  BY LenProperties DEF RaftTypes
<1>. QED BY <1>1, AgreeIs DEF AgreeAt

(* What raft does to chosen and log: both only grow, and entries that are  *)
(* agreed upon stay.                                                       *)
Grown ==
    /\ chosen' \in Seq(Entries) /\ Len(chosen) <= Len(chosen') /\ Len(chosen') <= MaxLog
    /\ log' \in Seq(Entries) /\ Len(log) <= Len(log') /\ Len(log') <= MaxLog
    /\ \A k \in 1 .. Len(chosen) : chosen'[k] = chosen[k]
    /\ \A n \in 1 .. Len(log) : AgreeAt(n) => log'[n] = log[n]

LEMMA StillAgree ==
  ASSUME RaftTypes, RaftTypes', Grown, NEW n \in Nat, Agree(n)
  PROVE  Agree(n)' /\ \A k \in 1 .. n : log'[k] = log[k]
<1>1. AgreeAt(n) /\ Len(chosen) \in Nat /\ Len(log) \in Nat
  BY AgreeIs, LenProperties DEF RaftTypes
<1>2. \A k \in 1 .. n : AgreeAt(k) /\ k \in 1 .. Len(log) /\ k \in 1 .. Len(chosen)
  BY <1>1 DEF AgreeAt
<1>3. \A k \in 1 .. n : log'[k] = log[k] /\ chosen'[k] = chosen[k]
  BY <1>2 DEF Grown
<1>4. Len(chosen') \in Nat /\ Len(log') \in Nat
  BY LenProperties DEF Grown
<1>5. AgreeAt(n)'
  BY <1>1, <1>3, <1>4 DEF AgreeAt, Grown
<1>. QED BY <1>3, <1>5, AgreeIsPrimed

LEMMA Unmoved ==
  ASSUME RaftTypes, UNCHANGED <<chosen, log>>
  PROVE  Grown
<1>1. Len(chosen) \in Nat /\ Len(log) \in Nat
  BY LenProperties DEF RaftTypes
<1>. QED BY <1>1 DEF RaftTypes, Grown

LEMMA ChooseGrows ==
  ASSUME IndexInv, NEW e \in Entries, Choose(e)
  PROVE  Grown
<1>1. /\ chosen \in Seq(Entries) /\ chosen' = Append(chosen, e) /\ log' = log
      /\ Len(chosen) < MaxLog /\ Len(chosen) \in Nat /\ Len(log) \in Nat
      /\ log \in Seq(Entries) /\ Len(log) <= MaxLog
  BY LenProperties DEF IndexInv, RaftTypes, Choose
<1>2. /\ chosen' \in Seq(Entries) /\ Len(chosen') = Len(chosen) + 1
      /\ \A k \in 1 .. Len(chosen) : chosen'[k] = chosen[k]
  BY <1>1, AppendProperties
<1>. QED BY <1>1, <1>2, StateMachineAssumption DEF Grown

LEMMA ReplicateGrows ==
  ASSUME IndexInv, NEW e \in Entries, Replicate(e)
  PROVE  Grown
<1> USE StateMachineAssumption
<1>1. /\ chosen \in Seq(Entries) /\ chosen' = chosen /\ log \in Seq(Entries)
      /\ Len(chosen) <= MaxLog /\ Len(log) <= MaxLog
      /\ Len(chosen) \in Nat /\ Len(log) \in Nat
  BY LenProperties DEF IndexInv, RaftTypes, Replicate
<1>2. CASE log' = Append(log, e) /\ Len(log) < MaxLog
  <2>1. /\ log' \in Seq(Entries) /\ Len(log') = Len(log) + 1
        /\ \A k \in 1 .. Len(log) : log'[k] = log[k]
    BY <1>1, <1>2, AppendProperties
  <2>. QED BY <1>1, <1>2, <2>1 DEF Grown
<1>3. CASE ~Agree(Len(log)) /\ log' = Append(SubSeq(log, 1, Len(log) - 1), e)
  <2>1. Len(log) >= 1
    <3>1. Len(log) = 0 => Agree(Len(log))
      BY <1>1, AgreeIs DEF IndexInv, AgreeAt
    <3>. QED BY <1>1, <1>3, <3>1
  <2> DEFINE s == SubSeq(log, 1, Len(log) - 1)
  <2>2. /\ s \in Seq(Entries) /\ Len(s) = Len(log) - 1
        /\ \A k \in 1 .. Len(log) - 1 : s[k] = log[k]
    <3>1. \A k \in 1 .. Len(log) - 1 : log[k] \in Entries
      BY <1>1, ElementOfSeq
    <3>0. Len(log) - 1 \in Nat
      BY <1>1, <2>1
    <3>2. PICK n \in Nat : n = Len(log) - 1
      BY <3>0
    <3>3. /\ SubSeq(log, 1, n) \in Seq(Entries) /\ Len(SubSeq(log, 1, n)) = n
          /\ \A k \in 1 .. n : SubSeq(log, 1, n)[k] = log[k]
      BY <3>1, <3>2, SubSeqProperties
    <3>. QED BY <3>2, <3>3
  <2> HIDE DEF s
  <2>3. /\ log' \in Seq(Entries) /\ Len(log') = Len(log)
        /\ \A k \in 1 .. Len(log) - 1 : log'[k] = log[k]
    <3>1. log' = Append(s, e)
      BY <1>3 DEF s
    <3>. QED BY <1>1, <2>2, <3>1, AppendProperties
  <2>4. ~AgreeAt(Len(log))
    BY <1>1, <1>3, AgreeIs DEF IndexInv
  <2>. QED BY <1>1, <2>3, <2>4 DEF Grown
<1>. QED BY <1>1, <1>2, <1>3 DEF Replicate

(* log_store::compact of an index that is chosen or in the log.            *)
LEMMA CompactGrows ==
  ASSUME RaftTypes, NEW i \in 1 .. MaxLog, CompactTo(i), chosen' = chosen,
         i <= Len(log) \/ i <= Len(chosen)
  PROVE  /\ Grown /\ i <= Len(log') /\ log_start' \in 1 .. MaxLog + 1
         /\ log_start' <= (IF log_start > i + 1 THEN log_start ELSE i + 1)
<1> USE StateMachineAssumption
<1>1. /\ chosen \in Seq(Entries) /\ log \in Seq(Entries)
      /\ Len(chosen) <= MaxLog /\ Len(log) <= MaxLog
      /\ Len(chosen) \in Nat /\ Len(log) \in Nat
      /\ log_start \in 1 .. MaxLog + 1
  BY LenProperties DEF RaftTypes
<1>2. /\ log_start' \in 1 .. MaxLog + 1
      /\ log_start' <= (IF log_start > i + 1 THEN log_start ELSE i + 1)
  BY <1>1 DEF CompactTo
<1>3. CASE i <= Len(log)
  <2>1. log' = log
    BY <1>1, <1>3 DEF CompactTo
  <2>. QED BY <1>1, <1>2, <1>3, <2>1, Unmoved
<1>4. CASE i > Len(log)
  <2>1. log' = SubSeq(chosen, 1, i) /\ i <= Len(chosen)
    BY <1>1, <1>4 DEF CompactTo
  <2>2. \A k \in 1 .. i : chosen[k] \in Entries
    BY <1>1, <2>1, ElementOfSeq
  <2>3. /\ log' \in Seq(Entries) /\ Len(log') = i /\ \A k \in 1 .. i : log'[k] = chosen[k]
    BY <2>1, <2>2, SubSeqProperties
  <2>4. \A n \in 1 .. Len(log) : AgreeAt(n) => log'[n] = log[n]
    BY <1>1, <1>4, <2>3 DEF AgreeAt
  <2>. QED BY <1>1, <1>2, <1>4, <2>3, <2>4 DEF Grown
<1>. QED BY <1>1, <1>3, <1>4

-----------------------------------------------------------------------------
(* The steps keep the positions.                                           *)

LEMMA IndexInit == Init => IndexInv
<1> SUFFICES ASSUME Init PROVE IndexInv
  OBVIOUS
<1> USE StateMachineAssumption DEF Init
<1>1. /\ \A S : <<>> \in Seq(S)
      /\ Len(<<>>) = 0
  BY EmptySeq
<1>2. Indexes = {} /\ Latest = 0
  BY DEF Indexes, Latest, LastSnapshot
<1>3. RaftTypes
  BY <1>1 DEF RaftTypes
<1>4. StoreTypes
  BY EmptyIsStore DEF StoreTypes
<1>5. CommitTypes
  BY <1>1 DEF CommitTypes, Objects
<1>6. ReplayTypes
  BY <1>1 DEF ReplayTypes
<1>7. QueueAgreed
  BY <1>1 DEF QueueAgreed
<1>8. SnapshotPositions /\ ReplayPositions
  BY <1>1, <1>2 DEF SnapshotPositions, ReplayPositions
<1>. QED BY <1>3, <1>4, <1>5, <1>6, <1>7, <1>8 DEF IndexInv

LEMMA IndexesType ==
  ASSUME IndexInv
  PROVE  /\ Indexes \in SUBSET (1 .. MaxLog) /\ snapshots \in SUBSET (1 .. MaxLog)
         /\ Latest \in 0 .. MaxLog /\ \A i \in Indexes : i <= Latest
         /\ Indexes # {} => Latest \in Indexes
         /\ Indexes = {} => Latest = 0
         /\ \A i \in Indexes \cup snapshots : i \in Nat /\ i >= 1
<1>1. Indexes \in SUBSET (1 .. MaxLog)
  BY DEF IndexInv, StoreTypes, Indexes
<1>2. snapshots \in SUBSET (1 .. MaxLog)
  BY DEF IndexInv, CommitTypes
<1>3. MaxLog \in Nat
  BY StateMachineAssumption
<1>4. /\ Latest \in 0 .. MaxLog /\ \A i \in Indexes : i <= Latest
      /\ Indexes # {} => Latest \in Indexes
      /\ Indexes = {} => Latest = 0
  BY <1>1, <1>3, LastSnapshotIs DEF Latest
<1>. QED BY <1>1, <1>2, <1>3, <1>4

(* Requests that wait stay agreed upon.                                    *)
LEMMA QueueKept ==
  ASSUME IndexInv, RaftTypes', Grown, committed_queue' = committed_queue
  PROVE  QueueAgreed'
<1>1. ASSUME NEW k \in 1 .. Len(committed_queue)
      PROVE  Agree(committed_queue[k])' /\ log'[committed_queue[k]] \in Requests
  <2>1. committed_queue[k] \in 1 .. MaxLog
    BY ElementOfSeq DEF IndexInv, CommitTypes
  <2>2. PICK n \in Nat : n = committed_queue[k] /\ n \in 1 .. n
    BY <2>1, StateMachineAssumption
  <2>3. Agree(n) /\ log[n] \in Requests
    BY <2>2 DEF IndexInv, QueueAgreed
  <2>4. Agree(n)' /\ log'[n] = log[n]
    BY <2>2, <2>3, StillAgree DEF IndexInv
  <2>5. Agree(committed_queue[k])'
    BY <2>2, <2>4 DEF Agree
  <2>. QED BY <2>2, <2>3, <2>4, <2>5
<1>2. QueueAgreed' <=> \A k \in 1 .. Len(committed_queue) :
                         Agree(committed_queue[k])' /\ log'[committed_queue[k]] \in Requests
  BY DEF QueueAgreed, Agree
<1>. QED BY <1>1, <1>2

(* Raft's own steps.                                                       *)
LEMMA RaftStepIndex ==
  ASSUME IndexInv, NEW e \in Entries, Choose(e) \/ Replicate(e)
  PROVE  IndexInv'
<1>1. /\ UNCHANGED <<log_start, storeVars, commitVars, snapVars, diskVars, replayVars, runVars>>
      /\ Grown
  BY ChooseGrows, ReplicateGrows DEF Choose, Replicate
<1>2. RaftTypes'
  BY <1>1 DEF IndexInv, RaftTypes, Grown
<1>3. StoreTypes' /\ CommitTypes' /\ ReplayTypes'
  BY <1>1 DEF IndexInv, StoreTypes, CommitTypes, ReplayTypes, storeVars, commitVars, snapVars,
     diskVars, replayVars, runVars
<1>4. QueueAgreed'
  BY <1>1, <1>2, QueueKept DEF commitVars
<1>5. receiving # 0 => log' = log
  BY DEF Choose, Replicate
<1>6. /\ Indexes' = Indexes /\ Latest' = Latest
      /\ Len(log) \in Nat /\ Len(log') \in Nat /\ Len(chosen) \in Nat /\ Len(chosen') \in Nat
      /\ Len(log) <= Len(log') /\ Len(chosen) <= Len(chosen')
      /\ \A i \in Indexes : i \in Nat
  BY <1>1, <1>2, LenProperties
     DEF Grown, IndexInv, RaftTypes, StoreTypes, Indexes, Latest, diskVars
<1>7. SnapshotPositions'
  <2>1. UNCHANGED <<commit_pc, phase, receiving, sm_commit_index, snapshots, log_start>>
    BY <1>1 DEF commitVars, snapVars, runVars
  <2>2. sm_commit_index \in Nat /\ receiving \in Nat
    BY StateMachineAssumption DEF IndexInv, CommitTypes
  <2>. QED BY <1>5, <1>6, <2>1, <2>2 DEF IndexInv, SnapshotPositions
<1>8. ReplayPositions'
  <2>1. UNCHANGED <<phase, snapshots, last_log_index, last_committed_idx, batch_start_index,
                    log_queue, loader_pc>>
    BY <1>1 DEF snapVars, storeVars, replayVars, runVars
  <2>2. last_log_index \in Nat /\ last_committed_idx \in Nat
    BY StateMachineAssumption DEF IndexInv, ReplayTypes
  <2>. QED BY <1>6, <2>1, <2>2 DEF IndexInv, ReplayPositions
<1>. QED BY <1>2, <1>3, <1>4, <1>7, <1>8 DEF IndexInv

(* The commit thread, the request processor and the recorder.              *)
LEMMA CommitStepIndex ==
  ASSUME IndexInv, Commit
  PROVE  IndexInv'
<1> USE StateMachineAssumption
<1> DEFINE i == sm_commit_index + 1
<1>1. /\ phase = "up" /\ commit_pc = "commit" /\ receiving = 0 /\ Agree(i)
      /\ sm_commit_index' = i
      /\ store' = (IF log[i] = Session THEN NewSession(store) ELSE store)
      /\ committed_queue' = (IF log[i] \in Requests THEN Append(committed_queue, i)
                             ELSE committed_queue)
      /\ last_committed_idx' = (IF log[i] = Config THEN last_committed_idx ELSE i)
      /\ task_queue' = (IF log[i] = Config THEN task_queue ELSE Append(task_queue, i))
      /\ commit_pc' \in {"wait", "commit"}
      /\ UNCHANGED <<raftVars, snapVars, diskVars, replayVars, runVars>>
  BY DEF Commit, ChkCreateSnapshot
<1>2. /\ i \in 1 .. MaxLog /\ i <= Len(log) /\ sm_commit_index \in Nat /\ Len(log) \in Nat
      /\ i \in Nat
  <2>1. Len(log) \in Nat /\ Len(log) <= MaxLog /\ sm_commit_index \in Nat
    BY LenProperties DEF IndexInv, RaftTypes, CommitTypes
  <2>2. i <= Len(log)
    BY <1>1 DEF Agree
  <2>. QED BY <2>1, <2>2
<1> HIDE DEF i
<1>3. RaftTypes' /\ Grown
  BY <1>1, Unmoved DEF IndexInv, RaftTypes, raftVars
<1>4. StoreTypes'
  <2>1. Session \in Entries /\ IsStore(store)
    BY DEF Entries, IndexInv, StoreTypes
  <2>2. IsStore(ReplayEntry(store, Session)) /\ ReplayEntry(store, Session) = NewSession(store)
    BY <2>1, EntryStore, EntryKinds DEF ReplayEntry
  <2>. QED BY <1>1, <2>1, <2>2 DEF IndexInv, StoreTypes, diskVars
<1>5. CommitTypes'
  <2>1. Append(committed_queue, i) \in Seq(1 .. MaxLog) /\ Append(task_queue, i) \in Seq(1 .. MaxLog)
    BY <1>2, AppendProperties DEF IndexInv, CommitTypes
  <2>2. UNCHANGED <<snapshots, receiving, next_object, committed_task>>
    BY <1>1 DEF snapVars, diskVars
  <2>3. committed_queue' \in Seq(1 .. MaxLog) /\ task_queue' \in Seq(1 .. MaxLog)
    BY <1>1, <2>1 DEF IndexInv, CommitTypes
  <2>. QED BY <1>1, <1>2, <2>2, <2>3 DEF IndexInv, CommitTypes
<1>6. ReplayTypes'
  BY <1>1, <1>2 DEF IndexInv, ReplayTypes, replayVars, runVars
<1>7. QueueAgreed'
  <2>1. CASE log[i] \notin Requests
    BY <1>1, <1>3, <2>1, QueueKept
  <2>2. CASE log[i] \in Requests
    <3>1. /\ committed_queue \in Seq(1 .. MaxLog) /\ Len(committed_queue) \in Nat
          /\ UNCHANGED <<chosen, log>>
      BY <1>1, LenProperties DEF IndexInv, CommitTypes, raftVars
    <3>2. /\ Len(committed_queue') = Len(committed_queue) + 1
          /\ committed_queue'[Len(committed_queue) + 1] = i
          /\ \A k \in 1 .. Len(committed_queue) : committed_queue'[k] = committed_queue[k]
      BY <1>1, <1>2, <2>2, <3>1, AppendProperties
    <3>3. ASSUME NEW k \in 1 .. Len(committed_queue')
          PROVE  Agree(committed_queue'[k]) /\ log[committed_queue'[k]] \in Requests
      BY <1>1, <2>2, <3>1, <3>2 DEF IndexInv, QueueAgreed
    <3>4. QueueAgreed' <=> \A k \in 1 .. Len(committed_queue') :
                             Agree(committed_queue'[k]) /\ log[committed_queue'[k]] \in Requests
      BY <3>1 DEF QueueAgreed, Agree
    <3>. QED BY <3>3, <3>4
  <2>. QED BY <2>1, <2>2
<1>8. Indexes' = Indexes /\ Latest' = Latest /\ \A j \in Indexes \cup snapshots : j \in Nat
  <2>1. files' = files
    BY <1>1 DEF diskVars
  <2>2. \A j \in Indexes \cup snapshots : j \in Nat
    BY IndexesType
  <2>. QED BY <2>1, <2>2 DEF Indexes, Latest
<1>9. SnapshotPositions'
  <2>1. UNCHANGED <<phase, receiving, snapshots, log_start, log, chosen>> /\ sm_commit_index' = i
        /\ i = sm_commit_index + 1
    BY <1>1 DEF raftVars, snapVars, runVars, i
  <2>. QED BY <1>1, <1>2, <1>8, <2>1 DEF IndexInv, SnapshotPositions
<1>10. ReplayPositions'
  BY <1>1 DEF ReplayPositions, runVars
<1>. QED BY <1>3, <1>4, <1>5, <1>6, <1>7, <1>9, <1>10 DEF IndexInv

LEMMA ApplyRequestIndex ==
  ASSUME IndexInv, ApplyRequest
  PROVE  IndexInv'
<1> USE StateMachineAssumption
<1> DEFINE h == Head(committed_queue)
<1>1. /\ phase = "up" /\ committed_queue # <<>>
      /\ store' = ProcessRequest(store, log[h])
      /\ committed_queue' = Tail(committed_queue)
      /\ UNCHANGED <<raftVars, last_committed_idx, sm_commit_index, task_queue,
                      commit_pc, snapVars, diskVars, replayVars, runVars>>
  BY DEF ApplyRequest
<1>2. /\ committed_queue \in Seq(1 .. MaxLog) /\ Len(committed_queue) \in Nat
      /\ Len(committed_queue) >= 1 /\ h = committed_queue[1]
      /\ committed_queue' \in Seq(1 .. MaxLog)
      /\ Len(committed_queue') = Len(committed_queue) - 1
      /\ \A k \in 1 .. Len(committed_queue') : committed_queue'[k] = committed_queue[k + 1]
  BY <1>1, HeadTailProperties, LenProperties, EmptySeq DEF IndexInv, CommitTypes
<1>3. log[h] \in Requests
  BY <1>2 DEF IndexInv, QueueAgreed
<1> HIDE DEF h
<1>4. StoreTypes'
  <2>1. ReplayEntry(store, log[h]) = ProcessRequest(store, log[h]) /\ log[h] \in Entries
    BY <1>3, EntryKinds DEF ReplayEntry, Entries
  <2>2. IsStore(ReplayEntry(store, log[h]))
    BY <2>1, EntryStore DEF IndexInv, StoreTypes
  <2>. QED BY <1>1, <2>1, <2>2 DEF IndexInv, StoreTypes, diskVars
<1>5. QueueAgreed'
  <2>1. UNCHANGED <<chosen, log>>
    BY <1>1 DEF raftVars
  <2>2. ASSUME NEW k \in 1 .. Len(committed_queue')
        PROVE  Agree(committed_queue'[k]) /\ log[committed_queue'[k]] \in Requests
    <3>0. Len(committed_queue') \in Nat
      BY <1>2
    <3>1. k + 1 \in 1 .. Len(committed_queue) /\ committed_queue'[k] = committed_queue[k + 1]
      BY <1>2, <3>0
    <3>. QED BY <3>1 DEF IndexInv, QueueAgreed
  <2>3. QueueAgreed' <=> \A k \in 1 .. Len(committed_queue') :
                           Agree(committed_queue'[k]) /\ log[committed_queue'[k]] \in Requests
    BY <2>1 DEF QueueAgreed, Agree
  <2>. QED BY <2>2, <2>3
<1>6. RaftTypes' /\ CommitTypes' /\ ReplayTypes'
  BY <1>1, <1>2 DEF IndexInv, RaftTypes, CommitTypes, ReplayTypes, raftVars, snapVars, diskVars,
     replayVars, runVars
<1>7. SnapshotPositions' /\ ReplayPositions'
  BY <1>1 DEF IndexInv, SnapshotPositions, ReplayPositions, Latest, Indexes, raftVars, snapVars,
     diskVars, replayVars, runVars
<1>. QED BY <1>4, <1>5, <1>6, <1>7 DEF IndexInv

LEMMA WaitAndWriteIndex ==
  ASSUME IndexInv, WaitCommitQueue \/ WriteCommitted
  PROVE  IndexInv'
<1> USE StateMachineAssumption
<1>1. /\ UNCHANGED <<raftVars, storeVars, sm_commit_index, committed_queue, snapshots, receiving,
                      files, replayVars, runVars>>
      /\ phase = "up"
  BY DEF WaitCommitQueue, WriteCommitted, snapVars, diskVars
<1>2. /\ commit_pc' = commit_pc \/ (commit_pc = "wait" /\ commit_pc' = "create")
      /\ next_object' = next_object \/ next_object' = 1
  BY DEF WaitCommitQueue, WriteCommitted, snapVars
<1>3. task_queue' \in Seq(1 .. MaxLog) /\ committed_task' \in 0 .. MaxLog
  <2>1. task_queue \in Seq(1 .. MaxLog) /\ committed_task \in 0 .. MaxLog
    BY DEF IndexInv, CommitTypes
  <2>2. CASE WaitCommitQueue
    BY <2>1, <2>2 DEF WaitCommitQueue, diskVars
  <2>3. CASE WriteCommitted
    <3>1. Len(task_queue) \in Nat /\ Len(task_queue) \in 1 .. Len(task_queue)
      BY <2>1, <2>3, EmptySeq DEF WriteCommitted
    <3>2. Last(task_queue) \in 1 .. MaxLog
      BY <2>1, <3>1, ElementOfSeq DEF Last
    <3>3. task_queue' = <<>> /\ committed_task' = Last(task_queue)
      BY <2>3 DEF WriteCommitted
    <3>. QED BY <3>2, <3>3, EmptySeq
  <2>. QED BY <2>2, <2>3
<1>4. CommitTypes'
  BY <1>1, <1>2, <1>3 DEF IndexInv, CommitTypes, Objects
<1>5. RaftTypes' /\ StoreTypes' /\ ReplayTypes' /\ QueueAgreed'
  BY <1>1 DEF IndexInv, RaftTypes, StoreTypes, ReplayTypes, QueueAgreed, Agree, raftVars,
     storeVars, replayVars, runVars
<1>6. SnapshotPositions' /\ ReplayPositions'
  BY <1>1, <1>2 DEF IndexInv, SnapshotPositions, ReplayPositions, Latest, Indexes, raftVars,
     storeVars, replayVars, runVars
<1>. QED BY <1>4, <1>5, <1>6 DEF IndexInv

(* Objects of stores are stores.                                           *)
LEMMA ObjectIsStore ==
  ASSUME NEW st, IsStore(st), NEW k \in Objects
  PROVE  IsStore(Object(st, k))
<1>1. k \in {1, 2, 3}
  BY DEF Objects
<1>2. CASE k = 1
  BY <1>2 DEF Object, IsStore, StoreOf, EmptyStore
<1>3. CASE k = 2
  BY <1>3 DEF Object, IsStore, StoreOf, EmptyStore
<1>4. CASE k = 3
  BY <1>4 DEF Object, IsStore, StoreOf, EmptyStore
<1>. QED BY <1>1, <1>2, <1>3, <1>4

LEMMA FileType ==
  ASSUME NEW i \in 1 .. MaxLog, NEW st, IsStore(st), NEW k \in Objects
  PROVE  /\ File(i, st, k).index = i /\ File(i, st, k).object = k
         /\ IsStore(File(i, st, k).content) /\ File(i, st, k).content = Object(st, k)
BY ObjectIsStore DEF File

(* createObjects: when the last object is written, the snapshot is the     *)
(* newest, so that it is kept when others are removed and the log may be   *)
(* compacted behind it.                                                    *)
LEMMA CreateObjectIndex ==
  ASSUME IndexInv, CreateObject
  PROVE  IndexInv'
<1> USE StateMachineAssumption
<1> DEFINE i == sm_commit_index
           k == next_object
           new == File(i, store, k)
           written == files \cup {new}
<1>1. /\ phase = "up" /\ commit_pc = "create"
      /\ UNCHANGED <<chosen, storeVars, sm_commit_index, committed_queue, task_queue,
                      receiving, committed_task, replayVars, runVars>>
  BY DEF CreateObject
<1>2. \/ /\ k < 3 /\ files' = written /\ next_object' = k + 1
         /\ UNCHANGED <<commit_pc, snapshots, log, log_start>>
      \/ /\ snapshots' = Kept(snapshots \cup {i})
         /\ files' = {f \in written : f.index \in snapshots'}
         /\ commit_pc' = "commit" /\ next_object' = 1
         /\ IF i > Reserved THEN CompactTo(i - Reserved) ELSE UNCHANGED <<log, log_start>>
  BY LastObject DEF CreateObject
<1>3. /\ receiving = 0 /\ i \in 1 .. MaxLog /\ i <= Len(log) /\ i \in Nat /\ Len(log) \in Nat
      /\ \A j \in snapshots \cup Indexes : j <= i
  <2>1. receiving = 0 /\ i \in 1 .. MaxLog /\ i <= Len(log) /\ Len(log) \in Nat
    BY <1>1, LenProperties DEF IndexInv, SnapshotPositions, CommitTypes, RaftTypes
  <2>. QED BY <1>1, <2>1, IndexesType DEF IndexInv, SnapshotPositions
<1>4. k \in Objects /\ new.index = i /\ new.object = k /\ IsStore(new.content)
  BY <1>3, FileType DEF IndexInv, CommitTypes, StoreTypes
<1> HIDE DEF new
<1>5. \A f \in written : f.index \in 1 .. MaxLog /\ f.object \in Objects /\ IsStore(f.content)
                        /\ f.index <= i
  BY <1>3, <1>4 DEF IndexInv, StoreTypes, Indexes
<1>6. files' \subseteq written /\ new \in files' /\ i \in Indexes'
  <2>1. CASE files' = written
    BY <1>4, <2>1 DEF Indexes
  <2>2. CASE files' # written
    <3>1. i \in snapshots'
      BY <1>2, <1>3, <2>2, NewestKept, IndexesType
    <3>. QED BY <1>2, <1>4, <2>2, <3>1 DEF Indexes
  <2>. QED BY <2>1, <2>2
<1> HIDE DEF written
<1>7. Indexes' \in SUBSET (1 .. MaxLog) /\ \A j \in Indexes' : j <= i
  BY <1>5, <1>6 DEF Indexes
<1>8. Latest' = i
  <2>1. LastSnapshot(Indexes') \in Indexes' /\ i <= LastSnapshot(Indexes')
    BY <1>6, <1>7, LastSnapshotIs
  <2>2. Latest' = LastSnapshot(Indexes')
    BY DEF Latest
  <2>3. Latest' \in Indexes' /\ i <= Latest'
    BY <2>1, <2>2
  <2>4. Latest' \in Nat /\ Latest' <= i
    BY <1>7, <2>3
  <2>. QED BY <1>3, <2>3, <2>4
<1>9. snapshots' \in SUBSET (1 .. MaxLog) /\ \A j \in snapshots' : j <= i
  <2>1. \A j \in snapshots \cup {i} : j \in 1 .. MaxLog /\ j <= i
    BY <1>3, IndexesType
  <2>2. snapshots' \subseteq snapshots \cup {i}
    BY <1>2 DEF Kept
  <2>. QED BY <2>1, <2>2
<1>10. Grown /\ log_start' \in 1 .. MaxLog + 1 /\ log_start' <= i + 1
  <2>1. log_start \in 1 .. MaxLog + 1 /\ log_start <= i + 1
    <3>1. Latest <= i
      <4>1. Latest = 0 \/ Latest \in Indexes
        BY IndexesType
      <4>. QED BY <1>3, <4>1
    <3>. QED BY <1>3, <3>1, IndexesType DEF IndexInv, RaftTypes, SnapshotPositions
  <2>2. CASE UNCHANGED <<log, log_start>>
    BY <1>1, <2>1, <2>2, Unmoved DEF IndexInv
  <2>3. CASE i > Reserved /\ CompactTo(i - Reserved)
    <3>1. i - Reserved \in 1 .. MaxLog /\ i - Reserved <= Len(log)
      BY <1>3, <2>3
    <3>2. PICK j \in 1 .. MaxLog : j = i - Reserved /\ CompactTo(j) /\ j <= Len(log) /\ j <= i
      <4>1. i - Reserved <= i
        BY <1>3
      <4>. QED BY <2>3, <3>1, <4>1
    <3>3. /\ Grown /\ log_start' \in 1 .. MaxLog + 1
          /\ log_start' <= (IF log_start > j + 1 THEN log_start ELSE j + 1)
      BY <1>1, <3>2, CompactGrows DEF IndexInv
    <3>. QED BY <1>3, <2>1, <3>2, <3>3
  <2>. QED BY <1>2, <2>2, <2>3
<1>11. RaftTypes'
  BY <1>1, <1>10 DEF IndexInv, RaftTypes, Grown
<1>12. StoreTypes'
  BY <1>1, <1>5, <1>6 DEF IndexInv, StoreTypes, storeVars
<1>13. CommitTypes'
  <2>1. next_object' \in Objects /\ commit_pc' \in {"commit", "create"}
    BY <1>1, <1>2, <1>4 DEF Objects
  <2>. QED BY <1>1, <1>9, <2>1 DEF IndexInv, CommitTypes
<1>14. ReplayTypes' /\ ReplayPositions'
  BY <1>1 DEF IndexInv, ReplayTypes, ReplayPositions, storeVars, replayVars, runVars
<1>15. QueueAgreed'
  BY <1>1, <1>10, <1>11, QueueKept
<1>16. SnapshotPositions'
  <2>1. phase' = "up" /\ receiving' = 0 /\ sm_commit_index' = i /\ i >= 1
    BY <1>1, <1>3 DEF runVars
  <2>2. i <= Len(log') /\ Len(log') \in Nat
    BY <1>3, <1>10, LenProperties DEF Grown
  <2>. QED BY <1>3, <1>7, <1>8, <1>9, <1>10, <2>1, <2>2 DEF SnapshotPositions
<1>. QED BY <1>11, <1>12, <1>13, <1>14, <1>15, <1>16 DEF IndexInv

LEMMA ParseIsStore ==
  ASSUME NEW st, IsStore(st), NEW fs, \A f \in fs : IsStore(f.content)
  PROVE  IsStore(Parse(st, fs))
<1> DEFINE maps == {f.content : f \in {g \in fs : g.object = 1}}
           counters == IF maps = {} THEN st ELSE CHOOSE c \in maps : TRUE
           new == UNION {f.content.nodes : f \in fs}
           ss == st.sessions \cup UNION {f.content.sessions : f \in fs}
           ns == new \cup {n \in st.nodes : \A m \in new : m.path # n.path}
<1>1. counters = st \/ counters \in maps
  OBVIOUS
<1>2. \A c \in maps : IsStore(c)
  OBVIOUS
<1>3. IsStore(counters)
  <2> HIDE DEF maps, counters
  <2>. QED BY <1>1, <1>2
<1>4. ss \subseteq Nat
  BY DEF IsStore
<1>5. Parse(st, fs) = StoreOf(counters.zxid, counters.session_id_counter, ss, ns)
  BY DEF Parse, StoreOf
<1>6. counters.zxid \in Nat /\ counters.session_id_counter \in Nat
  <2> HIDE DEF counters
  <2>. QED BY <1>3 DEF IsStore
<1> HIDE DEF counters, ss, ns
<1>. QED BY <1>4, <1>5, <1>6 DEF IsStore, StoreOf

LEMMA ReferenceIsStore ==
  ASSUME IndexInv, NEW n \in Nat, n <= Len(chosen)
  PROVE  IsStore(Reference(n))
<1>1. \A k \in 0 + 1 .. n : chosen[k] \in Entries
  <2>1. chosen \in Seq(Entries) /\ Len(chosen) \in Nat
    BY LenProperties DEF IndexInv, RaftTypes
  <2>. QED BY <2>1, ElementOfSeq
<1>2. IsStore(Apply(EmptyStore, chosen, 0, n, {}))
  BY <1>1, EmptyIsStore, ApplyStore
<1>. QED BY <1>2 DEF Reference

(* save_logical_snp_obj                                                    *)
LEMMA ReceiveIndex ==
  ASSUME IndexInv, NEW i \in 1 .. MaxLog, ReceiveSnapshot(i)
  PROVE  IndexInv'
<1> USE StateMachineAssumption
<1>1. /\ phase = "up" /\ commit_pc = "commit" /\ receiving = 0
      /\ i > Len(log) /\ i <= Len(chosen)
      /\ receiving' = i /\ next_object' = 1 /\ snapshots' = snapshots \cup {i}
      /\ UNCHANGED <<raftVars, storeVars, commitVars, diskVars, replayVars, runVars>>
  BY DEF ReceiveSnapshot
<1>2. RaftTypes' /\ StoreTypes' /\ ReplayTypes' /\ QueueAgreed' /\ ReplayPositions'
  BY <1>1 DEF IndexInv, RaftTypes, StoreTypes, ReplayTypes, QueueAgreed, Agree, ReplayPositions,
     raftVars, storeVars, commitVars, diskVars, replayVars, runVars
<1>3. CommitTypes'
  BY <1>1 DEF IndexInv, CommitTypes, Objects, commitVars, diskVars
<1>4. SnapshotPositions'
  <2>1. \A j \in snapshots \cup Indexes : j <= sm_commit_index
    BY <1>1, IndexesType DEF IndexInv, SnapshotPositions
  <2>2. UNCHANGED <<commit_pc, phase, sm_commit_index, log, chosen, log_start>>
        /\ Indexes' = Indexes /\ Latest' = Latest
    BY <1>1 DEF commitVars, runVars, raftVars, Indexes, Latest, diskVars
  <2>. QED BY <1>1, <2>1, <2>2 DEF IndexInv, SnapshotPositions
<1>. QED BY <1>2, <1>3, <1>4 DEF IndexInv

LEMMA SaveObjectIndex ==
  ASSUME IndexInv, SaveObject
  PROVE  IndexInv'
<1> USE StateMachineAssumption
<1> DEFINE i == receiving
           k == next_object
           new == File(i, Reference(i), k)
<1>1. /\ phase = "up" /\ i # 0 /\ files' = files \cup {new}
      /\ UNCHANGED <<chosen, last_committed_idx, committed_queue, task_queue,
                      commit_pc, snapshots, committed_task, replayVars, runVars>>
  BY DEF SaveObject
<1>2. \/ /\ k < 3 /\ next_object' = k + 1
         /\ UNCHANGED <<receiving, store, sm_commit_index, log, log_start>>
      \/ /\ receiving' = 0 /\ next_object' = 1
         /\ store' = Parse(store, {f \in files' : f.index = i})
         /\ sm_commit_index' = i
         /\ CompactTo(i)
  BY LastObject DEF SaveObject
<1>3. /\ i \in 1 .. MaxLog /\ i \in Nat /\ i > Len(log) /\ i <= Len(chosen)
      /\ commit_pc = "commit" /\ Len(log) \in Nat /\ Len(chosen) \in Nat
      /\ sm_commit_index \in Nat /\ sm_commit_index <= Len(log)
  BY <1>1, LenProperties DEF IndexInv, CommitTypes, SnapshotPositions, RaftTypes
<1>4. /\ k \in Objects /\ new.index = i /\ new.object = k /\ IsStore(new.content)
  BY <1>3, FileType, ReferenceIsStore DEF IndexInv, CommitTypes
<1> HIDE DEF new
<1>5. Indexes' = Indexes \cup {i}
  BY <1>1, <1>4 DEF Indexes
<1>6. StoreTypes'
  <2>1. \A f \in files' : f.index \in 1 .. MaxLog /\ f.object \in Objects /\ IsStore(f.content)
    BY <1>1, <1>3, <1>4 DEF IndexInv, StoreTypes
  <2>2. IsStore(Parse(store, {f \in files' : f.index = i}))
    BY <2>1, ParseIsStore DEF IndexInv, StoreTypes
  <2>. QED BY <1>2, <2>1, <2>2 DEF IndexInv, StoreTypes
<1>7. /\ Indexes' \in SUBSET (1 .. MaxLog) /\ Latest <= Latest' /\ i <= Latest'
      /\ Latest' \in Nat
  <2>1. Indexes \in SUBSET (1 .. MaxLog) /\ Indexes' \in SUBSET (1 .. MaxLog)
        /\ Indexes \subseteq Indexes' /\ i \in Indexes'
    BY <1>3, <1>5, IndexesType
  <2>2. Latest <= LastSnapshot(Indexes')
    BY <2>1, LatestGrows DEF Latest
  <2>3. i <= LastSnapshot(Indexes') /\ LastSnapshot(Indexes') \in 0 .. MaxLog
    BY <2>1, LastSnapshotIs
  <2>4. Latest' = LastSnapshot(Indexes')
    BY DEF Latest
  <2>. QED BY <2>1, <2>2, <2>3, <2>4
<1>8. /\ Grown /\ log_start' \in 1 .. MaxLog + 1 /\ log_start' <= Latest' + 1
      /\ receiving' = 0 => i <= Len(log')
  <2>0. PICK last \in Nat : last = Latest' /\ Latest <= last /\ i <= last
    BY <1>7
  <2>1. log_start \in 1 .. MaxLog + 1 /\ log_start <= last + 1
    <3>1. PICK was \in Nat : was = Latest
      BY IndexesType
    <3>2. /\ log_start \in 1 .. MaxLog + 1 /\ log_start <= was + 1
      BY <3>1 DEF IndexInv, RaftTypes, SnapshotPositions
    <3>3. was <= last
      BY <2>0, <3>1
    <3>. QED BY <3>2, <3>3
  <2>2. CASE UNCHANGED <<receiving, log, log_start>>
    BY <1>1, <2>0, <2>1, <2>2, Unmoved DEF IndexInv
  <2>3. CASE CompactTo(i)
    <3>1. PICK j \in 1 .. MaxLog : j = i
      BY <1>3
    <3>2. /\ Grown /\ j <= Len(log') /\ log_start' \in 1 .. MaxLog + 1
          /\ log_start' <= (IF log_start > j + 1 THEN log_start ELSE j + 1)
      BY <1>1, <1>3, <2>3, <3>1, CompactGrows DEF IndexInv
    <3>3. j \in Nat /\ j <= last
      BY <2>0, <3>1
    <3>4. log_start' <= last + 1
      BY <2>1, <3>2, <3>3
    <3>. QED BY <2>0, <3>1, <3>2, <3>4
  <2>. QED BY <1>2, <2>2, <2>3
<1>9. RaftTypes'
  BY <1>1, <1>8 DEF IndexInv, RaftTypes, Grown
<1>10. CommitTypes'
  <2>1. next_object' \in Objects
    BY <1>2, <1>4 DEF Objects
  <2>. QED BY <1>1, <1>2, <1>3, <2>1 DEF IndexInv, CommitTypes
<1>11. ReplayTypes' /\ ReplayPositions'
  BY <1>1 DEF IndexInv, ReplayTypes, ReplayPositions, replayVars, runVars
<1>12. QueueAgreed'
  BY <1>1, <1>8, <1>9, QueueKept
<1>13. SnapshotPositions'
  <2>1. phase' = "up" /\ commit_pc' = "commit" /\ chosen' = chosen /\ snapshots' = snapshots
    BY <1>1, <1>3 DEF runVars
  <2>2. \A j \in snapshots \cup Indexes' : j \in Nat /\ (j <= sm_commit_index \/ j = i)
    BY <1>1, <1>3, <1>5, IndexesType DEF IndexInv, SnapshotPositions
  <2>3. \A j \in Indexes' : j <= Len(log') \/ j <= Len(chosen)
    <3>1. Len(log') \in Nat /\ Len(log) <= Len(log')
      BY <1>8, LenProperties DEF Grown
    <3>. QED BY <1>3, <1>5, <3>1, IndexesType DEF IndexInv, SnapshotPositions
  <2>4. CASE UNCHANGED <<receiving, sm_commit_index, log, log_start>>
    BY <1>3, <1>8, <2>1, <2>2, <2>3, <2>4 DEF SnapshotPositions
  <2>5. CASE receiving' = 0 /\ sm_commit_index' = i
    BY <1>3, <1>8, <2>1, <2>2, <2>3, <2>5 DEF SnapshotPositions
  <2>. QED BY <1>2, <2>4, <2>5
<1>. QED BY <1>6, <1>9, <1>10, <1>11, <1>12, <1>13 DEF IndexInv

(* The constructor: the latest snapshot is loaded.                         *)
LEMMA RestartIndex ==
  ASSUME IndexInv, Restart
  PROVE  IndexInv'
<1> USE StateMachineAssumption
<1>1. /\ kills < MaxKills /\ kills' = kills + 1
      /\ snapshots' = Indexes /\ store' = Parse(EmptyStore, ObjectsOf(Latest))
      /\ last_committed_idx' = Latest /\ last_log_index' = LastLogIndex
      /\ batch_start_index' = Latest + 1
      /\ phase' = "replay" /\ main_pc' = "check" /\ loader_pc' = "load" /\ log_queue' = <<>>
      /\ committed_queue' = <<>> /\ task_queue' = <<>>
      /\ commit_pc' = "commit" /\ receiving' = 0 /\ next_object' = 1
      /\ UNCHANGED <<raftVars, sm_commit_index, diskVars>>
  BY DEF Restart, Indexes, Latest
<1>2. Indexes' = Indexes /\ Latest' = Latest
  BY <1>1 DEF diskVars, Indexes, Latest
<1>3. /\ Indexes \in SUBSET (1 .. MaxLog) /\ Latest \in 0 .. MaxLog
  BY IndexesType
<1>4. Len(log) \in Nat /\ LastLogIndex \in 0 .. MaxLog /\ LastLogIndex <= Len(log)
  <2>1. Len(log) \in Nat /\ Len(log) <= MaxLog /\ committed_task \in 0 .. MaxLog
    BY LenProperties DEF IndexInv, RaftTypes, CommitTypes
  <2>. QED BY <2>1 DEF LastLogIndex
<1>5. \A S : <<>> \in Seq(S) /\ Len(<<>>) = 0
  BY EmptySeq
<1>6. RaftTypes'
  BY <1>1 DEF IndexInv, RaftTypes, raftVars
<1>7. StoreTypes'
  <2>1. \A f \in ObjectsOf(Latest) : IsStore(f.content)
    BY DEF IndexInv, StoreTypes, ObjectsOf
  <2>2. IsStore(Parse(EmptyStore, ObjectsOf(Latest)))
    BY <2>1, EmptyIsStore, ParseIsStore
  <2>. QED BY <1>1, <2>2 DEF IndexInv, StoreTypes, diskVars
<1>8. CommitTypes'
  BY <1>1, <1>3, <1>5 DEF IndexInv, CommitTypes, Objects, diskVars
<1>9. ReplayTypes'
  <2>1. PICK last \in 0 .. MaxLog : last = Latest
    BY <1>3
  <2>2. last_committed_idx' \in 0 .. MaxLog /\ batch_start_index' \in 1 .. MaxLog + 1
    BY <1>1, <2>1
  <2>. QED BY <1>1, <1>4, <1>5, <2>2 DEF IndexInv, ReplayTypes
<1>10. QueueAgreed'
  BY <1>1, <1>5 DEF QueueAgreed
<1>11. SnapshotPositions'
  <2>1. UNCHANGED <<log, chosen, log_start>>
    BY <1>1 DEF raftVars
  <2>. QED BY <1>1, <1>2, <2>1 DEF IndexInv, SnapshotPositions
<1>12. ReplayPositions'
  <2>1. PICK last \in 0 .. MaxLog : last = Latest
    BY <1>3
  <2>2. Latest' = last /\ last_committed_idx' = last /\ batch_start_index' = last + 1 /\ log' = log
    BY <1>1, <1>2, <2>1 DEF raftVars
  <2>. QED BY <1>1, <1>2, <1>4, <1>5, <2>2 DEF ReplayPositions
<1>. QED BY <1>6, <1>7, <1>8, <1>9, <1>10, <1>11, <1>12 DEF IndexInv

(* The loader's next batch is not empty and ends within the log.           *)
LEMMA NextBatchIs ==
  ASSUME IndexInv, batch_start_index < last_log_index
  PROVE  /\ batch_start_index \in 1 .. MaxLog /\ last_log_index \in 1 .. MaxLog
         /\ NextBatch \in 1 .. MaxLog + 1
         /\ batch_start_index < NextBatch /\ NextBatch <= last_log_index + 1
<1>1. batch_start_index \in 1 .. MaxLog + 1 /\ last_log_index \in 0 .. MaxLog
  BY DEF IndexInv, ReplayTypes
<1>. QED BY <1>1, StateMachineAssumption DEF NextBatch

LEMMA LoaderIndex ==
  ASSUME IndexInv, LoadBatch \/ MoveStart
  PROVE  IndexInv'
<1> USE StateMachineAssumption
<1>1. /\ phase = "replay" /\ batch_start_index < last_log_index
      /\ UNCHANGED <<raftVars, storeVars, commitVars, snapVars, diskVars, last_log_index,
                      main_pc, runVars>>
  BY DEF LoadBatch, MoveStart, IndexInv, ReplayPositions
<1>2. /\ batch_start_index \in 1 .. MaxLog /\ last_log_index \in 1 .. MaxLog
      /\ NextBatch \in 1 .. MaxLog + 1
      /\ batch_start_index < NextBatch /\ NextBatch <= last_log_index + 1
  BY <1>1, NextBatchIs
<1>3. RaftTypes' /\ StoreTypes' /\ CommitTypes' /\ QueueAgreed'
  BY <1>1 DEF IndexInv, RaftTypes, StoreTypes, CommitTypes, QueueAgreed, Agree, raftVars,
     storeVars, commitVars, snapVars, diskVars
<1>4. SnapshotPositions'
  BY <1>1 DEF IndexInv, SnapshotPositions, Latest, Indexes, raftVars, commitVars, snapVars,
     diskVars, runVars
<1>5. UNCHANGED <<phase, kills, last_committed_idx, snapshots, log, last_log_index, main_pc>>
      /\ Indexes' = Indexes /\ Latest' = Latest
  BY <1>1 DEF runVars, storeVars, snapVars, raftVars, diskVars, Indexes, Latest
<1>6. PICK last \in Nat : last = Latest /\ last < batch_start_index
  BY <1>1, IndexesType DEF IndexInv, ReplayPositions
<1>7. CASE LoadBatch
  <2> DEFINE b == [start |-> batch_start_index, end |-> NextBatch]
  <2>1. /\ log_queue' = Append(log_queue, b) /\ loader_pc' = "move"
        /\ batch_start_index' = batch_start_index /\ Len(log_queue) < QueueLimit
    BY <1>7 DEF LoadBatch
  <2>2. b \in Batches /\ b.start = batch_start_index /\ b.end = NextBatch
    BY <1>2 DEF Batches
  <2> HIDE DEF b
  <2>3. log_queue \in Seq(Batches) /\ Len(log_queue) \in Nat
    BY LenProperties DEF IndexInv, ReplayTypes
  <2>4. /\ log_queue' \in Seq(Batches) /\ Len(log_queue') = Len(log_queue) + 1
        /\ log_queue'[Len(log_queue) + 1] = b
        /\ \A k \in 1 .. Len(log_queue) : log_queue'[k] = log_queue[k]
    BY <2>1, <2>2, <2>3, AppendProperties
  <2>5. ReplayTypes'
    BY <1>5, <2>1, <2>3, <2>4 DEF IndexInv, ReplayTypes
  <2>6. ASSUME NEW k \in 1 .. Len(log_queue')
        PROVE  /\ last < log_queue'[k].start /\ log_queue'[k].start < log_queue'[k].end
               /\ log_queue'[k].end <= last_log_index + 1
    <3>1. CASE k = Len(log_queue) + 1
      BY <1>2, <1>6, <2>2, <2>4, <3>1
    <3>2. CASE k # Len(log_queue) + 1
      <4>1. k \in 1 .. Len(log_queue) /\ log_queue'[k] = log_queue[k]
        BY <2>3, <2>4, <3>2
      <4>. QED BY <1>1, <1>6, <4>1 DEF IndexInv, ReplayPositions
    <3>. QED BY <3>1, <3>2
  <2>7. ReplayPositions'
    BY <1>1, <1>5, <1>6, <2>1, <2>6 DEF IndexInv, ReplayPositions
  <2>. QED BY <1>3, <1>4, <2>5, <2>7 DEF IndexInv
<1>8. CASE MoveStart
  <2>1. batch_start_index' = NextBatch /\ loader_pc' = "load" /\ log_queue' = log_queue
    BY <1>8 DEF MoveStart
  <2>2. ReplayTypes'
    BY <1>2, <1>5, <2>1 DEF IndexInv, ReplayTypes
  <2>3. last < batch_start_index'
    BY <1>2, <1>6, <2>1
  <2>4. ReplayPositions'
    BY <1>1, <1>5, <1>6, <2>1, <2>3 DEF IndexInv, ReplayPositions
  <2>. QED BY <1>3, <1>4, <2>2, <2>4 DEF IndexInv
<1>. QED BY <1>7, <1>8

LEMMA WaitReplayIndex ==
  ASSUME IndexInv, CheckReplay \/ StopReplay
  PROVE  IndexInv'
<1>1. /\ main_pc' \in {"wait", "done"}
      /\ UNCHANGED <<raftVars, storeVars, commitVars, snapVars, diskVars, last_log_index,
                      batch_start_index, log_queue, loader_pc, runVars>>
  BY DEF CheckReplay, StopReplay
<1>2. RaftTypes' /\ StoreTypes' /\ CommitTypes' /\ QueueAgreed'
  BY <1>1 DEF IndexInv, RaftTypes, StoreTypes, CommitTypes, QueueAgreed, Agree, raftVars,
     storeVars, commitVars, snapVars, diskVars
<1>3. SnapshotPositions' /\ ReplayPositions'
  BY <1>1 DEF IndexInv, SnapshotPositions, ReplayPositions, Latest, Indexes, raftVars, storeVars,
     commitVars, snapVars, diskVars, runVars
<1>4. ReplayTypes'
  BY <1>1 DEF IndexInv, ReplayTypes, storeVars, runVars
<1>. QED BY <1>2, <1>3, <1>4 DEF IndexInv

LEMMA ReplayBatchIndex ==
  ASSUME IndexInv, ReplayBatch
  PROVE  IndexInv'
<1> USE StateMachineAssumption
<1> DEFINE b == Head(log_queue)
<1>1. /\ phase = "replay" /\ log_queue # <<>>
      /\ store' = Apply(store, log, b.start - 1, b.end - 1, {})
      /\ last_committed_idx' = b.end - 1
      /\ log_queue' = Tail(log_queue) /\ main_pc' = "check"
      /\ UNCHANGED <<raftVars, commitVars, snapVars, diskVars, last_log_index,
                      batch_start_index, loader_pc, runVars>>
  BY DEF ReplayBatch
<1>2. /\ log_queue \in Seq(Batches) /\ Len(log_queue) \in Nat /\ Len(log_queue) >= 1
      /\ b = log_queue[1] /\ b \in Batches
      /\ log_queue' \in Seq(Batches) /\ Len(log_queue') = Len(log_queue) - 1
      /\ \A k \in 1 .. Len(log_queue') : log_queue'[k] = log_queue[k + 1]
  BY <1>1, HeadTailProperties, LenProperties, EmptySeq DEF IndexInv, ReplayTypes
<1> HIDE DEF b
<1>3. PICK last \in Nat : last = Latest /\ last < b.start
  BY <1>1, <1>2, IndexesType DEF IndexInv, ReplayPositions
<1>4. /\ b.start \in 1 .. MaxLog /\ b.end \in 1 .. MaxLog + 1 /\ b.start < b.end
      /\ b.end <= last_log_index + 1 /\ last_log_index <= Len(log) /\ last_log_index \in Nat
      /\ Len(log) \in Nat
  BY <1>1, <1>2, LenProperties, SMTT(30) DEF Batches, IndexInv, ReplayTypes, ReplayPositions, RaftTypes
<1>5. PICK s \in Nat, n \in Nat :
         /\ s = b.start - 1 /\ n = b.end - 1 /\ s <= n /\ n <= Len(log) /\ last <= n /\ n <= MaxLog
  <2>1. b.start - 1 \in Nat /\ b.end - 1 \in Nat
    BY <1>4
  <2>. QED BY <1>3, <1>4, <2>1, SMTT(30)
<1>6. StoreTypes'
  <2>1. \A k \in s + 1 .. n : log[k] \in Entries
    BY <1>4, <1>5, ElementOfSeq, SMTT(30) DEF IndexInv, RaftTypes
  <2>2. IsStore(Apply(store, log, s, n, {}))
    BY <1>5, <2>1, ApplyStore DEF IndexInv, StoreTypes
  <2>. QED BY <1>1, <1>5, <2>2 DEF IndexInv, StoreTypes, diskVars
<1>7. RaftTypes' /\ CommitTypes' /\ QueueAgreed'
  BY <1>1 DEF IndexInv, RaftTypes, CommitTypes, QueueAgreed, Agree, raftVars, commitVars, snapVars,
     diskVars
<1>8. SnapshotPositions'
  BY <1>1 DEF IndexInv, SnapshotPositions, Latest, Indexes, raftVars, commitVars, snapVars,
     diskVars, runVars
<1>9. UNCHANGED <<phase, kills, snapshots, log, last_log_index, batch_start_index, loader_pc>>
      /\ Indexes' = Indexes /\ Latest' = Latest /\ last_committed_idx' = n
  BY <1>1, <1>5 DEF runVars, snapVars, raftVars, diskVars, Indexes, Latest
<1>10. ReplayTypes'
  BY <1>1, <1>2, <1>5, <1>9 DEF IndexInv, ReplayTypes
<1>11. ReplayPositions'
  <2>1. ASSUME NEW k \in 1 .. Len(log_queue')
        PROVE  /\ last < log_queue'[k].start /\ log_queue'[k].start < log_queue'[k].end
               /\ log_queue'[k].end <= last_log_index + 1
    <3>0. Len(log_queue') \in Nat
      BY <1>2
    <3>1. k + 1 \in 1 .. Len(log_queue) /\ log_queue'[k] = log_queue[k + 1]
      BY <1>2, <3>0
    <3>. QED BY <1>1, <1>3, <3>1 DEF IndexInv, ReplayPositions
  <2>. QED BY <1>1, <1>3, <1>5, <1>9, <2>1 DEF IndexInv, ReplayPositions
<1>. QED BY <1>6, <1>7, <1>8, <1>10, <1>11 DEF IndexInv

(* Raft goes on behind what was replayed.                                  *)
LEMMA FinishIndex ==
  ASSUME IndexInv, Finish
  PROVE  IndexInv'
<1> USE StateMachineAssumption
<1>1. /\ phase = "replay" /\ phase' = "up" /\ sm_commit_index' = last_committed_idx
      /\ IF Len(log) + 1 <= last_committed_idx THEN CompactTo(last_committed_idx)
         ELSE UNCHANGED <<log, log_start>>
      /\ UNCHANGED <<chosen, storeVars, committed_queue, task_queue, commit_pc, snapVars,
                      diskVars, replayVars, kills, faults>>
  BY DEF Finish
<1>2. /\ commit_pc = "commit" /\ receiving = 0 /\ snapshots = Indexes
      /\ last_committed_idx \in 0 .. MaxLog /\ Latest <= last_committed_idx
      /\ last_committed_idx <= Len(log) \/ last_committed_idx = Latest
      /\ Len(log) \in Nat /\ Len(chosen) \in Nat
  BY <1>1, LenProperties DEF IndexInv, SnapshotPositions, ReplayTypes, ReplayPositions, RaftTypes
<1>3. PICK last \in Nat :
         /\ last = Latest /\ \A i \in Indexes : i \in Nat /\ i <= last
         /\ last # 0 => last \in Indexes
  BY IndexesType
<1>4. PICK n \in 0 .. MaxLog : n = last_committed_idx /\ last <= n /\ (n <= Len(log) \/ n = last)
  BY <1>2, <1>3
<1>5. log_start \in 1 .. MaxLog + 1 /\ log_start <= last + 1
  BY <1>3 DEF IndexInv, RaftTypes, SnapshotPositions
<1>6. Grown /\ n <= Len(log') /\ log_start' \in 1 .. MaxLog + 1 /\ log_start' <= last + 1
  <2>1. CASE n <= Len(log)
    <3>1. UNCHANGED <<log, log_start>>
      BY <1>1, <1>2, <1>4, <2>1
    <3>. QED BY <1>1, <1>5, <2>1, <3>1, Unmoved DEF IndexInv
  <2>2. CASE n > Len(log)
    <3>1. n = last /\ n \in 1 .. MaxLog /\ n \in Indexes
      BY <1>2, <1>3, <1>4, <2>2
    <3>2. CompactTo(n) /\ chosen' = chosen /\ (n <= Len(log) \/ n <= Len(chosen))
      BY <1>1, <1>2, <1>4, <2>2, <3>1 DEF IndexInv, SnapshotPositions
    <3>3. /\ Grown /\ n <= Len(log') /\ log_start' \in 1 .. MaxLog + 1
          /\ log_start' <= (IF log_start > n + 1 THEN log_start ELSE n + 1)
      BY <3>1, <3>2, CompactGrows DEF IndexInv
    <3>. QED BY <1>5, <3>1, <3>3
  <2>. QED BY <1>2, <1>4, <2>1, <2>2
<1>7. RaftTypes'
  BY <1>1, <1>6 DEF IndexInv, RaftTypes, Grown
<1>8. QueueAgreed'
  BY <1>1, <1>6, <1>7, QueueKept
<1>9. StoreTypes' /\ CommitTypes' /\ ReplayTypes'
  BY <1>1, <1>2 DEF IndexInv, StoreTypes, CommitTypes, ReplayTypes, storeVars, snapVars, diskVars,
     replayVars
<1>10. UNCHANGED <<commit_pc, receiving, snapshots>> /\ Indexes' = Indexes /\ Latest' = last
       /\ sm_commit_index' = n
  BY <1>1, <1>3, <1>4 DEF snapVars, diskVars, Indexes, Latest
<1>11. SnapshotPositions'
  <2>1. \A i \in snapshots' \cup Indexes' : i <= n
    BY <1>2, <1>3, <1>4, <1>10
  <2>2. \A i \in Indexes : i <= Len(log') \/ i <= Len(chosen')
    <3>1. Len(log') \in Nat
      BY <1>6, LenProperties DEF Grown
    <3>. QED BY <1>3, <1>4, <1>6, <3>1
  <2>. QED BY <1>1, <1>2, <1>6, <1>10, <2>1, <2>2 DEF SnapshotPositions
<1>12. ReplayPositions'
  BY <1>1 DEF ReplayPositions
<1>. QED BY <1>7, <1>8, <1>9, <1>11, <1>12 DEF IndexInv

LEMMA IndexNext == IndexInv /\ [Next]_vars => IndexInv'
<1> SUFFICES ASSUME IndexInv, [Next]_vars PROVE IndexInv'
  OBVIOUS
<1>1. CASE \E e \in Entries : Choose(e) \/ Replicate(e)
  BY <1>1, RaftStepIndex
<1>2. CASE Commit \/ ApplyRequest \/ WaitCommitQueue \/ WriteCommitted
  BY <1>2, CommitStepIndex, ApplyRequestIndex, WaitAndWriteIndex
<1>3. CASE CreateObject \/ SaveObject \/ \E i \in 1 .. MaxLog : ReceiveSnapshot(i)
  BY <1>3, CreateObjectIndex, SaveObjectIndex, ReceiveIndex
<1>4. CASE Restart \/ LoadBatch \/ MoveStart
  BY <1>4, RestartIndex, LoaderIndex
<1>5. CASE CheckReplay \/ StopReplay \/ ReplayBatch \/ Finish
  BY <1>5, WaitReplayIndex, ReplayBatchIndex, FinishIndex
<1>6. CASE UNCHANGED vars
  <2>1. UNCHANGED <<raftVars, storeVars, commitVars, snapVars, diskVars, replayVars, runVars>>
    BY <1>6 DEF vars
  <2>2. RaftTypes' /\ StoreTypes' /\ CommitTypes' /\ ReplayTypes' /\ QueueAgreed'
    BY <2>1 DEF IndexInv, RaftTypes, StoreTypes, CommitTypes, ReplayTypes, QueueAgreed, Agree,
       raftVars, storeVars, commitVars, snapVars, diskVars, replayVars, runVars
  <2>3. SnapshotPositions' /\ ReplayPositions'
    BY <2>1 DEF IndexInv, SnapshotPositions, ReplayPositions, Latest, Indexes, raftVars, storeVars,
       commitVars, snapVars, diskVars, replayVars, runVars
  <2>. QED BY <2>2, <2>3 DEF IndexInv
<1>. QED BY <1>1, <1>2, <1>3, <1>4, <1>5, <1>6 DEF Next

(* Where commits, snapshots and replay stand to each other, whatever       *)
(* faults happen.                                                          *)
THEOREM PositionsHold == Spec => []IndexInv
BY IndexInit, IndexNext, PTL DEF Spec

(* Every step of committing, snapshots and recovery keeps the types of the *)
(* state, whatever faults happen.                                          *)
THEOREM StateMachineTypeCorrect == Spec => []TypeOK
<1>1. IndexInv => TypeOK
  BY DEF IndexInv, TypeOK, RaftTypes, StoreTypes, CommitTypes, ReplayTypes, IsStore
<1>. QED BY <1>1, PositionsHold, PTL

(* Whatever faults happen, also a kill in the middle of a snapshot: the    *)
(* log is compacted only behind an index of which there are snapshot       *)
(* files, and the loader reads no entry that is gone.                      *)
THEOREM RebuildableHolds == Spec => []Rebuildable
<1>1. IndexInv => Rebuildable
  <2> SUFFICES ASSUME IndexInv PROVE Rebuildable
    OBVIOUS
  <2>1. PICK last \in Nat : last = Latest
    BY IndexesType
  <2>2. log_start \in Nat /\ log_start <= last + 1
    BY <2>1 DEF IndexInv, RaftTypes, SnapshotPositions
  <2>3. log_queue \in Seq(Batches) /\ DOMAIN log_queue = 1 .. Len(log_queue)
    BY LenProperties DEF IndexInv, ReplayTypes
  <2>4. ASSUME phase = "replay", NEW k \in DOMAIN log_queue
        PROVE  log_queue[k].start >= log_start
    <3>1. log_queue[k] \in Batches /\ k \in 1 .. Len(log_queue)
      BY <2>3, <2>4, ElementOfSeq
    <3>2. last < log_queue[k].start /\ log_queue[k].start \in Nat
      BY <2>1, <2>4, <3>1, StateMachineAssumption DEF IndexInv, ReplayPositions, Batches
    <3>. QED BY <2>2, <3>2
  <2>. QED BY <2>1, <2>2, <2>4 DEF Rebuildable, Latest, Indexes
<1>. QED BY <1>1, PositionsHold, PTL

-----------------------------------------------------------------------------
(* The store and the snapshots, in behaviours without the faults that the  *)
(* code does not survive: a kill between the objects of a snapshot, a      *)
(* snapshot sent to a server that has applied entries, and a kill before   *)
(* anything was recorded while the log has a tail that was not chosen.     *)

Clean == \A f \in FaultSets : f \cap {"torn", "behind", "unrecorded"} = {}

Waiting == {committed_queue[k] : k \in DOMAIN committed_queue}

\* The store that the first n entries of c make.
After(c, n) == Apply(EmptyStore, c, 0, n, {})

\* Requests are of sessions that were opened before.
RequestsPossible(c) ==
    \A k \in 1 .. Len(c) : c[k] \in Requests =>
        c[k].session <= Cardinality(SessionsIn(c, k - 1))

\* What is committed, recorded or about to be replayed is chosen.
CommittedChosen ==
    /\ Agree(committed_task)
    /\ \A k \in 1 .. Len(task_queue) : Agree(task_queue[k])
    /\ Agree(Upto)
    /\ phase = "replay" => Agree(last_log_index) /\ committed_queue = <<>>

\* The committed queue holds every request from its first one on, in order.
QueueInOrder ==
    /\ \A k \in 1 .. Len(committed_queue) : committed_queue[k] <= sm_commit_index
    /\ \A j, k \in 1 .. Len(committed_queue) : j < k => committed_queue[j] < committed_queue[k]
    /\ \A k \in 1 .. Len(committed_queue), i \in 1 .. sm_commit_index :
           committed_queue[k] <= i /\ chosen[i] \in Requests => i \in Waiting

StoreExact == store = Apply(EmptyStore, chosen, 0, Upto, Waiting)

\* Every file holds its part of what the chosen entries up to its index make.
ExactFiles(c, fs) ==
    \A f \in fs : f.index \in 1 .. Len(c) /\ f = File(f.index, After(c, f.index), f.object)

\* The first n objects of the snapshot i are written.
Written(c, fs, i, n) == \A k \in 1 .. n : File(i, After(c, i), k) \in fs

FilesExact ==
    /\ ExactFiles(chosen, files)
    /\ \A f \in files :
           f.index \in snapshots \/ (commit_pc = "create" /\ f.index = sm_commit_index)
    /\ \A i \in snapshots \ {receiving} : i <= Len(chosen) /\ Written(chosen, files, i, 3)
    /\ commit_pc = "create" =>
           committed_queue = <<>> /\ Written(chosen, files, sm_commit_index, next_object - 1)
    /\ receiving # 0 =>
           /\ log = <<>> /\ receiving \in snapshots
           /\ Written(chosen, files, receiving, next_object - 1)

\* Up to where the loader has pushed.
Pushed == IF loader_pc = "move" THEN NextBatch ELSE batch_start_index

\* The batches that wait to be replayed follow each other without a gap.
BatchesFollow ==
    phase = "replay" =>
        /\ \A k \in 1 .. Len(log_queue) :
               log_queue[k].start = IF k = 1 THEN last_committed_idx + 1
                                    ELSE log_queue[k - 1].end
        /\ Pushed = IF log_queue = <<>> THEN last_committed_idx + 1
                    ELSE log_queue[Len(log_queue)].end

StoreInv ==
    /\ faults \in FaultSets
    /\ RequestsPossible(chosen) /\ CommittedChosen /\ QueueInOrder
    /\ StoreExact /\ FilesExact /\ BatchesFollow

(* The objects of a snapshot together are the store.                       *)
LEMMA ParseExact ==
  ASSUME NEW s, IsStore(s), NEW i, NEW fs,
         \A f \in fs : f.object \in Objects /\ f = File(i, s, f.object),
         \A k \in 1 .. 3 : File(i, s, k) \in fs
  PROVE  Parse(EmptyStore, fs) = s
<1> DEFINE maps == {f.content : f \in {g \in fs : g.object = 1}}
           counters == IF maps = {} THEN EmptyStore ELSE CHOOSE c \in maps : TRUE
           new == UNION {f.content.nodes : f \in fs}
           ss == UNION {f.content.sessions : f \in fs}
<1>1. /\ File(i, s, 1) \in fs /\ File(i, s, 2) \in fs /\ File(i, s, 3) \in fs
  OBVIOUS
<1>2. \A k : File(i, s, k).object = k /\ File(i, s, k).content = Object(s, k)
  BY DEF File
<1>3. Object(s, 1) = StoreOf(s.zxid, s.session_id_counter, {}, {})
  <2> DEFINE a == [EmptyStore EXCEPT !.zxid = s.zxid]
  <2>1. Object(s, 1) = [a EXCEPT !.session_id_counter = s.session_id_counter]
    BY DEF Object
  <2>2. a = StoreOf(s.zxid, 1, {}, {})
    BY DEF EmptyStore, StoreOf
  <2> HIDE DEF a
  <2>. QED BY <2>1, <2>2 DEF StoreOf
<1>4. Object(s, 2) = StoreOf(1, 1, s.sessions, {})
  BY DEF Object, EmptyStore, StoreOf
<1>5. Object(s, 3) = StoreOf(1, 1, {}, s.nodes)
  BY DEF Object, EmptyStore, StoreOf
<1>6. \A f \in fs : f \in {File(i, s, 1), File(i, s, 2), File(i, s, 3)}
  <2>1. \A k \in Objects : k \in {1, 2, 3}
    BY DEF Objects
  <2>. QED BY <2>1
<1>7. fs = {File(i, s, 1), File(i, s, 2), File(i, s, 3)}
  BY <1>1, <1>6
<1>8. maps = {Object(s, 1)}
  BY <1>2, <1>7
<1>9. counters = Object(s, 1)
  <2> HIDE DEF maps
  <2>. QED BY <1>8
<1>10. {f.content.nodes : f \in fs} = {{}, s.nodes}
  BY <1>2, <1>3, <1>4, <1>5, <1>7 DEF StoreOf
<1>11. {f.content.sessions : f \in fs} = {{}, s.sessions}
  BY <1>2, <1>3, <1>4, <1>5, <1>7 DEF StoreOf
<1>12. new = s.nodes /\ ss = s.sessions
  BY <1>10, <1>11
<1>13. Parse(EmptyStore, fs)
         = StoreOf(counters.zxid, counters.session_id_counter,
                   EmptyStore.sessions \cup ss,
                   new \cup {n \in EmptyStore.nodes : \A m \in new : m.path # n.path})
  BY DEF Parse, StoreOf
<1> HIDE DEF counters, new, ss
<1>14. EmptyStore.sessions \cup ss = s.sessions
  BY <1>12 DEF EmptyStore
<1>15. new \cup {n \in EmptyStore.nodes : \A m \in new : m.path # n.path} = s.nodes
  BY <1>12 DEF EmptyStore
<1>16. counters.zxid = s.zxid /\ counters.session_id_counter = s.session_id_counter
  BY <1>3, <1>9 DEF StoreOf
<1>. QED BY <1>13, <1>14, <1>15, <1>16 DEF IsStore

LEMMA ParseNothing == Parse(EmptyStore, {}) = EmptyStore
BY DEF Parse, EmptyStore

(* Entries that are added change nothing of what the earlier ones make.    *)
LEMMA AfterGrows ==
  ASSUME NEW c \in Seq(Entries), NEW d \in Seq(Entries), Len(c) <= Len(d),
         \A k \in 1 .. Len(c) : d[k] = c[k]
  PROVE  /\ \A n \in 0 .. Len(c) : \A w : Apply(EmptyStore, d, 0, n, w) = Apply(EmptyStore, c, 0, n, w)
         /\ \A n \in 0 .. Len(c) : After(d, n) = After(c, n)
         /\ \A fs : ExactFiles(c, fs) => ExactFiles(d, fs)
         /\ \A fs, n : \A i \in 0 .. Len(c) : Written(c, fs, i, n) => Written(d, fs, i, n)
<1>0. Len(c) \in Nat /\ Len(d) \in Nat
  BY LenProperties
<1>1. ASSUME NEW n \in 0 .. Len(c), NEW w
      PROVE  Apply(EmptyStore, d, 0, n, w) = Apply(EmptyStore, c, 0, n, w)
  <2>1. n \in Nat /\ n >= 0 /\ \A k \in 0 + 1 .. n : d[k] = c[k]
    BY <1>0
  <2>. QED BY <2>1, ApplySame
<1>2. \A n \in 0 .. Len(c) : After(d, n) = After(c, n)
  BY <1>1 DEF After
<1>3. ASSUME NEW fs, ExactFiles(c, fs), NEW f \in fs
      PROVE  f.index \in 1 .. Len(d) /\ f = File(f.index, After(d, f.index), f.object)
  <2>1. f.index \in 1 .. Len(c) /\ f = File(f.index, After(c, f.index), f.object)
    BY <1>3 DEF ExactFiles
  <2>2. f.index \in 0 .. Len(c) /\ f.index \in 1 .. Len(d)
    BY <1>0, <2>1
  <2>. QED BY <1>2, <2>1, <2>2
<1>4. \A fs : ExactFiles(c, fs) => ExactFiles(d, fs)
  BY <1>3 DEF ExactFiles
<1>5. \A fs, n : \A i \in 0 .. Len(c) : Written(c, fs, i, n) => Written(d, fs, i, n)
  BY <1>2 DEF Written
<1>. QED BY <1>1, <1>2, <1>4, <1>5

LEMMA AgreeZero == RaftTypes => Agree(0)
<1> SUFFICES ASSUME RaftTypes PROVE AgreeAt(0)
  BY AgreeIs
<1>. QED BY LenProperties DEF RaftTypes, AgreeAt

LEMMA StoreInit == Init => StoreInv
<1> SUFFICES ASSUME Init PROVE StoreInv
  OBVIOUS
<1> USE StateMachineAssumption DEF Init
<1>1. \A S : <<>> \in Seq(S) /\ Len(<<>>) = 0
  BY EmptySeq
<1>2. Agree(0)
  BY IndexInit, AgreeZero DEF IndexInv
<1>3. RequestsPossible(chosen)
  BY <1>1 DEF RequestsPossible
<1>4. CommittedChosen
  BY <1>1, <1>2 DEF CommittedChosen, Upto
<1>5. QueueInOrder
  BY <1>1 DEF QueueInOrder
<1>6. StoreExact
  <2>1. Apply(EmptyStore, chosen, 0, 0, Waiting) = EmptyStore
    BY ApplyUnrolls
  <2>. QED BY <2>1 DEF StoreExact, Upto
<1>7. FilesExact
  BY DEF FilesExact, ExactFiles
<1>8. BatchesFollow
  BY DEF BatchesFollow
<1>. QED BY <1>3, <1>4, <1>5, <1>6, <1>7, <1>8 DEF StoreInv
LEMMA UptoChosen ==
  ASSUME IndexInv, StoreInv
  PROVE  /\ Upto \in Nat /\ Upto <= Len(chosen) /\ Upto <= Len(log) /\ Agree(Upto)
         /\ Len(chosen) \in Nat /\ Len(log) \in Nat
         /\ \A k \in 1 .. Upto : log[k] = chosen[k]
<1>1. Upto \in Nat /\ Len(chosen) \in Nat /\ Len(log) \in Nat
  BY StateMachineAssumption, LenProperties DEF Upto, IndexInv, CommitTypes, ReplayTypes, RaftTypes
<1>2. Agree(Upto)
  BY DEF StoreInv, CommittedChosen
<1>3. PICK n \in Nat : n = Upto
  BY <1>1
<1>4. AgreeAt(n)
  BY <1>2, <1>3, AgreeIs DEF IndexInv
<1>. QED BY <1>1, <1>2, <1>3, <1>4 DEF AgreeAt

(* What was recorded stays chosen.                                         *)
LEMMA RecordedKept ==
  ASSUME IndexInv, IndexInv', StoreInv, Grown, UNCHANGED <<committed_task, task_queue>>
  PROVE  /\ Agree(committed_task)'
         /\ (\A k \in 1 .. Len(task_queue) : Agree(task_queue[k]))'
<1>1. \A n \in Nat : Agree(n) => Agree(n)'
  BY StillAgree DEF IndexInv
<1>2. Agree(committed_task)'
  <2>1. PICK n \in Nat : n = committed_task
    BY StateMachineAssumption DEF IndexInv, CommitTypes
  <2>2. Agree(n)'
    BY <1>1, <2>1 DEF StoreInv, CommittedChosen
  <2>. QED BY <2>1, <2>2 DEF Agree
<1>3. ASSUME NEW k \in 1 .. Len(task_queue) PROVE Agree(task_queue[k])'
  <2>1. task_queue[k] \in 1 .. MaxLog
    BY ElementOfSeq DEF IndexInv, CommitTypes
  <2>2. PICK n \in Nat : n = task_queue[k]
    BY <2>1, StateMachineAssumption
  <2>3. Agree(n)'
    BY <1>1, <2>2 DEF StoreInv, CommittedChosen
  <2>. QED BY <2>2, <2>3 DEF Agree
<1>. QED BY <1>2, <1>3

(* Steps that leave the store and the queue alone.                         *)
LEMMA StoreKept ==
  ASSUME IndexInv, IndexInv', StoreInv, Grown,
         UNCHANGED <<store, committed_queue, sm_commit_index, last_committed_idx, phase>>
  PROVE  QueueInOrder' /\ StoreExact' /\ Agree(Upto)'
<1>1. Waiting' = Waiting /\ Upto' = Upto
  BY DEF Waiting, Upto
<1>2. PICK n \in Nat : n = Upto
  BY UptoChosen
<1>3. n <= Len(chosen) /\ Len(chosen) \in Nat /\ Agree(n)
  BY <1>2, UptoChosen
<1>4. /\ chosen \in Seq(Entries) /\ chosen' \in Seq(Entries) /\ Len(chosen) <= Len(chosen')
      /\ \A k \in 1 .. Len(chosen) : chosen'[k] = chosen[k]
  BY DEF IndexInv, RaftTypes, Grown
<1>5. StoreExact'
  <2>1. n \in 0 .. Len(chosen)
    BY <1>3
  <2>2. Apply(EmptyStore, chosen', 0, n, Waiting) = Apply(EmptyStore, chosen, 0, n, Waiting)
    BY <1>4, <2>1, AfterGrows
  <2>. QED BY <1>1, <1>2, <2>2 DEF StoreInv, StoreExact
<1>6. Agree(Upto)'
  <2>1. Agree(n)'
    BY <1>3, StillAgree DEF IndexInv
  <2>. QED BY <1>1, <1>2, <2>1 DEF Agree
<1>7. QueueInOrder'
  <2>1. ASSUME NEW k \in 1 .. Len(committed_queue), NEW i \in 1 .. sm_commit_index
        PROVE  chosen'[i] = chosen[i]
    <3>1. phase = "up"
      <4>1. Len(committed_queue) # 0
        BY <2>1
      <4>2. committed_queue # <<>>
        BY <4>1, EmptySeq
      <4>. QED BY <4>2 DEF StoreInv, CommittedChosen, IndexInv, ReplayTypes
    <3>2. n = sm_commit_index
      BY <1>2, <3>1 DEF Upto
    <3>. QED BY <1>3, <1>4, <2>1, <3>2
  <2>. QED BY <1>1, <2>1 DEF StoreInv, QueueInOrder
<1>. QED BY <1>5, <1>6, <1>7

(* Steps that leave the snapshots and their files alone.                   *)
LEMMA FilesKept ==
  ASSUME IndexInv, StoreInv, Grown, UNCHANGED <<files, snapshots, receiving, next_object>>,
         commit_pc' = "create" <=> commit_pc = "create",
         commit_pc = "create" => sm_commit_index' = sm_commit_index /\ committed_queue' = <<>>,
         receiving # 0 => log' = log
  PROVE  FilesExact'
<1>1. /\ chosen \in Seq(Entries) /\ chosen' \in Seq(Entries) /\ Len(chosen) <= Len(chosen')
      /\ \A k \in 1 .. Len(chosen) : chosen'[k] = chosen[k]
      /\ Len(chosen) \in Nat /\ Len(chosen') \in Nat
  BY LenProperties DEF IndexInv, RaftTypes, Grown
<1>2. /\ \A fs : ExactFiles(chosen, fs) => ExactFiles(chosen', fs)
      /\ \A fs, n : \A i \in 0 .. Len(chosen) : Written(chosen, fs, i, n) => Written(chosen', fs, i, n)
  BY <1>1, AfterGrows
<1>3. FilesExact
  BY DEF StoreInv
<1>4. ExactFiles(chosen', files)
  BY <1>2, <1>3 DEF FilesExact
<1>5. ASSUME NEW i \in snapshots \ {receiving}
      PROVE  i <= Len(chosen') /\ Written(chosen', files, i, 3)
  <2>1. i \in Nat
    BY IndexesType
  <2>2. i <= Len(chosen) /\ Written(chosen, files, i, 3)
    BY <1>3 DEF FilesExact
  <2>. QED BY <1>1, <1>2, <2>1, <2>2
<1>6. ASSUME commit_pc = "create"
      PROVE  Written(chosen', files, sm_commit_index, next_object - 1)
  <2>1. sm_commit_index \in 0 .. Len(chosen)
    <3>1. phase = "up"
      BY <1>6 DEF IndexInv, SnapshotPositions
    <3>. QED BY <3>1, UptoChosen DEF Upto
  <2>2. Written(chosen, files, sm_commit_index, next_object - 1)
    BY <1>3, <1>6 DEF FilesExact
  <2>. QED BY <1>2, <2>1, <2>2
<1>7. ASSUME receiving # 0
      PROVE  Written(chosen', files, receiving, next_object - 1)
  <2>1. receiving \in 0 .. Len(chosen)
    BY <1>1, <1>7, StateMachineAssumption DEF IndexInv, SnapshotPositions, CommitTypes
  <2>2. Written(chosen, files, receiving, next_object - 1)
    BY <1>3, <1>7 DEF FilesExact
  <2>. QED BY <1>2, <2>1, <2>2
<1>. QED BY <1>3, <1>4, <1>5, <1>6, <1>7 DEF FilesExact

LEMMA BatchesKept ==
  ASSUME StoreInv, UNCHANGED <<phase, last_committed_idx, last_log_index, batch_start_index,
                               log_queue, loader_pc>>
  PROVE  BatchesFollow'
BY DEF StoreInv, BatchesFollow, Pushed, NextBatch

LEMMA CommittedKept ==
  ASSUME IndexInv, IndexInv', StoreInv, Grown, Agree(Upto)',
         UNCHANGED <<committed_task, task_queue, phase, last_log_index>>,
         phase = "replay" => committed_queue' = committed_queue
  PROVE  CommittedChosen'
<1>1. /\ Agree(committed_task)'
      /\ (\A k \in 1 .. Len(task_queue) : Agree(task_queue[k]))'
  BY RecordedKept
<1>2. phase = "replay" => Agree(last_log_index)'
  <2> SUFFICES ASSUME phase = "replay" PROVE Agree(last_log_index)'
    OBVIOUS
  <2>1. PICK n \in Nat : n = last_log_index
    BY StateMachineAssumption DEF IndexInv, ReplayTypes
  <2>2. Agree(n)'
    BY <2>1, StillAgree DEF StoreInv, CommittedChosen, IndexInv
  <2>. QED BY <2>1, <2>2 DEF Agree
<1>. QED BY <1>1, <1>2 DEF StoreInv, CommittedChosen

(* Raft's own steps: what is chosen stays, and only grows.                 *)
LEMMA RaftStepStore ==
  ASSUME IndexInv, IndexInv', StoreInv, NEW e \in Entries, Choose(e) \/ Replicate(e)
  PROVE  StoreInv'
<1>1. /\ UNCHANGED <<storeVars, commitVars, snapVars, diskVars, replayVars, runVars>>
      /\ Grown
  BY ChooseGrows, ReplicateGrows DEF Choose, Replicate
<1>2. UNCHANGED <<store, committed_queue, sm_commit_index, last_committed_idx, phase, faults,
                  committed_task, task_queue, last_log_index, batch_start_index, log_queue,
                  loader_pc, files, snapshots, receiving, next_object, commit_pc>>
  BY <1>1 DEF storeVars, commitVars, snapVars, diskVars, replayVars, runVars
<1>3. RequestsPossible(chosen')
  <2>0. RequestsPossible(chosen)
    BY DEF StoreInv
  <2>1. CASE Replicate(e)
    BY <2>0, <2>1 DEF Replicate
  <2>2. CASE Choose(e)
    <3>1. /\ chosen \in Seq(Entries) /\ Len(chosen) \in Nat /\ DOMAIN chosen = 1 .. Len(chosen)
          /\ chosen' = Append(chosen, e) /\ Possible(chosen, e)
      BY <2>2, LenProperties DEF IndexInv, RaftTypes, Choose
    <3>2. /\ Len(chosen') = Len(chosen) + 1 /\ chosen'[Len(chosen) + 1] = e
          /\ \A k \in 1 .. Len(chosen) : chosen'[k] = chosen[k]
      BY <3>1, AppendProperties
    <3>3. \A n \in 0 .. Len(chosen) : SessionsIn(chosen', n) = SessionsIn(chosen, n)
      BY <3>1, <3>2 DEF SessionsIn
    <3>4. e \in Requests => e.session <= Cardinality(SessionsIn(chosen, Len(chosen)))
      BY <3>1 DEF Possible, SessionsIn
    <3>5. ASSUME NEW k \in 1 .. Len(chosen'), chosen'[k] \in Requests
          PROVE  chosen'[k].session <= Cardinality(SessionsIn(chosen', k - 1))
      <4>1. k - 1 \in 0 .. Len(chosen)
        BY <3>1, <3>2
      <4>2. CASE k \in 1 .. Len(chosen)
        BY <2>0, <3>2, <3>3, <3>5, <4>1, <4>2 DEF RequestsPossible
      <4>3. CASE k = Len(chosen) + 1
        <5>1. k - 1 = Len(chosen)
          BY <3>1, <4>3
        <5>. QED BY <3>2, <3>3, <3>4, <3>5, <4>1, <4>3, <5>1
      <4>. QED BY <3>1, <3>2, <4>2, <4>3
    <3>. QED BY <3>5 DEF RequestsPossible
  <2>. QED BY <2>1, <2>2
<1>4. QueueInOrder' /\ StoreExact' /\ Agree(Upto)'
  BY <1>1, <1>2, StoreKept
<1>5. CommittedChosen'
  BY <1>1, <1>2, <1>4, CommittedKept
<1>6. FilesExact'
  <2>1. receiving # 0 => log' = log
    BY DEF Choose, Replicate
  <2>2. commit_pc = "create" => committed_queue = <<>>
    BY DEF StoreInv, FilesExact
  <2>. QED BY <1>1, <1>2, <2>1, <2>2, FilesKept
<1>7. BatchesFollow'
  BY <1>2, BatchesKept
<1>. QED BY <1>2, <1>3, <1>4, <1>5, <1>6, <1>7 DEF StoreInv
LEMMA WaitingIs ==
  ASSUME IndexInv, StoreInv
  PROVE  /\ committed_queue \in Seq(1 .. MaxLog) /\ Len(committed_queue) \in Nat
         /\ Waiting = {committed_queue[k] : k \in 1 .. Len(committed_queue)}
         /\ committed_queue # <<>> => phase = "up" /\ commit_pc # "create"
         /\ phase = "up" => \A i \in Waiting : i \in 1 .. Upto /\ chosen[i] \in Requests
<1>1. /\ committed_queue \in Seq(1 .. MaxLog) /\ Len(committed_queue) \in Nat
      /\ Waiting = {committed_queue[k] : k \in 1 .. Len(committed_queue)}
  BY LenProperties DEF IndexInv, CommitTypes, Waiting
<1>2. committed_queue # <<>> => phase = "up" /\ commit_pc # "create"
  BY DEF StoreInv, CommittedChosen, FilesExact, IndexInv, ReplayTypes
<1>3. ASSUME phase = "up", NEW i \in Waiting PROVE i \in 1 .. Upto /\ chosen[i] \in Requests
  <2>1. PICK k \in 1 .. Len(committed_queue) : i = committed_queue[k]
    BY <1>1
  <2>2. i \in 1 .. MaxLog
    BY <1>1, <2>1, ElementOfSeq
  <2>3. i <= Upto /\ Upto \in Nat
    BY <1>3, <2>1, UptoChosen DEF StoreInv, QueueInOrder, Upto
  <2>4. i \in 1 .. Upto
    BY <2>2, <2>3, StateMachineAssumption
  <2>5. log[i] \in Requests
    BY <2>1 DEF IndexInv, QueueAgreed
  <2>. QED BY <2>4, <2>5, UptoChosen
<1>. QED BY <1>1, <1>2, <1>3

(* commit: a session is opened at once, a request waits for its turn.      *)
LEMMA CommitStore ==
  ASSUME IndexInv, IndexInv', StoreInv, Commit
  PROVE  StoreInv'
<1> USE StateMachineAssumption
<1>0. phase = "up" /\ receiving = 0 /\ commit_pc = "commit"
  BY DEF Commit
<1>1. PICK n \in Nat : n = sm_commit_index
  BY DEF IndexInv, CommitTypes
<1> DEFINE i == n + 1
<1>2. /\ Agree(i) /\ sm_commit_index' = i
      /\ store' = (IF log[i] = Session THEN NewSession(store) ELSE store)
      /\ committed_queue' = (IF log[i] \in Requests THEN Append(committed_queue, i)
                             ELSE committed_queue)
      /\ task_queue' = (IF log[i] = Config THEN task_queue ELSE Append(task_queue, i))
      /\ commit_pc' \in {"wait", "commit"}
      /\ UNCHANGED <<raftVars, snapVars, diskVars, replayVars, runVars>>
  BY <1>1 DEF Commit, ChkCreateSnapshot
<1>3. UNCHANGED <<chosen, log, phase, faults, committed_task, files, snapshots, receiving,
                  next_object>>
  BY <1>2 DEF raftVars, snapVars, diskVars, runVars
<1>4. Grown
  BY <1>3, Unmoved DEF IndexInv
<1>5. /\ i \in Nat /\ i <= Len(chosen) /\ Len(chosen) \in Nat /\ i \in 1 .. i
      /\ log[i] = chosen[i] /\ chosen[i] \in Entries
      /\ Agree(i)' /\ Upto' = i /\ Upto = n /\ i \in 1 .. MaxLog
  <2>1. i \in Nat /\ i \in 1 .. i
    OBVIOUS
  <2>2. AgreeAt(i)
    BY <1>2, <2>1, AgreeIs DEF IndexInv
  <2>3. chosen \in Seq(Entries) /\ Len(chosen) \in Nat /\ Len(chosen) <= MaxLog
    BY LenProperties DEF IndexInv, RaftTypes
  <2>4. i \in 1 .. Len(chosen) /\ log[i] = chosen[i]
    BY <2>1, <2>2, <2>3 DEF AgreeAt
  <2>5. chosen[i] \in Entries
    BY <2>3, <2>4, ElementOfSeq
  <2>6. Agree(i)'
    BY <1>2, <1>3 DEF Agree
  <2>. QED BY <1>0, <1>1, <1>2, <1>3, <2>1, <2>3, <2>4, <2>5, <2>6 DEF Upto
<1>6. PICK w : w = Waiting /\ \A k \in w : k \in 1 .. n
  BY <1>0, <1>5, WaitingIs
<1>7. PICK v : v = Waiting' /\ v = (IF chosen[i] \in Requests THEN w \cup {i} ELSE w)
  <2>1. /\ committed_queue \in Seq(1 .. MaxLog) /\ Len(committed_queue) \in Nat
        /\ Waiting = {committed_queue[k] : k \in 1 .. Len(committed_queue)}
    BY WaitingIs
  <2>2. CASE chosen[i] \in Requests
    <3>1. committed_queue' = Append(committed_queue, i)
      BY <1>2, <1>5, <2>2
    <3>2. /\ Len(committed_queue') = Len(committed_queue) + 1
          /\ committed_queue'[Len(committed_queue) + 1] = i
          /\ \A k \in 1 .. Len(committed_queue) : committed_queue'[k] = committed_queue[k]
          /\ committed_queue' \in Seq(1 .. MaxLog)
      BY <1>5, <2>1, <3>1, AppendProperties
    <3>3. DOMAIN committed_queue' = 1 .. Len(committed_queue')
      BY <3>2, LenProperties
    <3>4. Waiting' = {committed_queue'[k] : k \in 1 .. Len(committed_queue')}
      BY <3>3 DEF Waiting
    <3> HIDE DEF i
    <3>5. Waiting' = Waiting \cup {i}
      <4>1. \A k \in 1 .. Len(committed_queue') : k \in 1 .. Len(committed_queue) \/ k = Len(committed_queue) + 1
        BY <2>1, <3>2
      <4>2. \A x \in Waiting' : x \in Waiting \cup {i}
        BY <2>1, <3>2, <3>4, <4>1
      <4>3. Len(committed_queue) + 1 \in 1 .. Len(committed_queue') /\ \A k \in 1 .. Len(committed_queue) : k \in 1 .. Len(committed_queue')
        BY <2>1, <3>2
      <4>4. i \in Waiting'
        BY <3>2, <3>4, <4>3
      <4>5. \A x \in Waiting : x \in Waiting'
        BY <2>1, <3>2, <3>4, <4>3
      <4>. QED BY <4>2, <4>4, <4>5
    <3>. QED BY <1>6, <2>2, <3>5
  <2>3. CASE chosen[i] \notin Requests
    <3>1. Waiting' = Waiting
      BY <1>2, <1>5, <2>3 DEF Waiting
    <3>. QED BY <1>6, <2>3, <3>1
  <2>. QED BY <2>2, <2>3
<1>8. StoreExact'
  <2>1. Apply(EmptyStore, chosen, 0, n, v) = Apply(EmptyStore, chosen, 0, n, w)
    <3>1. n >= 0 /\ \A k \in 0 + 1 .. n : (k \in v <=> k \in w)
      BY <1>7
    <3>. QED BY <3>1, ApplySame
  <2>2. store = Apply(EmptyStore, chosen, 0, n, w)
    BY <1>5, <1>6 DEF StoreInv, StoreExact
  <2>3. Apply(EmptyStore, chosen, 0, n + 1, v)
          = IF n + 1 \in v THEN store ELSE ReplayEntry(store, chosen[n + 1])
    <3>1. n >= 0
      OBVIOUS
    <3>. QED BY <2>1, <2>2, <3>1, ApplyUnrolls
  <2>4. store' = IF n + 1 \in v THEN store ELSE ReplayEntry(store, chosen[n + 1])
    <3>0. n + 1 \notin w
      BY <1>6
    <3>1. CASE chosen[i] \in Requests
      BY <1>2, <1>5, <1>7, <3>1, EntryKinds
    <3>2. CASE chosen[i] = Session
      BY <1>2, <1>5, <1>7, <3>0, <3>2, EntryKinds DEF ReplayEntry
    <3>3. CASE chosen[i] = Config
      BY <1>2, <1>5, <1>7, <3>0, <3>3, EntryKinds DEF ReplayEntry
    <3>. QED BY <1>5, <3>1, <3>2, <3>3 DEF Entries
  <2>5. store' = Apply(EmptyStore, chosen', 0, i, v)
    BY <1>3, <2>3, <2>4
  <2> HIDE DEF i
  <2>. QED BY <1>5, <1>7, <2>5 DEF StoreExact
<1>9. QueueInOrder'
  <2>1. /\ committed_queue \in Seq(1 .. MaxLog) /\ Len(committed_queue) \in Nat
        /\ \A k \in 1 .. Len(committed_queue) : committed_queue[k] \in 1 .. n
        /\ \A j, k \in 1 .. Len(committed_queue) : j < k => committed_queue[j] < committed_queue[k]
        /\ \A k \in 1 .. Len(committed_queue), j \in 1 .. n :
             committed_queue[k] <= j /\ chosen[j] \in Requests => j \in w
    BY <1>1, <1>6, WaitingIs DEF StoreInv, QueueInOrder
  <2>2. CASE chosen[i] \in Requests
    <3>1. committed_queue' = Append(committed_queue, i)
      BY <1>2, <1>5, <2>2
    <3>2. /\ Len(committed_queue') = Len(committed_queue) + 1
          /\ committed_queue'[Len(committed_queue) + 1] = i
          /\ \A k \in 1 .. Len(committed_queue) : committed_queue'[k] = committed_queue[k]
      BY <1>5, <2>1, <3>1, AppendProperties
    <3>3. ASSUME NEW k \in 1 .. Len(committed_queue') PROVE committed_queue'[k] \in 1 .. i
      <4>1. CASE k = Len(committed_queue) + 1
        <5>1. committed_queue'[k] = i
          BY <3>2, <4>1
        <5>. QED BY <1>5, <5>1
      <4>2. CASE k # Len(committed_queue) + 1
        <5>1. k \in 1 .. Len(committed_queue)
          BY <2>1, <3>2, <4>2
        <5>2. committed_queue'[k] \in 1 .. n
          BY <2>1, <3>2, <5>1
        <5>. QED BY <5>2
      <4>. QED BY <4>1, <4>2
    <3>4. \A j, k \in 1 .. Len(committed_queue') : j < k => committed_queue'[j] < committed_queue'[k]
      <4>1. \A k \in 1 .. Len(committed_queue') : k \in 1 .. Len(committed_queue) \/ k = Len(committed_queue) + 1
        BY <2>1, <3>2
      <4>. QED BY <2>1, <3>2, <4>1, SMTT(30)
    <3>5. ASSUME NEW k \in 1 .. Len(committed_queue'), NEW j \in 1 .. i,
                 committed_queue'[k] <= j, chosen[j] \in Requests
          PROVE  j \in v
      <4>1. CASE j = i
        BY <1>7, <2>2, <4>1
      <4>2. CASE j # i
        <5>1. j \in 1 .. n /\ k # Len(committed_queue) + 1
          BY <3>2, <3>5, <4>2
        <5>2. k \in 1 .. Len(committed_queue)
          BY <2>1, <3>2, <5>1
        <5>. QED BY <1>7, <2>1, <2>2, <3>2, <3>5, <5>1, <5>2
      <4>. QED BY <4>1, <4>2
    <3>6. sm_commit_index' = i /\ chosen' = chosen /\ Waiting' = v
      BY <1>2, <1>3, <1>7
    <3>7. \A k \in 1 .. Len(committed_queue') : committed_queue'[k] <= i
      BY <3>3
    <3> HIDE DEF i
    <3>. QED BY <3>4, <3>5, <3>6, <3>7 DEF QueueInOrder
  <2>3. CASE chosen[i] \notin Requests
    <3>1. committed_queue' = committed_queue /\ v = w
      BY <1>2, <1>5, <1>7, <2>3
    <3>2. ASSUME NEW k \in 1 .. Len(committed_queue), NEW j \in 1 .. i,
                 committed_queue[k] <= j, chosen[j] \in Requests
          PROVE  j \in v
      <4>1. j \in 1 .. n
        BY <2>3, <3>2
      <4>. QED BY <2>1, <3>1, <3>2, <4>1
    <3>3. \A k \in 1 .. Len(committed_queue) : committed_queue[k] <= i
      BY <2>1
    <3>4. sm_commit_index' = i /\ chosen' = chosen /\ Waiting' = v
      BY <1>2, <1>3, <1>7
    <3> HIDE DEF i
    <3>. QED BY <2>1, <3>1, <3>2, <3>3, <3>4 DEF QueueInOrder
  <2>. QED BY <2>2, <2>3
<1>10. CommittedChosen'
  <2>1. task_queue \in Seq(1 .. MaxLog) /\ Len(task_queue) \in Nat
    BY LenProperties DEF IndexInv, CommitTypes
  <2>2. \A x : Agree(x)' <=> Agree(x)
    BY <1>3 DEF Agree
  <2>3. \A k \in 1 .. Len(task_queue) : Agree(task_queue[k])
    BY DEF StoreInv, CommittedChosen
  <2>4. ASSUME NEW k \in 1 .. Len(task_queue') PROVE Agree(task_queue'[k])
    <3>1. CASE log[i] = Config
      BY <1>2, <2>3, <3>1
    <3>2. CASE log[i] # Config
      <4>1. task_queue' = Append(task_queue, i)
        BY <1>2, <3>2
      <4>2. /\ Len(task_queue') = Len(task_queue) + 1 /\ task_queue'[Len(task_queue) + 1] = i
            /\ \A j \in 1 .. Len(task_queue) : task_queue'[j] = task_queue[j]
        BY <1>5, <2>1, <4>1, AppendProperties
      <4>3. k \in 1 .. Len(task_queue) \/ k = Len(task_queue) + 1
        BY <2>1, <4>2
      <4> HIDE DEF i
      <4>. QED BY <1>2, <2>3, <4>2, <4>3
    <3>. QED BY <3>1, <3>2
  <2>5. (\A k \in 1 .. Len(task_queue) : Agree(task_queue[k]))'
    BY <1>3, <2>4 DEF Agree
  <2>6. Agree(committed_task)'
    BY <1>3 DEF StoreInv, CommittedChosen, Agree
  <2>7. Agree(Upto)'
    <3> HIDE DEF i
    <3>. QED BY <1>2, <1>3, <1>5 DEF Agree
  <2>. QED BY <1>0, <1>3, <2>5, <2>6, <2>7 DEF CommittedChosen
<1>11. FilesExact'
  BY <1>0, <1>2, <1>3, <1>4, FilesKept
<1>12. BatchesFollow'
  BY <1>0, <1>3 DEF BatchesFollow
<1>. QED BY <1>3, <1>8, <1>9, <1>10, <1>11, <1>12 DEF StoreInv
(* The processor applies the first request that waits: sessions may have   *)
(* been opened behind it, which makes no difference to what it does.       *)
LEMMA ApplyRequestStore ==
  ASSUME IndexInv, IndexInv', StoreInv, ApplyRequest
  PROVE  StoreInv'
<1> USE StateMachineAssumption
<1>1. /\ phase = "up" /\ committed_queue # <<>>
      /\ store' = ProcessRequest(store, log[Head(committed_queue)])
      /\ committed_queue' = Tail(committed_queue)
      /\ UNCHANGED <<raftVars, last_committed_idx, sm_commit_index, task_queue,
                      commit_pc, snapVars, diskVars, replayVars, runVars>>
  BY DEF ApplyRequest
<1>2. UNCHANGED <<chosen, log, phase, faults, sm_commit_index, task_queue, committed_task, files,
                  snapshots, receiving, next_object, commit_pc, last_log_index>>
  BY <1>1 DEF raftVars, snapVars, diskVars, replayVars, runVars
<1>3. Grown
  BY <1>2, Unmoved DEF IndexInv
<1>4. /\ committed_queue \in Seq(1 .. MaxLog) /\ Len(committed_queue) \in Nat
      /\ Waiting = {committed_queue[k] : k \in 1 .. Len(committed_queue)}
      /\ commit_pc # "create"
      /\ \A i \in Waiting : i \in 1 .. Upto /\ chosen[i] \in Requests
  BY <1>1, WaitingIs
<1>5. /\ Len(committed_queue) >= 1 /\ Head(committed_queue) = committed_queue[1]
      /\ committed_queue' \in Seq(1 .. MaxLog) /\ Len(committed_queue') = Len(committed_queue) - 1
      /\ \A k \in 1 .. Len(committed_queue') : committed_queue'[k] = committed_queue[k + 1]
      /\ DOMAIN committed_queue' = 1 .. Len(committed_queue')
  BY <1>1, <1>4, HeadTailProperties, LenProperties, EmptySeq
<1>6. PICK n \in Nat : n = Upto /\ n = sm_commit_index /\ n = Upto' /\ n <= Len(chosen)
  BY <1>1, <1>2, UptoChosen DEF Upto
<1>7. PICK w : w = Waiting
  OBVIOUS
<1>8. PICK h \in 1 .. n : h = committed_queue[1] /\ h \in w /\ log[h] = chosen[h]
                           /\ h = Head(committed_queue)
  <2>1. 1 \in 1 .. Len(committed_queue)
    BY <1>4, <1>5
  <2>2. committed_queue[1] \in w /\ committed_queue[1] \in 1 .. n
    BY <1>4, <1>6, <1>7, <2>1
  <2>. QED BY <1>5, <1>6, <2>2, UptoChosen
<1>9. \A j, k \in 1 .. Len(committed_queue) : j < k => committed_queue[j] < committed_queue[k]
  BY DEF StoreInv, QueueInOrder
<1>10. \A k \in 1 .. Len(committed_queue') :
          /\ k + 1 \in 1 .. Len(committed_queue) /\ committed_queue'[k] = committed_queue[k + 1]
          /\ committed_queue'[k] \in 1 .. n /\ h < committed_queue'[k]
  <2> SUFFICES ASSUME NEW k \in 1 .. Len(committed_queue')
               PROVE  /\ k + 1 \in 1 .. Len(committed_queue)
                      /\ committed_queue'[k] = committed_queue[k + 1]
                      /\ committed_queue'[k] \in 1 .. n /\ h < committed_queue'[k]
    OBVIOUS
  <2>1. k + 1 \in 1 .. Len(committed_queue) /\ 1 \in 1 .. Len(committed_queue) /\ 1 < k + 1
        /\ committed_queue'[k] = committed_queue[k + 1]
    BY <1>4, <1>5
  <2>2. committed_queue[1] < committed_queue[k + 1]
    BY <1>9, <2>1
  <2>3. committed_queue[k + 1] \in Waiting
    BY <1>4, <2>1
  <2>. QED BY <1>4, <1>6, <1>8, <2>1, <2>2, <2>3
<1>11. Waiting' = w \ {h}
  <2>1. Waiting' = {committed_queue'[k] : k \in 1 .. Len(committed_queue')}
    BY <1>5 DEF Waiting
  <2>2. ASSUME NEW x \in Waiting' PROVE x \in w \ {h}
    <3>1. PICK k \in 1 .. Len(committed_queue') : x = committed_queue'[k]
      BY <2>1
    <3>2. k + 1 \in 1 .. Len(committed_queue) /\ x = committed_queue[k + 1] /\ x \in 1 .. n /\ h < x
      BY <1>10, <3>1
    <3>3. x \in Waiting
      BY <1>4, <3>2
    <3>4. x # h
      BY <3>2
    <3>. QED BY <1>7, <3>3, <3>4
  <2>3. ASSUME NEW x \in w \ {h} PROVE x \in Waiting'
    <3>1. PICK k \in 1 .. Len(committed_queue) : x = committed_queue[k]
      BY <1>4, <1>7
    <3>2. k # 1
      BY <1>8, <3>1
    <3>3. PICK j \in 1 .. Len(committed_queue') : k = j + 1
      <4>1. k - 1 \in 1 .. Len(committed_queue') /\ k = (k - 1) + 1
        BY <1>4, <1>5, <3>2
      <4>. QED BY <4>1
    <3>4. x = committed_queue'[j]
      BY <1>5, <3>1, <3>3
    <3>. QED BY <2>1, <3>4
  <2>. QED BY <2>2, <2>3
<1>12. StoreExact'
  <2>1. \A k \in 1 .. n : chosen[k] \in Entries /\ (k \in w => chosen[k] \in Requests)
    <3>1. chosen \in Seq(Entries) /\ Len(chosen) \in Nat
      BY LenProperties DEF IndexInv, RaftTypes
    <3>2. \A k \in 1 .. n : k \in 1 .. Len(chosen)
      BY <1>6, <3>1
    <3>. QED BY <1>4, <1>7, <3>1, <3>2, ElementOfSeq
  <2>2. ASSUME NEW k \in 1 .. h - 1, k \in w PROVE FALSE
    <3>1. PICK j \in 1 .. Len(committed_queue) : k = committed_queue[j]
      BY <1>4, <1>7, <2>2
    <3>2. 1 \in 1 .. Len(committed_queue) /\ (j = 1 \/ 1 < j)
      BY <1>4, <1>5
    <3>3. h <= k
      BY <1>8, <1>9, <3>1, <3>2
    <3>. QED BY <3>3
  <2>3. ASSUME NEW k \in h .. n, chosen[k] \in Requests PROVE k \in w
    <3>1. 1 \in 1 .. Len(committed_queue) /\ k \in 1 .. sm_commit_index
      BY <1>4, <1>5, <1>6
    <3>2. committed_queue[1] <= k
      BY <1>8
    <3>. QED BY <1>7, <2>3, <3>1, <3>2 DEF StoreInv, QueueInOrder
  <2>4. chosen[h].session <= Cardinality(SessionsIn(chosen, h - 1))
    <3>1. h \in 1 .. Len(chosen)
      BY <1>6, UptoChosen
    <3>2. chosen[h] \in Requests
      BY <1>8, <2>1
    <3>. QED BY <3>1, <3>2 DEF StoreInv, RequestsPossible
  <2>5. \A k \in 1 .. h - 1 : k \notin w
    BY <2>2
  <2>6. \A k \in h .. n : chosen[k] \in Requests => k \in w
    BY <2>3
  <2>7. ProcessRequest(Apply(EmptyStore, chosen, 0, n, w), chosen[h])
          = Apply(EmptyStore, chosen, 0, n, w \ {h})
    BY <1>8, <2>1, <2>4, <2>5, <2>6, FirstWaitingApplied
  <2>8. store = Apply(EmptyStore, chosen, 0, n, w)
    BY <1>6, <1>7 DEF StoreInv, StoreExact
  <2>9. store' = Apply(EmptyStore, chosen, 0, n, w \ {h})
    BY <1>1, <1>8, <2>7, <2>8
  <2>. QED BY <1>2, <1>6, <1>11, <2>9 DEF StoreExact
<1>13. QueueInOrder'
  <2>1. \A k \in 1 .. Len(committed_queue') : committed_queue'[k] <= n
    BY <1>10
  <2>2. ASSUME NEW j \in 1 .. Len(committed_queue'), NEW k \in 1 .. Len(committed_queue'), j < k
        PROVE  committed_queue'[j] < committed_queue'[k]
    <3>1. j + 1 < k + 1
      BY <1>4, <1>5, <2>2
    <3>. QED BY <1>9, <1>10, <3>1
  <2>3. ASSUME NEW k \in 1 .. Len(committed_queue'), NEW i \in 1 .. n,
               committed_queue'[k] <= i, chosen[i] \in Requests
        PROVE  i \in w \ {h}
    <3>1. i \in w
      BY <1>6, <1>7, <1>10, <2>3 DEF StoreInv, QueueInOrder
    <3>2. i # h
      BY <1>10, <2>3
    <3>. QED BY <3>1, <3>2
  <2>4. sm_commit_index' = n /\ chosen' = chosen
    BY <1>2, <1>6
  <2>. QED BY <1>11, <2>1, <2>2, <2>3, <2>4 DEF QueueInOrder
<1>14. CommittedChosen'
  <2>1. Agree(Upto)'
    <3>1. Agree(n)
      BY <1>6, UptoChosen
    <3>. QED BY <1>2, <1>6, <3>1 DEF Agree
  <2>. QED BY <1>1, <1>2, <1>3, <2>1, CommittedKept
<1>15. FilesExact'
  BY <1>2, <1>3, <1>4, FilesKept
<1>16. BatchesFollow'
  BY <1>1, <1>2 DEF BatchesFollow
<1>17. RequestsPossible(chosen')
  BY <1>2 DEF StoreInv
<1>. QED BY <1>2, <1>12, <1>13, <1>14, <1>15, <1>16, <1>17 DEF StoreInv

(* The commit thread waits; the recorder writes.                           *)
LEMMA WaitAndWriteStore ==
  ASSUME IndexInv, IndexInv', StoreInv, WaitCommitQueue \/ WriteCommitted
  PROVE  StoreInv'
<1> USE StateMachineAssumption
<1>1. /\ UNCHANGED <<raftVars, storeVars, sm_commit_index, committed_queue, snapshots, receiving,
                      files, replayVars, runVars>>
      /\ phase = "up"
  BY DEF WaitCommitQueue, WriteCommitted, snapVars, diskVars
<1>2. UNCHANGED <<chosen, log, store, last_committed_idx, phase, faults, sm_commit_index,
                  committed_queue, files, snapshots, receiving, last_log_index>>
  BY <1>1 DEF raftVars, storeVars, replayVars, runVars
<1>3. Grown
  BY <1>2, Unmoved DEF IndexInv
<1>4. QueueInOrder' /\ StoreExact' /\ Agree(Upto)'
  BY <1>2, <1>3, StoreKept
<1>5. CommittedChosen'
  <2>1. CASE WaitCommitQueue
    <3>1. UNCHANGED <<committed_task, task_queue>>
      BY <2>1 DEF WaitCommitQueue, diskVars
    <3>. QED BY <1>2, <1>3, <1>4, <3>1, CommittedKept
  <2>2. CASE WriteCommitted
    <3>1. task_queue # <<>> /\ committed_task' = Last(task_queue) /\ task_queue' = <<>>
      BY <2>2 DEF WriteCommitted
    <3>2. task_queue \in Seq(1 .. MaxLog) /\ Len(task_queue) \in 1 .. Len(task_queue)
      BY <3>1, LenProperties, EmptySeq DEF IndexInv, CommitTypes
    <3>3. Agree(task_queue[Len(task_queue)])
      BY <3>2 DEF StoreInv, CommittedChosen
    <3>4. Agree(committed_task)'
      BY <1>2, <3>1, <3>3 DEF Agree, Last
    <3>5. Len(task_queue') = 0
      BY <3>1, EmptySeq
    <3>. QED BY <1>1, <1>2, <1>4, <3>4, <3>5 DEF CommittedChosen
  <2>. QED BY <2>1, <2>2
<1>6. FilesExact'
  <2>1. CASE WriteCommitted
    <3>1. UNCHANGED <<next_object, commit_pc>>
      BY <2>1 DEF WriteCommitted, snapVars
    <3>2. commit_pc = "create" => committed_queue' = <<>>
      BY <1>2 DEF StoreInv, FilesExact
    <3>. QED BY <1>2, <1>3, <3>1, <3>2, FilesKept
  <2>2. CASE WaitCommitQueue
    <3>1. commit_pc = "wait" /\ commit_pc' = "create" /\ next_object' = 1 /\ committed_queue' = <<>>
      BY <1>2, <2>2 DEF WaitCommitQueue
    <3>2. receiving = 0
      BY <3>1 DEF IndexInv, SnapshotPositions
    <3>3. Written(chosen', files', sm_commit_index', next_object' - 1)
      BY <3>1 DEF Written
    <3>. QED BY <1>2, <3>1, <3>2, <3>3 DEF StoreInv, FilesExact
  <2>. QED BY <2>1, <2>2
<1>7. BatchesFollow'
  BY <1>1, <1>2 DEF BatchesFollow
<1>8. RequestsPossible(chosen')
  BY <1>2 DEF StoreInv
<1>. QED BY <1>2, <1>4, <1>5, <1>6, <1>7, <1>8 DEF StoreInv
LEMMA WrittenOneMore ==
  ASSUME NEW c, NEW fs, NEW i, NEW k \in 1 .. 3, Written(c, fs, i, k - 1)
  PROVE  Written(c, fs \cup {File(i, After(c, i), k)}, i, k)
<1>1. \A j \in 1 .. k : j \in 1 .. k - 1 \/ j = k
  OBVIOUS
<1>. QED BY <1>1 DEF Written

(* createObjects: nothing is applied between the objects, each of which    *)
(* holds its part of what the chosen entries up to the index make.         *)
LEMMA CreateObjectStore ==
  ASSUME IndexInv, IndexInv', StoreInv, CreateObject
  PROVE  StoreInv'
<1> USE StateMachineAssumption
<1>1. /\ phase = "up" /\ commit_pc = "create"
      /\ UNCHANGED <<chosen, storeVars, sm_commit_index, committed_queue, task_queue,
                      receiving, committed_task, replayVars, runVars>>
  BY DEF CreateObject
<1>2. UNCHANGED <<chosen, store, last_committed_idx, phase, faults, sm_commit_index,
                  committed_queue, task_queue, committed_task, receiving, last_log_index>>
  BY <1>1 DEF storeVars, replayVars, runVars
<1>3. /\ committed_queue = <<>> /\ Written(chosen, files, sm_commit_index, next_object - 1)
      /\ ExactFiles(chosen, files)
      /\ \A f \in files : f.index \in snapshots \/ f.index = sm_commit_index
      /\ \A j \in snapshots : j # receiving => j <= Len(chosen) /\ Written(chosen, files, j, 3)
  BY <1>1 DEF StoreInv, FilesExact
<1>4. receiving = 0 /\ 0 \notin snapshots
  BY <1>1, IndexesType DEF IndexInv, SnapshotPositions
<1>5. PICK i \in Nat : /\ i = sm_commit_index /\ i = Upto /\ i \in 1 .. Len(chosen)
                       /\ i \in 1 .. MaxLog /\ i <= Len(log) /\ Len(log) \in Nat
  <2>1. sm_commit_index = Upto /\ sm_commit_index >= 1
    BY <1>1 DEF Upto, IndexInv, SnapshotPositions
  <2>2. sm_commit_index \in 0 .. MaxLog
    BY DEF IndexInv, CommitTypes
  <2>. QED BY <2>1, <2>2, UptoChosen
<1>6. PICK k \in 1 .. 3 : k = next_object
  BY DEF IndexInv, CommitTypes, Objects
<1> DEFINE new == File(i, After(chosen, i), k)
           written == files \cup {new}
<1>7. store = After(chosen, i)
  <2>1. Waiting = {}
    <3>1. Len(committed_queue) = 0
      BY <1>3, EmptySeq
    <3>. QED BY <3>1, WaitingIs
  <2>. QED BY <1>5, <2>1 DEF StoreInv, StoreExact, After
<1>8. \/ /\ k < 3 /\ files' = written /\ next_object' = k + 1
         /\ UNCHANGED <<commit_pc, snapshots, log, log_start>>
      \/ /\ k = 3 /\ snapshots' = Kept(snapshots \cup {i})
         /\ files' = {f \in written : f.index \in snapshots'}
         /\ commit_pc' = "commit" /\ next_object' = 1
         /\ IF i > Reserved THEN CompactTo(i - Reserved) ELSE UNCHANGED <<log, log_start>>
  <2>1. k < Max(Objects) <=> k < 3
    BY LastObject
  <2>2. ~(k < 3) => k = 3
    OBVIOUS
  <2>. QED BY <1>5, <1>6, <1>7, <2>1, <2>2 DEF CreateObject
<1>9. log' = log
  <2>1. CASE i > Reserved /\ CompactTo(i - Reserved)
    <3>1. ~(i - Reserved > Len(log))
      BY <1>5
    <3>. QED BY <2>1, <3>1 DEF CompactTo
  <2>. QED BY <1>8, <2>1
<1>10. Grown
  BY <1>2, <1>9, Unmoved DEF IndexInv
<1>11. QueueInOrder' /\ StoreExact' /\ Agree(Upto)'
  BY <1>2, <1>10, StoreKept
<1>12. CommittedChosen'
  BY <1>2, <1>10, <1>11, CommittedKept
<1>13. new.index = i /\ new.object = k
  BY DEF File
<1>14. ExactFiles(chosen, written)
  BY <1>3, <1>5, <1>13 DEF ExactFiles
<1>15. Written(chosen, written, i, k)
  BY <1>3, <1>5, <1>6, WrittenOneMore
<1>16. \A f \in written : f.index \in snapshots \/ f.index = i
  BY <1>3, <1>5, <1>13
<1>17. \A j \in snapshots : j <= Len(chosen) /\ Written(chosen, written, j, 3)
  BY <1>3, <1>4 DEF Written
<1>18. FilesExact'
  <2> HIDE DEF new, written
  <2>1. CASE k < 3 /\ files' = written /\ next_object' = k + 1 /\ UNCHANGED <<commit_pc, snapshots>>
    <3>1. next_object' - 1 = k
      BY <2>1
    <3>2. Written(chosen', files', sm_commit_index', next_object' - 1)
      BY <1>2, <1>5, <1>15, <2>1, <3>1
    <3>. QED BY <1>1, <1>2, <1>3, <1>4, <1>5, <1>14, <1>16, <1>17, <2>1, <3>2 DEF FilesExact
  <2>2. CASE /\ k = 3 /\ snapshots' = Kept(snapshots \cup {i})
             /\ files' = {f \in written : f.index \in snapshots'}
             /\ commit_pc' = "commit"
    <3>1. snapshots' \subseteq snapshots \cup {i}
      BY <2>2 DEF Kept
    <3>2. ExactFiles(chosen, files')
      BY <1>14, <2>2 DEF ExactFiles
    <3>3. ASSUME NEW j \in snapshots' PROVE j <= Len(chosen) /\ Written(chosen, files', j, 3)
      <4>1. j <= Len(chosen) /\ Written(chosen, written, j, 3)
        <5>1. CASE j \in snapshots
          BY <1>17, <5>1
        <5>2. CASE j = i
          <6>1. Written(chosen, written, i, 3)
            BY <1>15, <2>2
          <6>. QED BY <1>5, <5>2, <6>1
        <5>. QED BY <3>1, <5>1, <5>2
      <4>2. \A m : File(j, After(chosen, j), m).index = j
        BY DEF File
      <4>. QED BY <2>2, <4>1, <4>2 DEF Written
    <3>. QED BY <1>2, <1>4, <2>2, <3>2, <3>3 DEF FilesExact
  <2>. QED BY <1>8, <2>1, <2>2
<1>19. BatchesFollow'
  BY <1>1, <1>2 DEF BatchesFollow
<1>20. RequestsPossible(chosen')
  BY <1>2 DEF StoreInv
<1>. QED BY <1>2, <1>11, <1>12, <1>18, <1>19, <1>20 DEF StoreInv

(* save_logical_snp_obj: a server with an empty log is sent a snapshot.    *)
LEMMA ReceiveStore ==
  ASSUME Clean, IndexInv, IndexInv', StoreInv, NEW i \in 1 .. MaxLog, ReceiveSnapshot(i)
  PROVE  StoreInv'
<1> USE StateMachineAssumption
<1>1. /\ phase = "up" /\ commit_pc = "commit" /\ receiving = 0
      /\ i <= Len(chosen) /\ (log = <<>> \/ "behind" \in faults)
      /\ receiving' = i /\ next_object' = 1 /\ snapshots' = snapshots \cup {i}
      /\ UNCHANGED <<raftVars, storeVars, commitVars, diskVars, replayVars, runVars>>
  BY DEF ReceiveSnapshot
<1>2. UNCHANGED <<chosen, log, store, last_committed_idx, phase, faults, sm_commit_index,
                  committed_queue, task_queue, commit_pc, committed_task, files, last_log_index>>
  BY <1>1 DEF raftVars, storeVars, commitVars, diskVars, replayVars, runVars
<1>3. log = <<>>
  BY <1>1 DEF Clean, StoreInv
<1>4. Grown
  BY <1>2, Unmoved DEF IndexInv
<1>5. QueueInOrder' /\ StoreExact' /\ Agree(Upto)'
  BY <1>2, <1>4, StoreKept
<1>6. CommittedChosen'
  BY <1>2, <1>4, <1>5, CommittedKept
<1>7. FilesExact'
  <2>1. Written(chosen', files', receiving', next_object' - 1)
    BY <1>1 DEF Written
  <2>2. \A j \in snapshots' \ {receiving'} : j \in snapshots \ {receiving}
    BY <1>1, IndexesType
  <2>3. ExactFiles(chosen', files')
    BY <1>2 DEF StoreInv, FilesExact
  <2>4. \A j \in snapshots \ {receiving} : j <= Len(chosen) /\ Written(chosen, files, j, 3)
    BY DEF StoreInv, FilesExact
  <2>5. \A f \in files : f.index \in snapshots'
    BY <1>1 DEF StoreInv, FilesExact
  <2>. QED BY <1>1, <1>2, <1>3, <2>1, <2>2, <2>3, <2>4, <2>5 DEF FilesExact
<1>8. BatchesFollow'
  BY <1>1, <1>2 DEF BatchesFollow
<1>9. RequestsPossible(chosen')
  BY <1>2 DEF StoreInv
<1>. QED BY <1>2, <1>5, <1>6, <1>7, <1>8, <1>9 DEF StoreInv
(* The objects that were received make the store, once all are there.      *)
LEMMA SaveObjectStore ==
  ASSUME Clean, IndexInv, IndexInv', StoreInv, SaveObject
  PROVE  StoreInv'
<1> USE StateMachineAssumption
<1>1. /\ phase = "up" /\ receiving # 0
      /\ UNCHANGED <<chosen, last_committed_idx, committed_queue, task_queue,
                      commit_pc, snapshots, committed_task, replayVars, runVars>>
  BY DEF SaveObject
<1>2. UNCHANGED <<chosen, last_committed_idx, phase, faults, committed_queue, task_queue,
                  commit_pc, snapshots, committed_task, last_log_index>>
  BY <1>1 DEF replayVars, runVars
<1>3. /\ log = <<>> /\ Written(chosen, files, receiving, next_object - 1)
      /\ ExactFiles(chosen, files)
      /\ commit_pc = "commit" /\ receiving \in snapshots
      /\ \A f \in files : f.index \in snapshots
      /\ \A j \in snapshots \ {receiving} : j <= Len(chosen) /\ Written(chosen, files, j, 3)
  BY <1>1 DEF StoreInv, FilesExact, IndexInv, SnapshotPositions
<1>4. Len(log) = 0 /\ Len(chosen) \in Nat
  BY <1>3, EmptySeq, UptoChosen
<1>5. PICK i \in 1 .. Len(chosen) : i = receiving /\ i \in 1 .. MaxLog /\ i > Len(log)
  BY <1>1, <1>4 DEF IndexInv, SnapshotPositions, CommitTypes
<1>6. PICK k \in 1 .. 3 : k = next_object
  BY DEF IndexInv, CommitTypes, Objects
<1> DEFINE new == File(i, After(chosen, i), k)
           written == files \cup {new}
<1>7. /\ files' = written
      /\ \/ /\ k < 3 /\ next_object' = k + 1
            /\ UNCHANGED <<receiving, store, sm_commit_index, log, log_start>>
         \/ /\ k = 3 /\ receiving' = 0 /\ next_object' = 1
            /\ store' = Parse(store, {f \in written : f.index = i})
            /\ sm_commit_index' = i
            /\ CompactTo(i)
  <2>1. k < Max(Objects) <=> k < 3
    BY LastObject
  <2>2. ~(k < 3) => k = 3
    OBVIOUS
  <2>3. Reference(i) = After(chosen, i)
    BY DEF Reference, After
  <2>. QED BY <1>5, <1>6, <2>1, <2>2, <2>3 DEF SaveObject
<1>8. new.index = i /\ new.object = k
  BY DEF File
<1>9. ExactFiles(chosen, written)
  BY <1>3, <1>5, <1>8 DEF ExactFiles
<1>10. Written(chosen, written, i, k)
  BY <1>3, <1>5, <1>6, WrittenOneMore
<1>11. \A f \in written : f.index \in snapshots
  <2>1. i \in snapshots
    BY <1>1, <1>5 DEF StoreInv, FilesExact
  <2>. QED BY <1>3, <1>8, <2>1
<1>12. \A j \in snapshots \ {i} : j <= Len(chosen) /\ Written(chosen, written, j, 3)
  BY <1>3, <1>5 DEF Written
<1>13. Grown
  <2>1. CASE log' = log
    BY <1>2, <2>1, Unmoved DEF IndexInv
  <2>2. CASE CompactTo(i)
    <3>1. i <= Len(chosen)
      BY <1>4
    <3>. QED BY <1>2, <1>5, <2>2, <3>1, CompactGrows DEF IndexInv
  <2>. QED BY <1>7, <2>1, <2>2
<1>14. RequestsPossible(chosen') /\ BatchesFollow'
  BY <1>1, <1>2 DEF StoreInv, BatchesFollow
<1> HIDE DEF new, written
<1>15. CASE k < 3 /\ next_object' = k + 1 /\ UNCHANGED <<receiving, store, sm_commit_index, log>>
  <2>1. QueueInOrder' /\ StoreExact' /\ Agree(Upto)'
    BY <1>2, <1>13, <1>15, StoreKept
  <2>2. CommittedChosen'
    BY <1>2, <1>13, <2>1, CommittedKept
  <2>3. FilesExact'
    <3>1. next_object' - 1 = k
      BY <1>15
    <3>2. Written(chosen', files', receiving', next_object' - 1)
      BY <1>2, <1>5, <1>7, <1>10, <1>15, <3>1
    <3>. QED BY <1>2, <1>3, <1>5, <1>7, <1>9, <1>11, <1>12, <1>15, <3>2 DEF FilesExact
  <2>. QED BY <1>2, <1>14, <2>1, <2>2, <2>3 DEF StoreInv
<1>16. CASE /\ k = 3 /\ receiving' = 0 /\ next_object' = 1
            /\ store' = Parse(store, {f \in written : f.index = i})
            /\ sm_commit_index' = i /\ CompactTo(i)
  <2>1. Upto = 0 /\ Upto' = i
    <3>1. Upto \in Nat /\ Upto <= Len(log)
      BY UptoChosen
    <3>. QED BY <1>1, <1>2, <1>4, <1>16, <3>1 DEF Upto
  <2>2. Waiting = {} /\ Len(committed_queue) = 0
    <3>1. Waiting = {}
      BY <1>1, <2>1, WaitingIs
    <3>2. Len(committed_queue) \in Nat /\ Waiting = {committed_queue[m] : m \in 1 .. Len(committed_queue)}
      BY WaitingIs
    <3>3. \A m \in 1 .. Len(committed_queue) : FALSE
      BY <3>1, <3>2
    <3>. QED BY <3>1, <3>2, <3>3
  <2>3. store = EmptyStore
    <3>1. Apply(EmptyStore, chosen, 0, 0, Waiting) = EmptyStore
      BY ApplyUnrolls
    <3>. QED BY <2>1, <3>1 DEF StoreInv, StoreExact
  <2>4. store' = After(chosen, i)
    <3> DEFINE fs == {f \in written : f.index = i}
    <3>1. IsStore(After(chosen, i))
      <4>1. i \in Nat /\ i <= Len(chosen)
        BY <1>4
      <4>. QED BY <4>1, ReferenceIsStore DEF Reference, After
    <3>2. ASSUME NEW f \in fs
          PROVE  f.object \in Objects /\ f = File(i, After(chosen, i), f.object)
      <4>1. f \in written /\ f.index = i
        OBVIOUS
      <4>2. f.object \in Objects
        <5>1. files' = written
          BY <1>7
        <5>. QED BY <4>1, <5>1 DEF IndexInv, StoreTypes
      <4>. QED BY <1>9, <4>1, <4>2 DEF ExactFiles
    <3>3. \A m \in 1 .. 3 : File(i, After(chosen, i), m) \in fs
      <4>1. \A m : File(i, After(chosen, i), m).index = i
        BY DEF File
      <4>. QED BY <1>10, <1>16, <4>1 DEF Written
    <3>4. Parse(EmptyStore, fs) = After(chosen, i)
      <4> HIDE DEF fs
      <4>. QED BY <3>1, <3>2, <3>3, ParseExact
    <3>. QED BY <1>16, <2>3, <3>4
  <2>5. StoreExact'
    <3>1. Waiting' = {}
      BY <1>2, <2>2 DEF Waiting
    <3>. QED BY <1>2, <2>1, <2>4, <3>1 DEF StoreExact, After
  <2>6. QueueInOrder'
    <3>1. Len(committed_queue') = 0
      BY <1>2, <2>2
    <3>. QED BY <3>1 DEF QueueInOrder
  <2>7. CommittedChosen'
    <3>1. log' = SubSeq(chosen, 1, i)
      BY <1>5, <1>16 DEF CompactTo
    <3>2. \A m \in 1 .. i : chosen[m] \in Entries
      <4>1. chosen \in Seq(Entries) /\ \A m \in 1 .. i : m \in 1 .. Len(chosen)
        BY <1>4 DEF IndexInv, RaftTypes
      <4>. QED BY <4>1, ElementOfSeq
    <3>3. i \in Nat /\ i <= Len(chosen)
      BY <1>4
    <3>4. Len(log') = i /\ \A m \in 1 .. i : log'[m] = chosen[m]
      BY <3>1, <3>2, <3>3, SubSeqProperties
    <3>5. AgreeAt(i)'
      BY <1>2, <3>3, <3>4 DEF AgreeAt
    <3>6. Agree(i)'
      BY <3>3, <3>5, AgreeIsPrimed DEF IndexInv
    <3>7. Agree(Upto)'
      BY <2>1, <3>6 DEF Agree
    <3>. QED BY <1>2, <1>13, <3>7, CommittedKept
  <2>8. FilesExact'
    <3>1. \A j \in snapshots : j <= Len(chosen) /\ Written(chosen, written, j, 3)
      <4>1. i <= Len(chosen) /\ Written(chosen, written, i, 3)
        BY <1>4, <1>10, <1>16
      <4>. QED BY <1>12, <4>1
    <3>. QED BY <1>2, <1>3, <1>7, <1>9, <1>11, <1>16, <3>1 DEF FilesExact
  <2>. QED BY <1>2, <1>14, <2>5, <2>6, <2>7, <2>8 DEF StoreInv
<1>. QED BY <1>7, <1>15, <1>16
(* The constructor loads what the chosen entries up to the latest snapshot *)
(* make, and goes on to an index that was committed.                       *)
LEMMA RestartStore ==
  ASSUME Clean, IndexInv, IndexInv', StoreInv, Restart
  PROVE  StoreInv'
<1> USE StateMachineAssumption
<1>1. /\ (commit_pc # "create" /\ receiving = 0) \/ "torn" \in faults
      /\ committed_task # 0 \/ Agree(Len(log)) \/ "unrecorded" \in faults
      /\ snapshots' = Indexes /\ store' = Parse(EmptyStore, ObjectsOf(Latest))
      /\ last_committed_idx' = Latest /\ last_log_index' = LastLogIndex
      /\ batch_start_index' = Latest + 1
      /\ phase' = "replay" /\ loader_pc' = "load" /\ log_queue' = <<>>
      /\ committed_queue' = <<>> /\ task_queue' = <<>>
      /\ commit_pc' = "commit" /\ receiving' = 0
      /\ UNCHANGED <<chosen, log, committed_task, files, faults>>
  BY DEF Restart, Indexes, Latest, raftVars, diskVars
<1>2. commit_pc # "create" /\ receiving = 0 /\ (committed_task # 0 \/ Agree(Len(log)))
  BY <1>1 DEF Clean, StoreInv
<1>3. /\ ExactFiles(chosen, files) /\ \A f \in files : f.index \in snapshots
      /\ \A j \in snapshots \ {receiving} : j <= Len(chosen) /\ Written(chosen, files, j, 3)
  BY <1>2 DEF StoreInv, FilesExact
<1>4. PICK last \in Nat :
         /\ last = Latest /\ (last = 0 \/ last \in Indexes) /\ \A j \in Indexes : j <= last /\ j >= 1
  BY IndexesType
<1>5. \A j \in Indexes : j \in snapshots /\ j # 0
  BY <1>3, IndexesType DEF Indexes
<1>6. last <= Upto /\ last <= Len(chosen)
  <2>1. last <= Upto
    <3>1. CASE phase = "up"
      BY <1>2, <1>4, <1>5, <3>1, UptoChosen DEF IndexInv, SnapshotPositions, Upto
    <3>2. CASE phase = "replay"
      BY <1>4, <3>2 DEF IndexInv, ReplayPositions, Upto
    <3>. QED BY <3>1, <3>2 DEF IndexInv, ReplayTypes
  <2>. QED BY <2>1, UptoChosen
<1>7. Len(committed_queue') = 0 /\ Len(task_queue') = 0 /\ Len(log_queue') = 0 /\ Waiting' = {}
  BY <1>1, EmptySeq DEF Waiting
<1>8. Agree(last) /\ Upto' = last
  <2>1. PICK n \in Nat : n = Upto /\ Agree(n)
    BY UptoChosen
  <2>2. last \in 0 .. n
    BY <1>6, <2>1
  <2>. QED BY <1>1, <1>4, <2>1, <2>2, AgreeBelow DEF IndexInv, Upto
<1>9. store' = After(chosen, last)
  <2>1. CASE last = 0
    <3>1. ObjectsOf(last) = {}
      BY <1>5, <2>1 DEF ObjectsOf, Indexes
    <3>2. After(chosen, 0) = EmptyStore
      BY ApplyUnrolls DEF After
    <3>. QED BY <1>1, <1>4, <2>1, <3>1, <3>2, ParseNothing
  <2>2. CASE last \in Indexes
    <3> DEFINE fs == ObjectsOf(last)
    <3>1. IsStore(After(chosen, last))
      BY <1>6, ReferenceIsStore DEF Reference, After
    <3>2. ASSUME NEW f \in fs
          PROVE  f.object \in Objects /\ f = File(last, After(chosen, last), f.object)
      <4>1. f \in files /\ f.index = last
        BY DEF ObjectsOf
      <4>2. f.object \in Objects
        BY <4>1 DEF IndexInv, StoreTypes
      <4>. QED BY <1>3, <4>1, <4>2 DEF ExactFiles
    <3>3. \A m \in 1 .. 3 : File(last, After(chosen, last), m) \in fs
      <4>1. \A m : File(last, After(chosen, last), m).index = last
        BY DEF File
      <4>2. Written(chosen, files, last, 3)
        BY <1>2, <1>3, <1>5, <2>2
      <4>. QED BY <4>1, <4>2 DEF Written, ObjectsOf
    <3>4. Parse(EmptyStore, fs) = After(chosen, last)
      <4> HIDE DEF fs
      <4>. QED BY <3>1, <3>2, <3>3, ParseExact
    <3>. QED BY <1>1, <1>4, <3>4
  <2>. QED BY <1>4, <2>1, <2>2
<1>10. StoreExact'
  BY <1>1, <1>7, <1>8, <1>9 DEF StoreExact, After
<1>11. CommittedChosen'
  <2>1. Agree(LastLogIndex)
    <3>1. committed_task \in Nat /\ Len(log) \in Nat
      BY UptoChosen DEF IndexInv, CommitTypes
    <3>2. CASE committed_task = 0
      BY <1>2, <3>2 DEF LastLogIndex
    <3>3. CASE committed_task # 0
      <4>1. Agree(committed_task) /\ committed_task <= Len(log)
        BY DEF StoreInv, CommittedChosen, Agree
      <4>2. LastLogIndex = committed_task
        BY <3>1, <3>3, <4>1 DEF LastLogIndex
      <4>. QED BY <4>1, <4>2
    <3>. QED BY <3>2, <3>3
  <2>2. Agree(last_log_index)' /\ Agree(Upto)'
    BY <1>1, <1>8, <2>1 DEF Agree
  <2>3. Agree(committed_task)'
    BY <1>1 DEF StoreInv, CommittedChosen, Agree
  <2>. QED BY <1>1, <1>7, <2>2, <2>3 DEF CommittedChosen
<1>12. QueueInOrder'
  BY <1>7 DEF QueueInOrder
<1>13. FilesExact'
  <2>1. \A j \in snapshots' : j <= Len(chosen) /\ Written(chosen, files, j, 3)
    BY <1>1, <1>2, <1>3, <1>5
  <2>2. \A f \in files : f.index \in snapshots'
    BY <1>1 DEF Indexes
  <2>. QED BY <1>1, <1>3, <2>1, <2>2 DEF FilesExact
<1>14. BatchesFollow'
  <2>1. Pushed' = last + 1 /\ last_committed_idx' = last
    BY <1>1, <1>4 DEF Pushed
  <2>. QED BY <1>1, <1>7, <2>1 DEF BatchesFollow
<1>15. RequestsPossible(chosen')
  BY <1>1 DEF StoreInv
<1>. QED BY <1>1, <1>10, <1>11, <1>12, <1>13, <1>14, <1>15 DEF StoreInv

(* The loader: a batch follows the one before it.                          *)
LEMMA LoaderStore ==
  ASSUME IndexInv, IndexInv', StoreInv, LoadBatch \/ MoveStart \/ CheckReplay \/ StopReplay
  PROVE  StoreInv'
<1> USE StateMachineAssumption
<1>1. /\ phase = "replay"
      /\ UNCHANGED <<raftVars, storeVars, commitVars, snapVars, diskVars, last_log_index, runVars>>
  BY DEF LoadBatch, MoveStart, CheckReplay, StopReplay
<1>2. UNCHANGED <<chosen, log, store, last_committed_idx, phase, faults, sm_commit_index,
                  committed_queue, task_queue, commit_pc, committed_task, files, snapshots,
                  receiving, next_object, last_log_index>>
  BY <1>1 DEF raftVars, storeVars, commitVars, snapVars, diskVars, runVars
<1>3. Grown
  BY <1>2, Unmoved DEF IndexInv
<1>4. QueueInOrder' /\ StoreExact' /\ Agree(Upto)'
  BY <1>2, <1>3, StoreKept
<1>5. CommittedChosen'
  BY <1>2, <1>3, <1>4, CommittedKept
<1>6. FilesExact'
  <2>1. commit_pc # "create"
    BY <1>1 DEF IndexInv, SnapshotPositions
  <2>. QED BY <1>2, <1>3, <2>1, FilesKept
<1>7. BatchesFollow'
  <2>1. CASE CheckReplay \/ StopReplay
    <3>1. UNCHANGED <<batch_start_index, log_queue, loader_pc>>
      BY <2>1 DEF CheckReplay, StopReplay
    <3>. QED BY <1>2, <3>1, BatchesKept
  <2>2. CASE MoveStart
    <3>1. /\ loader_pc = "move" /\ batch_start_index' = NextBatch /\ loader_pc' = "load"
          /\ log_queue' = log_queue
      BY <2>2 DEF MoveStart
    <3>2. Pushed' = Pushed
      BY <3>1 DEF Pushed
    <3>. QED BY <1>2, <3>1, <3>2 DEF StoreInv, BatchesFollow
  <2>3. CASE LoadBatch
    <3> DEFINE b == [start |-> batch_start_index, end |-> NextBatch]
               len == Len(log_queue)
    <3>1. /\ loader_pc = "load" /\ log_queue' = Append(log_queue, b) /\ loader_pc' = "move"
          /\ batch_start_index' = batch_start_index /\ batch_start_index < last_log_index
      BY <2>3 DEF LoadBatch
    <3>2. b \in Batches /\ b.start = batch_start_index /\ b.end = NextBatch
      BY <3>1, NextBatchIs DEF Batches
    <3> HIDE DEF b
    <3>3. log_queue \in Seq(Batches) /\ len \in Nat
      BY LenProperties DEF IndexInv, ReplayTypes
    <3>4. /\ Len(log_queue') = len + 1 /\ log_queue'[len + 1] = b
          /\ \A k \in 1 .. len : log_queue'[k] = log_queue[k]
          /\ log_queue' # <<>>
      <4>1. /\ Len(log_queue') = len + 1 /\ log_queue'[len + 1] = b
            /\ \A k \in 1 .. len : log_queue'[k] = log_queue[k]
        BY <3>1, <3>2, <3>3, AppendProperties
      <4>. QED BY <3>3, <4>1, EmptySeq
    <3>5. Pushed = batch_start_index /\ Pushed' = NextBatch
      BY <1>2, <3>1 DEF Pushed, NextBatch
    <3>6. /\ \A k \in 1 .. len : log_queue[k].start = IF k = 1 THEN last_committed_idx + 1
                                                      ELSE log_queue[k - 1].end
          /\ Pushed = IF log_queue = <<>> THEN last_committed_idx + 1 ELSE log_queue[len].end
      BY <1>1 DEF StoreInv, BatchesFollow
    <3>7. ASSUME NEW k \in 1 .. len + 1
          PROVE  log_queue'[k].start = IF k = 1 THEN last_committed_idx + 1
                                       ELSE log_queue'[k - 1].end
      <4>1. CASE k \in 1 .. len
        <5>1. k # 1 => k - 1 \in 1 .. len
          BY <3>3, <4>1
        <5>. QED BY <3>4, <3>6, <4>1, <5>1
      <4>2. CASE k = len + 1
        <5>1. log_queue'[k].start = Pushed
          BY <3>2, <3>4, <3>5, <4>2
        <5>2. CASE len = 0
          <6>1. log_queue = <<>> /\ k = 1
            BY <3>3, <4>2, <5>2, EmptySeq
          <6>. QED BY <3>6, <5>1, <6>1
        <5>3. CASE len # 0
          <6>1. log_queue # <<>> /\ k # 1 /\ k - 1 = len /\ len \in 1 .. len
            BY <3>3, <4>2, <5>3, EmptySeq
          <6>. QED BY <3>4, <3>6, <5>1, <6>1
        <5>. QED BY <5>2, <5>3
      <4>. QED BY <3>3, <4>1, <4>2
    <3>. QED BY <1>2, <3>2, <3>4, <3>5, <3>7 DEF BatchesFollow
  <2>. QED BY <2>1, <2>2, <2>3
<1>8. RequestsPossible(chosen')
  BY <1>2 DEF StoreInv
<1>. QED BY <1>2, <1>4, <1>5, <1>6, <1>7, <1>8 DEF StoreInv
(* A batch is replayed: it begins where the one before it ended and holds  *)
(* chosen entries.                                                         *)
LEMMA ReplayBatchStore ==
  ASSUME IndexInv, IndexInv', StoreInv, ReplayBatch
  PROVE  StoreInv'
<1> USE StateMachineAssumption
<1> DEFINE b == Head(log_queue)
           len == Len(log_queue)
<1>1. /\ phase = "replay" /\ log_queue # <<>>
      /\ store' = Apply(store, log, b.start - 1, b.end - 1, {})
      /\ last_committed_idx' = b.end - 1
      /\ log_queue' = Tail(log_queue)
      /\ UNCHANGED <<raftVars, commitVars, snapVars, diskVars, last_log_index,
                      batch_start_index, loader_pc, runVars>>
  BY DEF ReplayBatch
<1>2. UNCHANGED <<chosen, log, phase, faults, sm_commit_index, committed_queue, task_queue,
                  commit_pc, committed_task, files, snapshots, receiving, next_object,
                  last_log_index, batch_start_index, loader_pc>>
  BY <1>1 DEF raftVars, commitVars, snapVars, diskVars, runVars
<1>3. /\ log_queue \in Seq(Batches) /\ len \in Nat /\ len >= 1
      /\ b = log_queue[1] /\ b \in Batches
      /\ log_queue' \in Seq(Batches) /\ Len(log_queue') = len - 1
      /\ \A k \in 1 .. Len(log_queue') : log_queue'[k] = log_queue[k + 1]
  BY <1>1, HeadTailProperties, LenProperties, EmptySeq DEF IndexInv, ReplayTypes
<1> HIDE DEF b
<1>4. Grown
  BY <1>2, Unmoved DEF IndexInv
<1>5. /\ committed_queue = <<>> /\ Agree(last_log_index) /\ Upto = last_committed_idx
      /\ commit_pc # "create"
  BY <1>1 DEF StoreInv, CommittedChosen, Upto, IndexInv, SnapshotPositions
<1>6. /\ \A k \in 1 .. len : log_queue[k].start = IF k = 1 THEN last_committed_idx + 1
                                                  ELSE log_queue[k - 1].end
      /\ Pushed = log_queue[len].end
  BY <1>1 DEF StoreInv, BatchesFollow
<1>7. /\ b.start \in 1 .. MaxLog /\ b.end \in 1 .. MaxLog + 1 /\ b.start < b.end
      /\ b.end <= last_log_index + 1 /\ last_log_index \in Nat
      /\ b.start = last_committed_idx + 1
  <2>1. 1 \in 1 .. Len(log_queue)
    BY <1>3
  <2>2. b.start < b.end /\ b.end <= last_log_index + 1
    BY <1>1, <1>3, <2>1 DEF IndexInv, ReplayPositions
  <2>3. b.start \in 1 .. MaxLog /\ b.end \in 1 .. MaxLog + 1 /\ last_log_index \in Nat
    BY <1>3, SMTT(30) DEF Batches, IndexInv, ReplayTypes
  <2>. QED BY <1>3, <1>6, <2>1, <2>2, <2>3
<1>8. PICK s \in Nat : s = Upto /\ s = last_committed_idx
  BY <1>5, UptoChosen
<1>9. b.start - 1 = s
  BY <1>7, <1>8
<1>10. PICK n \in Nat : n = b.end - 1 /\ s <= n /\ n \in 0 .. last_log_index /\ b.end = n + 1
  <2>1. b.end - 1 \in Nat
    BY <1>7
  <2>. QED BY <1>7, <1>8, <2>1
<1>11. Agree(n) /\ AgreeAt(n) /\ n <= Len(chosen)
  <2>1. PICK m \in Nat : m = last_log_index
    BY <1>7
  <2>2. Agree(n)
    BY <1>5, <1>10, <2>1, AgreeBelow DEF IndexInv
  <2>. QED BY <2>2, AgreeIs DEF IndexInv, AgreeAt
<1>12. last_committed_idx' = n /\ Upto' = n /\ Waiting = {} /\ Waiting' = {}
  <2>1. Len(committed_queue) = 0
    BY <1>5, EmptySeq
  <2>2. Waiting = {}
    BY <2>1, WaitingIs
  <2>3. Waiting' = Waiting
    BY <1>2 DEF Waiting
  <2>. QED BY <1>1, <1>2, <1>10, <2>2, <2>3 DEF Upto
<1>13. StoreExact'
  <2>1. store = Apply(EmptyStore, chosen, 0, s, {})
    BY <1>8, <1>12 DEF StoreInv, StoreExact
  <2>2. Apply(store, log, s, n, {}) = Apply(store, chosen, s, n, {})
    <3>1. \A k \in s + 1 .. n : log[k] = chosen[k]
      BY <1>11 DEF AgreeAt
    <3>2. n >= s
      BY <1>10
    <3>. QED BY <3>1, <3>2, ApplySame
  <2>3. Apply(store, chosen, s, n, {}) = Apply(EmptyStore, chosen, 0, n, {})
    <3>1. 0 <= s /\ 0 \in Nat
      OBVIOUS
    <3>2. Apply(Apply(EmptyStore, chosen, 0, s, {}), chosen, s, n, {}) = Apply(EmptyStore, chosen, 0, n, {})
      BY <1>10, <3>1, ApplyParts
    <3>. QED BY <2>1, <3>2
  <2>4. store' = Apply(EmptyStore, chosen, 0, n, {})
    BY <1>1, <1>9, <1>10, <2>2, <2>3
  <2>. QED BY <1>2, <1>12, <2>4 DEF StoreExact
<1>14. CommittedChosen'
  <2>1. Agree(Upto)'
    BY <1>2, <1>11, <1>12 DEF Agree
  <2>. QED BY <1>2, <1>4, <2>1, CommittedKept
<1>15. QueueInOrder'
  <2>1. Len(committed_queue') = 0
    BY <1>2, <1>5, EmptySeq
  <2>. QED BY <2>1 DEF QueueInOrder
<1>16. FilesExact'
  BY <1>2, <1>4, <1>5, FilesKept
<1>17. BatchesFollow'
  <2>1. Pushed' = Pushed
    BY <1>2 DEF Pushed, NextBatch
  <2>2. ASSUME NEW k \in 1 .. Len(log_queue')
        PROVE  log_queue'[k].start = IF k = 1 THEN last_committed_idx' + 1
                                     ELSE log_queue'[k - 1].end
    <3>1. k + 1 \in 1 .. len /\ log_queue'[k] = log_queue[k + 1] /\ k + 1 # 1 /\ (k + 1) - 1 = k
      BY <1>3
    <3>2. log_queue'[k].start = log_queue[k].end
      BY <1>6, <3>1
    <3>3. CASE k = 1
      BY <1>3, <1>10, <1>12, <3>2, <3>3
    <3>4. CASE k # 1
      <4>1. k - 1 \in 1 .. Len(log_queue') /\ (k - 1) + 1 = k
        BY <1>3, <3>4
      <4>2. log_queue'[k - 1] = log_queue[k]
        BY <1>3, <4>1
      <4>. QED BY <3>2, <3>4, <4>2
    <3>. QED BY <3>3, <3>4
  <2>3. CASE len = 1
    <3>1. log_queue' = <<>>
      BY <1>3, <2>3, EmptySeq
    <3>2. Pushed' = n + 1
      BY <1>3, <1>6, <1>10, <2>1, <2>3
    <3>. QED BY <1>12, <2>2, <3>1, <3>2 DEF BatchesFollow
  <2>4. CASE len # 1
    <3>1. /\ Len(log_queue') \in 1 .. Len(log_queue') /\ Len(log_queue') + 1 = len
          /\ log_queue' # <<>>
      BY <1>3, <2>4, EmptySeq
    <3>2. log_queue'[Len(log_queue')] = log_queue[len]
      BY <1>3, <3>1
    <3>. QED BY <1>6, <2>1, <2>2, <3>1, <3>2 DEF BatchesFollow
  <2>. QED BY <2>3, <2>4
<1>18. RequestsPossible(chosen')
  BY <1>2 DEF StoreInv
<1>. QED BY <1>2, <1>13, <1>14, <1>15, <1>16, <1>17, <1>18 DEF StoreInv

LEMMA FinishStore ==
  ASSUME IndexInv, IndexInv', StoreInv, Finish
  PROVE  StoreInv'
<1> USE StateMachineAssumption
<1>1. /\ phase = "replay" /\ phase' = "up" /\ sm_commit_index' = last_committed_idx
      /\ IF Len(log) + 1 <= last_committed_idx THEN CompactTo(last_committed_idx)
         ELSE UNCHANGED <<log, log_start>>
      /\ UNCHANGED <<chosen, store, last_committed_idx, committed_queue, task_queue, commit_pc,
                      snapshots, receiving, next_object, committed_task, files, faults>>
  BY DEF Finish, storeVars, snapVars, diskVars
<1>2. PICK n \in Nat : n = Upto /\ n = last_committed_idx /\ Agree(n) /\ n <= Len(log)
  BY <1>1, UptoChosen DEF Upto
<1>3. log' = log
  BY <1>1, <1>2, UptoChosen
<1>4. Grown
  BY <1>1, <1>3, Unmoved DEF IndexInv
<1>5. Upto' = n /\ Waiting' = Waiting
  BY <1>1, <1>2 DEF Upto, Waiting
<1>6. committed_queue = <<>> /\ commit_pc # "create" /\ receiving = 0
  BY <1>1 DEF StoreInv, CommittedChosen, IndexInv, SnapshotPositions
<1>7. StoreExact'
  BY <1>1, <1>2, <1>5 DEF StoreInv, StoreExact
<1>8. CommittedChosen'
  <2>1. Agree(Upto)'
    BY <1>1, <1>2, <1>3, <1>5 DEF Agree
  <2>2. /\ Agree(committed_task)'
        /\ (\A k \in 1 .. Len(task_queue) : Agree(task_queue[k]))'
    BY <1>1, <1>4, RecordedKept
  <2>. QED BY <1>1, <2>1, <2>2 DEF CommittedChosen
<1>9. QueueInOrder'
  <2>1. Len(committed_queue') = 0
    BY <1>1, <1>6, EmptySeq
  <2>. QED BY <2>1 DEF QueueInOrder
<1>10. FilesExact'
  BY <1>1, <1>4, <1>6, FilesKept
<1>11. BatchesFollow' /\ RequestsPossible(chosen')
  BY <1>1 DEF BatchesFollow, StoreInv
<1>. QED BY <1>1, <1>7, <1>8, <1>9, <1>10, <1>11 DEF StoreInv

LEMMA StoreNext == Clean /\ IndexInv /\ IndexInv' /\ StoreInv /\ [Next]_vars => StoreInv'
<1> SUFFICES ASSUME Clean, IndexInv, IndexInv', StoreInv, [Next]_vars PROVE StoreInv'
  OBVIOUS
<1>1. CASE \E e \in Entries : Choose(e) \/ Replicate(e)
  BY <1>1, RaftStepStore
<1>2. CASE Commit \/ ApplyRequest \/ WaitCommitQueue \/ WriteCommitted
  BY <1>2, CommitStore, ApplyRequestStore, WaitAndWriteStore
<1>3. CASE CreateObject \/ SaveObject \/ \E i \in 1 .. MaxLog : ReceiveSnapshot(i)
  BY <1>3, CreateObjectStore, SaveObjectStore, ReceiveStore
<1>4. CASE Restart \/ LoadBatch \/ MoveStart \/ CheckReplay \/ StopReplay
  BY <1>4, RestartStore, LoaderStore
<1>5. CASE ReplayBatch \/ Finish
  BY <1>5, ReplayBatchStore, FinishStore
<1>6. CASE UNCHANGED vars
  <2>1. UNCHANGED <<chosen, log, store, last_committed_idx, phase, faults, sm_commit_index,
                    committed_queue, task_queue, commit_pc, committed_task, files, snapshots,
                    receiving, next_object, last_log_index, batch_start_index, log_queue, loader_pc>>
    BY <1>6 DEF vars, raftVars, storeVars, commitVars, snapVars, diskVars, replayVars, runVars
  <2>2. Grown
    BY <2>1, Unmoved DEF IndexInv
  <2>3. QueueInOrder' /\ StoreExact' /\ Agree(Upto)'
    BY <2>1, <2>2, StoreKept
  <2>4. CommittedChosen'
    BY <2>1, <2>2, <2>3, CommittedKept
  <2>5. FilesExact'
    <3>1. commit_pc = "create" => committed_queue' = <<>>
      BY <2>1 DEF StoreInv, FilesExact
    <3>. QED BY <2>1, <2>2, <3>1, FilesKept
  <2>6. BatchesFollow' /\ RequestsPossible(chosen')
    BY <2>1, BatchesKept DEF StoreInv
  <2>. QED BY <2>1, <2>3, <2>4, <2>5, <2>6 DEF StoreInv
<1>. QED BY <1>1, <1>2, <1>3, <1>4, <1>5, <1>6 DEF Next

(* The inductive invariant of the store, for behaviours that are killed,   *)
(* replayed and sent snapshots when they are new.                          *)
THEOREM StoreInvHolds == Clean => (Spec => []StoreInv)
<1> SUFFICES ASSUME Clean PROVE Spec => []StoreInv
  OBVIOUS
<1>1. IndexInv /\ IndexInv' /\ StoreInv /\ [Next]_vars => StoreInv'
  BY StoreNext
<1>. QED BY <1>1, StoreInit, PositionsHold, PTL DEF Spec

(* The store is what the cluster's entries make of it, for any requests,   *)
(* batch size, snapshot distance and number of kills: each chosen entry    *)
(* has had its effect once, in an order that makes no difference, through  *)
(* commits, snapshots, kills, replay, received snapshots and what raft     *)
(* commits again.                                                          *)
THEOREM StoreAgreesHolds == Clean => (Spec => []StoreAgrees)
<1>1. IndexInv /\ StoreInv => StoreAgrees
  <2> SUFFICES ASSUME IndexInv, StoreInv PROVE StoreAgrees
    OBVIOUS
  <2>1. Least(Upto, Len(chosen)) = Upto
    BY UptoChosen DEF Least
  <2>. QED BY <2>1 DEF StoreAgrees, StoreInv, StoreExact, Waiting
<1>. QED BY <1>1, StoreInvHolds, PositionsHold, PTL

(* A snapshot that a restart would load holds the effects of exactly the   *)
(* chosen entries up to its index, and all its objects are there.          *)
THEOREM SnapshotsExactHolds == Clean => (Spec => []SnapshotsExact)
<1>1. IndexInv /\ StoreInv => SnapshotsExact
  <2> SUFFICES ASSUME IndexInv, StoreInv, NEW i \in snapshots \ {receiving}
               PROVE  ObjectsOf(i) = {File(i, Reference(i), k) : k \in Objects}
    BY DEF SnapshotsExact
  <2>1. Reference(i) = After(chosen, i) /\ Objects = 1 .. 3
    BY DEF Reference, After, Objects
  <2>2. \A k \in Objects : File(i, Reference(i), k) \in files
    BY <2>1 DEF StoreInv, FilesExact, Written
  <2>3. \A k : File(i, Reference(i), k).index = i
    BY DEF File
  <2>4. ASSUME NEW f \in ObjectsOf(i)
        PROVE  f.object \in Objects /\ f = File(i, Reference(i), f.object)
    <3>1. f \in files /\ f.index = i
      BY DEF ObjectsOf
    <3>. QED BY <2>1, <3>1 DEF IndexInv, StoreTypes, StoreInv, FilesExact, ExactFiles
  <2>. QED BY <2>2, <2>3, <2>4 DEF ObjectsOf
<1>. QED BY <1>1, StoreInvHolds, PositionsHold, PTL
=============================================================================
