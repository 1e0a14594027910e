-------------------------- MODULE KeeperStoreProofs --------------------------
(***************************************************************************)
(* Proofs about the watches of the store, for any scenarios: any requests, *)
(* Multis, paths and clients, and any number of lost connections.          *)
(***************************************************************************)
EXTENDS KeeperStore, DataTreeProofs, IntervalInduction

-----------------------------------------------------------------------------
(* The store is a data tree                                                *)

ScenarioOK == scenario \in Scenarios

LEMMA ScenarioKept ==
  ASSUME ScenarioOK, [StoreNext]_storeVars
  PROVE  ScenarioOK'
<1>1. CASE UNCHANGED storeVars
  BY <1>1 DEF ScenarioOK, storeVars, clientVars, lossVars
<1>2. CASE StoreNewSession \/ StoreMulti \/ StoreMultiEnd
  BY <1>2 DEF ScenarioOK, StoreNewSession, StoreMulti, StoreMultiEnd, clientVars, lossVars
<1>3. ASSUME NEW s \in SessionIds,
             \/ StoreClose(s) \/ Disconnect(s) \/ Reconnect(s) \/ SetWatches(s)
             \/ \E id \in scenario.ids : StoreAuth(s, id)
             \/ \E reqs \in scenario.multis : StoreRefuse(s, reqs)
             \/ \E op \in ReadOps, path \in scenario.paths :
                  Read(s, op, path) \/ ReadWatch(s, op, path)
      PROVE  ScenarioOK'
  BY <1>3 DEF ScenarioOK, StoreClose, Disconnect, Reconnect, SetWatches, StoreAuth,
              StoreRefuse, Read, ReadWatch, lossVars
<1>4. ASSUME NEW s \in SessionIds, NEW req \in scenario.requests,
             StoreRefuse(s, <<req>>) \/ StoreFail(s, req) \/ StoreProcess(s, req)
      PROVE  ScenarioOK'
  BY <1>4 DEF ScenarioOK, StoreRefuse, StoreFail, StoreProcess, lossVars
<1>. QED BY <1>1, <1>2, <1>3, <1>4 DEF StoreNext

(* Watches and connections are beside the tree: what changes the tree is   *)
(* what the requests do to it.                                             *)
LEMMA StoreStepIsTreeStep ==
  ASSUME ScenarioOK, [StoreNext]_storeVars
  PROVE  [Next]_treeVars
<1>0. /\ scenario.requests \subseteq Requests /\ scenario.multis \subseteq Multis
      /\ scenario.ids \subseteq AuthIds
  BY ScenarioAssumption DEF ScenarioOK
<1>1. CASE UNCHANGED storeVars
  BY <1>1 DEF storeVars
<1>2. CASE StoreNewSession
  BY <1>2 DEF StoreNewSession, Next
<1>3. CASE StoreMulti
  BY <1>0, <1>3 DEF StoreMulti, Next, Session
<1>4. CASE StoreMultiEnd
  BY <1>4 DEF StoreMultiEnd, Next
<1>5. ASSUME NEW s \in SessionIds, Disconnect(s) \/ Reconnect(s) \/ SetWatches(s)
      PROVE  UNCHANGED treeVars
  BY <1>5 DEF Disconnect, Reconnect, SetWatches
<1>6. ASSUME NEW s \in SessionIds, NEW op \in ReadOps, NEW path \in scenario.paths,
             Read(s, op, path) \/ ReadWatch(s, op, path)
      PROVE  UNCHANGED treeVars
  BY <1>6 DEF Read, ReadWatch
<1>7. ASSUME NEW s \in SessionIds, StoreClose(s)
      PROVE  Next
  BY <1>7 DEF StoreClose, Next, Session
<1>8. ASSUME NEW s \in SessionIds, NEW id \in scenario.ids, StoreAuth(s, id)
      PROVE  Next
  BY <1>0, <1>8 DEF StoreAuth, Next, Session
<1>9. ASSUME NEW s \in SessionIds, NEW req \in scenario.requests,
             StoreRefuse(s, <<req>>) \/ StoreFail(s, req) \/ StoreProcess(s, req)
      PROVE  Next
  BY <1>0, <1>9 DEF StoreRefuse, StoreFail, StoreProcess, Next, Session
<1>10. ASSUME NEW s \in SessionIds, NEW reqs \in scenario.multis, StoreRefuse(s, reqs)
       PROVE  Next
  BY <1>0, <1>10 DEF StoreRefuse, Next, Session
<1>. QED BY <1>1, <1>2, <1>3, <1>4, <1>5, <1>6, <1>7, <1>8, <1>9, <1>10 DEF StoreNext

(* The store with its watches and its clients implements the data tree:    *)
(* leaving, firing, resubmitting and clearing watches changes nothing of   *)
(* the tree, so all that is proved of the tree holds of the store.         *)
THEOREM StoreImplementsTree == StoreSpec => Spec
<1>1. StoreInit => ScenarioOK /\ Init
  BY DEF StoreInit, ScenarioOK
<1>2. ScenarioOK /\ [StoreNext]_storeVars => ScenarioOK'
  BY ScenarioKept
<1>3. ScenarioOK /\ [StoreNext]_storeVars => [Next]_treeVars
  BY StoreStepIsTreeStep
<1>. QED BY <1>1, <1>2, <1>3, PTL DEF StoreSpec, Spec

-----------------------------------------------------------------------------
(* Maps of watches                                                         *)

LEMMA DropAt ==
  ASSUME NEW f, NEW keys, NEW p
  PROVE  At(Drop(f, keys), p) = IF p \in keys THEN {} ELSE At(f, p)
  BY DEF At, Drop

LEMMA AddWatchAt ==
  ASSUME NEW m, NEW path, NEW s, NEW p
  PROVE  At(AddWatch(m, path, s), p) = At(m, p) \cup (IF p = path THEN {s} ELSE {})
  BY DEF At, AddWatch, Put

LEMMA ForgetAt ==
  ASSUME NEW m, NEW s, NEW paths, NEW p
  PROVE  At(Forget(m, s, paths), p) = IF p \in paths THEN At(m, p) \ {s} ELSE At(m, p)
<1> DEFINE left == [q \in DOMAIN m |-> IF q \in paths THEN m[q] \ {s} ELSE m[q]]
           gone == {q \in paths \cap DOMAIN m : left[q] = {}}
<1>1. Forget(m, s, paths) = Drop(left, gone)
  BY DEF Forget
<1>2. At(left, p) = IF p \in paths THEN At(m, p) \ {s} ELSE At(m, p)
  BY DEF At
<1>3. p \in gone => p \in paths /\ At(left, p) = {}
  BY DEF At
<1> HIDE DEF left, gone
<1>4. At(Drop(left, gone), p) = IF p \in gone THEN {} ELSE At(left, p)
  BY DropAt
<1>. QED BY <1>1, <1>2, <1>3, <1>4

(* The paths whose list watches an event fires.                            *)
Parents(paths) == {ParentPath(path) : path \in paths}

ListsOf(paths, event) ==
  CASE event = "CREATED" -> Parents(paths)
    [] event = "DELETED" -> paths \cup Parents(paths)
    [] OTHER             -> {}

ListEvents == {"CHILD", "DELETED"}
DataEvents == {"CREATED", "CHANGED", "DELETED"}

(* Session s is notified at the path of one of the events.                 *)
Noted(notes, s, path, events) == \E event \in events : <<s, path, event>> \in notes

LEMMA Processed ==
  ASSUME NEW st, NEW paths, NEW event
  PROVE  LET r == ProcessWatches(st, paths, event) IN
         /\ r.w = Drop(st.w, paths)
         /\ r.lw = Drop(st.lw, ListsOf(paths, event))
         /\ st.notes \subseteq r.notes
         /\ \A t \in SessionIds, p \in paths :
              t \in At(st.w, p) => <<t, p, event>> \in r.notes
         /\ \A t \in SessionIds, p \in ListsOf(paths, event) :
              t \in At(st.lw, p) => Noted(r.notes, t, p, ListEvents)
<1> DEFINE r == ProcessWatches(st, paths, event)
           parents == Parents(paths)
           lists   == ListsOf(paths, event)
           Type(p) == IF p \in parents THEN "CHILD" ELSE "DELETED"
           data    == {<<n[1], n[2], event>> :
                         n \in {m \in SessionIds \X paths : m[1] \in At(st.w, m[2])}}
           list    == {<<n[1], n[2], Type(n[2])>> :
                         n \in {m \in SessionIds \X lists : m[1] \in At(st.lw, m[2])}}
<1>1. r = [w |-> Drop(st.w, paths), lw |-> Drop(st.lw, lists),
           notes |-> st.notes \cup data \cup list]
  BY DEF ProcessWatches, Parents, ListsOf
<1>2. ASSUME NEW t \in SessionIds, NEW p \in paths, t \in At(st.w, p)
      PROVE  <<t, p, event>> \in data
  <2>1. <<t, p>> \in {m \in SessionIds \X paths : m[1] \in At(st.w, m[2])}
    BY <1>2
  <2>. QED BY <2>1
<1>3. ASSUME NEW t \in SessionIds, NEW p \in lists, t \in At(st.lw, p)
      PROVE  <<t, p, Type(p)>> \in list
  <2> HIDE DEF lists, parents
  <2>1. <<t, p>> \in {m \in SessionIds \X lists : m[1] \in At(st.lw, m[2])}
    BY <1>3
  <2>. QED BY <2>1
<1>4. \A p : Type(p) \in ListEvents
  BY DEF ListEvents
<1> HIDE DEF data, list, Type, parents
<1>5. r.notes = st.notes \cup data \cup list
  BY <1>1
<1>6. \A t \in SessionIds, p \in lists : t \in At(st.lw, p) => Noted(r.notes, t, p, ListEvents)
  BY <1>3, <1>4, <1>5 DEF Noted
<1>. QED BY <1>1, <1>2, <1>5, <1>6

Kept(left, was) == DOMAIN left \subseteq DOMAIN was /\ \A p \in DOMAIN left : left[p] = was[p]

(* What a client still waits for was not fired.                            *)
LEMMA StillWaits ==
  ASSUME NEW client, NEW s, NEW notes, NEW events, NEW left,
         left = StillWaiting(client, s, notes, events)
  PROVE  /\ \A p \in DOMAIN left : ~Noted(notes, s, p, events)
         /\ Kept(left, client[s])
<1> DEFINE fired == {path \in DOMAIN client[s] :
                       \E event \in events : <<s, path, event>> \in notes}
<1>1. left = [x \in DOMAIN client[s] \ fired |-> client[s][x]]
  BY DEF StillWaiting, Drop
<1>. QED BY <1>1 DEF Noted, Kept

LEMMA Delivered ==
  ASSUME NEW st, Deliver(st)
  PROVE  /\ watches' = st.w /\ list_watches' = st.lw
         /\ DOMAIN client_data' = SessionIds /\ DOMAIN client_list' = SessionIds
         /\ \A s \in SessionIds :
              /\ Kept(client_data'[s], client_data[s])
              /\ s \in connected =>
                   \A p \in DOMAIN client_data'[s] : ~Noted(st.notes, s, p, DataEvents)
              /\ Kept(client_list'[s], client_list[s])
              /\ s \in connected =>
                   \A p \in DOMAIN client_list'[s] : ~Noted(st.notes, s, p, ListEvents)
<1>1. /\ watches' = st.w /\ list_watches' = st.lw
      /\ client_data' = [s \in SessionIds |->
           IF s \notin connected THEN client_data[s]
           ELSE StillWaiting(client_data, s, st.notes, DataEvents)]
      /\ client_list' = [s \in SessionIds |->
           IF s \notin connected THEN client_list[s]
           ELSE StillWaiting(client_list, s, st.notes, ListEvents)]
  BY DEF Deliver, DataEvents, ListEvents
<1>2. ASSUME NEW s \in SessionIds
      PROVE  /\ Kept(client_data'[s], client_data[s])
             /\ s \in connected =>
                  \A p \in DOMAIN client_data'[s] : ~Noted(st.notes, s, p, DataEvents)
  <2>1. client_data'[s] = IF s \notin connected THEN client_data[s]
                          ELSE StillWaiting(client_data, s, st.notes, DataEvents)
    BY <1>1
  <2>2. CASE s \notin connected
    BY <2>1, <2>2 DEF Kept
  <2>3. CASE s \in connected
    <3>1. client_data'[s] = StillWaiting(client_data, s, st.notes, DataEvents)
      BY <2>1, <2>3
    <3>. QED BY <3>1, StillWaits
  <2>. QED BY <2>2, <2>3
<1>3. ASSUME NEW s \in SessionIds
      PROVE  /\ Kept(client_list'[s], client_list[s])
             /\ s \in connected =>
                  \A p \in DOMAIN client_list'[s] : ~Noted(st.notes, s, p, ListEvents)
  <2>1. client_list'[s] = IF s \notin connected THEN client_list[s]
                          ELSE StillWaiting(client_list, s, st.notes, ListEvents)
    BY <1>1
  <2>2. CASE s \notin connected
    BY <2>1, <2>2 DEF Kept
  <2>3. CASE s \in connected
    <3>1. client_list'[s] = StillWaiting(client_list, s, st.notes, ListEvents)
      BY <2>1, <2>3
    <3>. QED BY <3>1, StillWaits
  <2>. QED BY <2>2, <2>3
<1>. QED BY <1>1, <1>2, <1>3

-----------------------------------------------------------------------------
(* SetWatches: every watch of the client is set, one after the other       *)

LEMMA Ordered ==
  ASSUME NEW S, IsFiniteSet(S), NEW f \in Orders(S)
  PROVE  f \in Seq(S) /\ \A x \in S : \E i \in 1 .. Len(f) : f[i] = x
<1> DEFINE n == Cardinality(S)
<1>1. n \in Nat
  BY FS_CardinalityType
<1>2. f \in [1 .. n -> S] /\ \A x \in S : \E i \in 1 .. n : f[i] = x
  BY DEF Orders
<1> HIDE DEF n
<1>3. f \in Seq(S) /\ Len(f) = n
  BY <1>1, <1>2
<1>. QED BY <1>2, <1>3

Steps(s, todo) ==
  CHOOSE g : g = [k \in 0 .. Len(todo) |->
                    IF k = 0 THEN Unfired ELSE SetWatch(s, g[k - 1], todo[k])]

(* There is such a function, so the recursion means what it says.          *)
LEMMA DoneInOrder ==
  ASSUME NEW s, NEW todo, Len(todo) \in Nat
  PROVE  /\ Steps(s, todo)[0] = Unfired
         /\ \A k \in 1 .. Len(todo) :
              Steps(s, todo)[k] = SetWatch(s, Steps(s, todo)[k - 1], todo[k])
<1> DEFINE done == Steps(s, todo)
           N == Len(todo)
           Unrolls(g, n) == g = [k \in 0 .. n |->
                                   IF k = 0 THEN Unfired
                                   ELSE SetWatch(s, g[k - 1], todo[k])]
           T == {n \in 0 .. N : \E g : Unrolls(g, n)}
<1>1. 0 \in T
  <2>1. Unrolls([k \in 0 .. 0 |-> Unfired], 0)
    OBVIOUS
  <2> HIDE DEF Unrolls
  <2>. QED BY <2>1
<1>2. ASSUME NEW n \in 0 .. N - 1, n \in T PROVE n + 1 \in T
  <2>1. PICK g : Unrolls(g, n)
    BY <1>2
  <2> DEFINE h == [k \in 0 .. n + 1 |-> IF k <= n THEN g[k] ELSE SetWatch(s, g[n], todo[n + 1])]
  <2>2. ASSUME NEW k \in 0 .. n + 1
        PROVE  h[k] = IF k = 0 THEN Unfired ELSE SetWatch(s, h[k - 1], todo[k])
    <3>1. CASE k = 0
      BY <2>1, <3>1
    <3>2. CASE k # 0 /\ k <= n
      <4>1. k \in 0 .. n /\ k - 1 \in 0 .. n + 1 /\ k - 1 <= n
        BY <3>2
      <4>2. h[k] = g[k] /\ h[k - 1] = g[k - 1]
        BY <3>2, <4>1
      <4>3. g[k] = SetWatch(s, g[k - 1], todo[k])
        BY <2>1, <3>2, <4>1
      <4>. QED BY <3>2, <4>2, <4>3
    <3>3. CASE k = n + 1
      <4>1. n \in 0 .. n + 1 /\ k - 1 = n /\ k # 0 /\ ~(k <= n) /\ n <= n
        BY <3>3
      <4>2. h[k] = SetWatch(s, g[n], todo[n + 1]) /\ h[n] = g[n]
        BY <3>3, <4>1
      <4>. QED BY <3>3, <4>1, <4>2
    <3>. QED BY <3>1, <3>2, <3>3
  <2>3. Unrolls(h, n + 1)
    BY <2>2
  <2> HIDE DEF Unrolls, h
  <2>. QED BY <2>3
<1>3. N \in T
  <2> HIDE DEF T
  <2>1. \A n \in 0 .. N : n \in T
    BY <1>1, <1>2, UpTo
  <2>. QED BY <2>1
<1>4. Unrolls(done, N)
  <2>1. done = CHOOSE g : Unrolls(g, N)
    BY DEF Steps
  <2>2. \E g : Unrolls(g, N)
    BY <1>3
  <2> HIDE DEF Unrolls
  <2>. QED BY <2>1, <2>2
<1>5. done[0] = Unfired
  <2>1. 0 \in 0 .. N
    OBVIOUS
  <2> HIDE DEF N
  <2>. QED BY <1>4, <2>1
<1>6. ASSUME NEW k \in 1 .. N PROVE done[k] = SetWatch(s, done[k - 1], todo[k])
  <2>1. k \in 0 .. N /\ k # 0
    OBVIOUS
  <2> HIDE DEF N
  <2>. QED BY <1>4, <2>1
<1>. QED BY <1>5, <1>6

(* The watches the client waits for.                                       *)
ExistOf(s) == {path \in DOMAIN client_data[s] : client_data[s][path] = Absent}

WatchesOf(s) ==
  ({"data"} \X (DOMAIN client_data[s] \ ExistOf(s)))
    \cup ({"exist"} \X ExistOf(s)) \cup ({"list"} \X DOMAIN client_list[s])

Finitely(s) == IsFiniteSet(DOMAIN client_data[s]) /\ IsFiniteSet(DOMAIN client_list[s])

(* The watches todo are set one after the other, with done[k] after k.     *)
SetInOrder(s, todo, done) ==
  /\ todo \in Seq(WatchesOf(s))
  /\ done[0] = Unfired
  /\ \A k \in 1 .. Len(todo) : done[k] = SetWatch(s, done[k - 1], todo[k])
  /\ \A path \in ExistOf(s) : \E k \in 1 .. Len(todo) : todo[k] = <<"exist", path>>

LEMMA SetWatchesDone ==
  ASSUME NEW s, SetWatches(s), Finitely(s)
  PROVE  \E todo, done : SetInOrder(s, todo, done) /\ Deliver(done[Len(todo)])
<1> DEFINE A == {"data"} \X (DOMAIN client_data[s] \ ExistOf(s))
           B == {"exist"} \X ExistOf(s)
           C == {"list"} \X DOMAIN client_list[s]
<1>1. PICK d \in Orders(A), e \in Orders(B), l \in Orders(C) :
        Deliver(Steps(s, d \o e \o l)[Len(d \o e \o l)])
  BY DEF SetWatches, ExistOf, Steps
<1>0. d \in Orders(A) /\ e \in Orders(B) /\ l \in Orders(C)
  BY <1>1
<1>2. IsFiniteSet(A) /\ IsFiniteSet(B) /\ IsFiniteSet(C)
  <2>1. IsFiniteSet(ExistOf(s)) /\ IsFiniteSet(DOMAIN client_data[s] \ ExistOf(s))
    <3>1. ExistOf(s) \in SUBSET DOMAIN client_data[s]
      BY DEF ExistOf
    <3>. QED BY <3>1, FS_Subset DEF Finitely
  <2>2. IsFiniteSet({"data"}) /\ IsFiniteSet({"exist"}) /\ IsFiniteSet({"list"})
    BY FS_Singleton
  <2>. QED BY <2>1, <2>2, FS_Product DEF Finitely
<1> DEFINE todo == d \o e \o l
<1>3. WatchesOf(s) = A \cup B \cup C
  BY DEF WatchesOf
<1> HIDE DEF A, C
<1>4. todo \in Seq(WatchesOf(s)) /\ \A x \in B : \E k \in 1 .. Len(todo) : todo[k] = x
  <2> HIDE DEF B
  <2>1. d \in Seq(A) /\ e \in Seq(B) /\ l \in Seq(C)
    BY <1>0, <1>2, Ordered
  <2> DEFINE U == A \cup B \cup C
  <2>2. d \in Seq(U) /\ e \in Seq(U) /\ l \in Seq(U)
    BY <2>1, ElementOfSeq
  <2> HIDE DEF U
  <2>3. todo \in Seq(U) /\ Len(todo) = Len(d) + Len(e) + Len(l)
    BY <2>2
  <2>4. ASSUME NEW x \in B PROVE \E i \in 1 .. Len(todo) : todo[i] = x
    <3>1. PICK j \in 1 .. Len(e) : e[j] = x
      BY <1>0, <1>2, Ordered
    <3>2. Len(d) \in Nat /\ Len(e) \in Nat /\ Len(l) \in Nat
      BY <2>2
    <3>3. Len(d) + j \in 1 .. Len(todo) /\ todo[Len(d) + j] = e[j]
      BY <2>2, <2>3, <3>1, <3>2
    <3>. QED BY <3>1, <3>3
  <2>. QED BY <1>3, <2>3, <2>4 DEF U
<1>5. \A path \in ExistOf(s) : <<"exist", path>> \in B
  OBVIOUS
<1> HIDE DEF todo, B
<1>6. Len(todo) \in Nat
  BY <1>4
<1> DEFINE done == Steps(s, todo)
<1>7. Deliver(done[Len(todo)])
  BY <1>1 DEF todo
<1>8. /\ done[0] = Unfired
      /\ \A k \in 1 .. Len(todo) : done[k] = SetWatch(s, done[k - 1], todo[k])
  BY <1>6, DoneInOrder
<1> HIDE DEF done
<1>9. SetInOrder(s, todo, done)
  BY <1>4, <1>5, <1>8 DEF SetInOrder
<1>. QED BY <1>7, <1>9

-----------------------------------------------------------------------------
(* Sessions, connections and clients                                       *)

ClientOK(s) ==
  /\ Finitely(s)
  /\ DOMAIN client_data[s] \cup DOMAIN client_list[s] \subseteq scenario.paths
  /\ s >= session_id_counter => DOMAIN client_data[s] = {} /\ DOMAIN client_list[s] = {}

StoreTypes ==
  /\ DOMAIN sessions_and_watchers = SessionIds
  /\ DOMAIN client_data = SessionIds /\ DOMAIN client_list = SessionIds
  /\ connected \subseteq sessions /\ resubmitting \subseteq connected
  /\ disconnects \in Nat
  /\ \A s \in SessionIds : ClientOK(s)

LEMMA InitTypes ==
  ASSUME StoreInit
  PROVE  StoreTypes
<1>1. ASSUME NEW s \in SessionIds PROVE ClientOK(s)
  <2>1. DOMAIN client_data[s] = {} /\ DOMAIN client_list[s] = {}
    BY DEF StoreInit
  <2>. QED BY <2>1, FS_EmptySet DEF ClientOK, Finitely
<1>. QED BY <1>1 DEF StoreInit, Init, StoreTypes

(* The clients wait for what they waited for, or for less.                 *)
LEMMA ClientsKept ==
  ASSUME StoreTypes, TreeInv, TreeInv', scenario' = scenario,
         session_id_counter' >= session_id_counter,
         \A s \in SessionIds : /\ Kept(client_data'[s], client_data[s])
                               /\ Kept(client_list'[s], client_list[s])
  PROVE  \A s \in SessionIds : ClientOK(s)'
<1> SUFFICES ASSUME NEW s \in SessionIds PROVE ClientOK(s)'
  OBVIOUS
<1>1. /\ DOMAIN client_data'[s] \subseteq DOMAIN client_data[s]
      /\ DOMAIN client_list'[s] \subseteq DOMAIN client_list[s]
  BY DEF Kept
<1>2. ClientOK(s)
  BY DEF StoreTypes
<1>3. Finitely(s)'
  BY <1>1, <1>2, FS_Subset DEF ClientOK, Finitely
<1>4. s >= session_id_counter' => s >= session_id_counter
  BY DEF TreeInv, SessionsOK, SessionIds
<1>. QED BY <1>1, <1>2, <1>3, <1>4 DEF ClientOK

LEMMA SetWatchesDelivers ==
  ASSUME NEW s \in SessionIds, SetWatches(s), StoreTypes
  PROVE  \E st : Deliver(st)
<1>1. Finitely(s)
  BY DEF StoreTypes, ClientOK
<1>. QED BY <1>1, SetWatchesDone

LEMMA ReadWatchTypes ==
  ASSUME StoreTypes, TreeInv, NEW s \in SessionIds, NEW op, NEW path \in scenario.paths,
         ReadWatch(s, op, path)
  PROVE  StoreTypes'
<1>1. UNCHANGED <<treeVars, connected, resubmitting, lossVars>> /\ s \in sessions
  BY DEF ReadWatch, ReadServed
<1>2. DOMAIN sessions_and_watchers' = SessionIds
  BY DEF ReadWatch, StoreTypes
<1>3. s < session_id_counter
  BY <1>1 DEF TreeInv, SessionsOK, SessionIds
<1>4. ASSUME NEW t \in SessionIds
      PROVE  /\ DOMAIN client_data'[t] \in {DOMAIN client_data[t], DOMAIN client_data[t] \cup {path}}
             /\ DOMAIN client_list'[t] \in {DOMAIN client_list[t], DOMAIN client_list[t] \cup {path}}
             /\ t # s => /\ DOMAIN client_data'[t] = DOMAIN client_data[t]
                         /\ DOMAIN client_list'[t] = DOMAIN client_list[t]
  <2>1. CASE op = "list"
    <3>1. /\ client_data' = client_data
          /\ client_list' = [client_list EXCEPT ![s] = Put(@, path, container[path].children)]
      BY <2>1 DEF ReadWatch
    <3>2. CASE t = s
      BY <3>1, <3>2 DEF StoreTypes, Put
    <3>3. CASE t # s
      BY <3>1, <3>3 DEF StoreTypes
    <3>. QED BY <3>2, <3>3
  <2>2. CASE op # "list"
    <3>1. /\ client_list' = client_list
          /\ client_data' = [client_data EXCEPT ![s] = Put(@, path, Mzxid(path))]
      BY <2>2 DEF ReadWatch
    <3>2. CASE t = s
      BY <3>1, <3>2 DEF StoreTypes, Put
    <3>3. CASE t # s
      BY <3>1, <3>3 DEF StoreTypes
    <3>. QED BY <3>2, <3>3
  <2>. QED BY <2>1, <2>2
<1>5. DOMAIN client_data' = SessionIds /\ DOMAIN client_list' = SessionIds
  BY DEF ReadWatch, StoreTypes
<1>6. ASSUME NEW t \in SessionIds PROVE ClientOK(t)'
  <2>1. ClientOK(t)
    BY DEF StoreTypes
  <2>2. Finitely(t)'
    <3>1. IsFiniteSet(DOMAIN client_data[t]) /\ IsFiniteSet(DOMAIN client_list[t])
      BY <2>1 DEF ClientOK, Finitely
    <3>2. /\ IsFiniteSet(DOMAIN client_data[t] \cup {path})
          /\ IsFiniteSet(DOMAIN client_list[t] \cup {path})
      BY <3>1, FS_AddElement
    <3>. QED BY <1>4, <3>1, <3>2 DEF Finitely
  <2>3. scenario' = scenario /\ session_id_counter' = session_id_counter
    BY <1>1 DEF lossVars, treeVars
  <2>4. t >= session_id_counter => t # s
    BY <1>3 DEF TreeInv, SessionsOK, SessionIds
  <2>. QED BY <1>4, <2>1, <2>2, <2>3, <2>4 DEF ClientOK
<1>. QED BY <1>1, <1>2, <1>5, <1>6 DEF StoreTypes, treeVars, lossVars

(* Actions that leave watches, clients and connections alone.              *)
Quiet == UNCHANGED <<watchVars, connected, resubmitting, lossVars, client_data, client_list>>

(* The requests that only answer, and the steps of a Multi.                *)
QuietStep ==
  /\ Quiet
  /\ UNCHANGED <<session_id_counter, sessions>>
  /\ \/ UNCHANGED treeVars
     \/ multi = Idle /\ UNCHANGED <<container, multi>>
     \/ StoreMulti
     \/ MultiEnd

LEMMA StoreSteps ==
  ASSUME [StoreNext]_storeVars
  PROVE  \/ StoreNewSession
         \/ QuietStep
         \/ \E s \in SessionIds :
              \/ StoreClose(s) \/ Disconnect(s) \/ Reconnect(s) \/ SetWatches(s)
              \/ \E req \in scenario.requests : StoreProcess(s, req)
              \/ \E op \in ReadOps, path \in scenario.paths : ReadWatch(s, op, path)
<1>1. CASE UNCHANGED storeVars
  BY <1>1 DEF QuietStep, Quiet, storeVars, clientVars, treeVars
<1>2. CASE StoreMulti
  <2>1. Quiet
    BY <1>2 DEF StoreMulti, Quiet, clientVars
  <2>2. UNCHANGED <<session_id_counter, sessions>>
    BY <1>2 DEF StoreMulti, MultiStep, MultiFail, MultiUndo, MultiStart
  <2>. QED BY <1>2, <2>1, <2>2 DEF QuietStep
<1>3. CASE StoreMultiEnd
  BY <1>3 DEF StoreMultiEnd, MultiEnd, QuietStep, Quiet
<1>4. ASSUME NEW s \in SessionIds, NEW id \in scenario.ids, StoreAuth(s, id)
      PROVE  QuietStep
  BY <1>4 DEF StoreAuth, Auth, QuietStep, Quiet
<1>5. ASSUME NEW s \in SessionIds, NEW reqs, StoreRefuse(s, reqs)
      PROVE  QuietStep
  BY <1>5 DEF StoreRefuse, Refuse, Serving, QuietStep, Quiet
<1>6. ASSUME NEW s \in SessionIds, NEW req, StoreFail(s, req)
      PROVE  QuietStep
  BY <1>6 DEF StoreFail, Fail, Serving, QuietStep, Quiet
<1>7. ASSUME NEW s \in SessionIds, NEW op, NEW path, Read(s, op, path)
      PROVE  QuietStep
  BY <1>7 DEF Read, ReadServed, QuietStep, Quiet, treeVars
<1>. QED BY <1>1, <1>2, <1>3, <1>4, <1>5, <1>6, <1>7 DEF StoreNext

LEMMA NextTypes ==
  ASSUME StoreTypes, TreeInv, TreeInv', [StoreNext]_storeVars
  PROVE  StoreTypes'
<1>0. session_id_counter \in Nat /\ session_id_counter' \in Nat
  BY DEF TreeInv, SessionsOK
<1>1. ASSUME UNCHANGED <<client_data, client_list>>, scenario' = scenario,
             session_id_counter' >= session_id_counter
      PROVE  /\ \A s \in SessionIds : ClientOK(s)'
             /\ DOMAIN client_data' = SessionIds /\ DOMAIN client_list' = SessionIds
  <2>1. \A s \in SessionIds : Kept(client_data'[s], client_data[s])
                              /\ Kept(client_list'[s], client_list[s])
    BY <1>1 DEF Kept
  <2>. QED BY <1>1, <2>1, ClientsKept DEF StoreTypes
<1>2. ASSUME NEW st, Deliver(st), scenario' = scenario,
             session_id_counter' = session_id_counter
      PROVE  /\ \A s \in SessionIds : ClientOK(s)'
             /\ DOMAIN client_data' = SessionIds /\ DOMAIN client_list' = SessionIds
  <2>1. \A s \in SessionIds : Kept(client_data'[s], client_data[s])
                              /\ Kept(client_list'[s], client_list[s])
    BY <1>2, Delivered
  <2>2. session_id_counter' >= session_id_counter
    BY <1>0, <1>2
  <2>. QED BY <1>2, <2>1, <2>2, ClientsKept, Delivered
<1>3. CASE StoreNewSession
  <2>1. /\ UNCHANGED <<client_data, client_list>> /\ scenario' = scenario
        /\ session_id_counter' = session_id_counter + 1
        /\ sessions' = sessions \cup {session_id_counter}
        /\ connected' = connected \cup {session_id_counter}
        /\ UNCHANGED <<resubmitting, sessions_and_watchers, disconnects>>
    BY <1>3 DEF StoreNewSession, NewSession, lossVars, watchVars
  <2>. QED BY <1>0, <1>1, <2>1 DEF StoreTypes
<1>4. CASE QuietStep
  <2>1. /\ UNCHANGED <<client_data, client_list, session_id_counter, sessions, connected>>
        /\ UNCHANGED <<resubmitting, sessions_and_watchers, disconnects, scenario>>
    BY <1>4 DEF QuietStep, Quiet, lossVars, watchVars
  <2>. QED BY <1>0, <1>1, <2>1 DEF StoreTypes
<1>5. ASSUME NEW s \in SessionIds, StoreClose(s)
      PROVE  StoreTypes'
  <2>1. /\ sessions' = sessions \ {s} /\ connected' = connected \ {s}
        /\ resubmitting' = resubmitting \ {s} /\ session_id_counter' = session_id_counter
        /\ sessions_and_watchers' = [sessions_and_watchers EXCEPT ![s] = {}]
        /\ UNCHANGED <<disconnects, scenario>>
        /\ \E st : Deliver(st)
    BY <1>5 DEF StoreClose, Close, lossVars
  <2>. QED BY <1>2, <2>1 DEF StoreTypes
<1>6. ASSUME NEW s \in SessionIds, Disconnect(s)
      PROVE  StoreTypes'
  <2>1. /\ UNCHANGED <<client_data, client_list, session_id_counter, sessions>>
        /\ UNCHANGED <<sessions_and_watchers, scenario>>
        /\ connected' = connected \ {s} /\ resubmitting' = resubmitting \ {s}
        /\ disconnects' = disconnects + 1
    BY <1>6 DEF Disconnect, treeVars, watchVars
  <2>. QED BY <1>0, <1>1, <2>1 DEF StoreTypes
<1>7. ASSUME NEW s \in SessionIds, Reconnect(s)
      PROVE  StoreTypes'
  <2>1. /\ UNCHANGED <<client_data, client_list, session_id_counter, sessions>>
        /\ UNCHANGED <<sessions_and_watchers, scenario, disconnects>>
        /\ connected' = connected \cup {s} /\ resubmitting' = resubmitting \cup {s}
        /\ s \in sessions
    BY <1>7 DEF Reconnect, treeVars, watchVars, lossVars
  <2>. QED BY <1>0, <1>1, <2>1 DEF StoreTypes
<1>8. ASSUME NEW s \in SessionIds, SetWatches(s)
      PROVE  StoreTypes'
  <2>1. /\ UNCHANGED <<session_id_counter, sessions, connected, disconnects, scenario>>
        /\ resubmitting' = resubmitting \ {s}
        /\ DOMAIN sessions_and_watchers' = DOMAIN sessions_and_watchers
    BY <1>8 DEF SetWatches, treeVars, lossVars
  <2>2. PICK st : Deliver(st)
    BY <1>8, SetWatchesDelivers
  <2>. QED BY <1>2, <2>1, <2>2 DEF StoreTypes
<1>9. ASSUME NEW s \in SessionIds, NEW req, StoreProcess(s, req)
      PROVE  StoreTypes'
  <2>1. /\ UNCHANGED <<session_id_counter, sessions, connected, disconnects, scenario>>
        /\ UNCHANGED <<resubmitting, sessions_and_watchers>>
        /\ \E st : Deliver(st)
    BY <1>9 DEF StoreProcess, Process, FireWatches, lossVars
  <2>. QED BY <1>2, <2>1 DEF StoreTypes
<1>. QED BY <1>3, <1>4, <1>5, <1>6, <1>7, <1>8, <1>9, StoreSteps, ReadWatchTypes

-----------------------------------------------------------------------------
(* Watches of sessions that are there                                      *)

(* Every watch is of one of the sessions ss, recorded with its path.       *)
Placed(m, ss, record) ==
  \A path \in DOMAIN m : \A s \in m[path] : s \in ss /\ path \in record[s]

WatchesPlaced ==
  /\ Placed(watches, sessions, sessions_and_watchers)
  /\ Placed(list_watches, sessions, sessions_and_watchers)

LEMMA PlacedAt ==
  ASSUME NEW m, NEW ss, NEW record
  PROVE  Placed(m, ss, record) <=> \A p : \A t \in At(m, p) : t \in ss /\ p \in record[t]
  BY DEF Placed, At

(* Watches that go, and sessions and records that come.                    *)
LEMMA PlacedLess ==
  ASSUME NEW m, NEW n, NEW ss, NEW record, NEW ss2, NEW record2, Placed(m, ss, record),
         \A p : At(n, p) \subseteq At(m, p),
         ss \subseteq ss2, \A t \in ss : record[t] \subseteq record2[t]
  PROVE  Placed(n, ss2, record2)
<1>1. \A p : \A t \in At(m, p) : t \in ss /\ p \in record[t]
  BY PlacedAt
<1>2. \A p : \A t \in At(n, p) : t \in ss2 /\ p \in record2[t]
  BY <1>1
<1>. QED BY <1>2, PlacedAt

LEMMA PlacedDrop ==
  ASSUME NEW m, NEW keys, NEW ss, NEW record, Placed(m, ss, record)
  PROVE  Placed(Drop(m, keys), ss, record)
  BY DEF Placed, Drop

LEMMA PlacedAdd ==
  ASSUME NEW m, NEW path, NEW s, NEW ss, NEW record, Placed(m, ss, record),
         s \in ss, path \in record[s]
  PROVE  Placed(AddWatch(m, path, s), ss, record)
  BY DEF Placed, AddWatch, Put, At

LEMMA PlacedForget ==
  ASSUME NEW m, NEW s, NEW ss, NEW record, Placed(m, ss, record), NEW record2,
         \A t \in ss \ {s} : record2[t] = record[t]
  PROVE  Placed(Forget(m, s, record[s]), ss \ {s}, record2)
<1>1. \A p : \A t \in At(m, p) : t \in ss /\ p \in record[t]
  BY PlacedAt
<1>2. ASSUME NEW p, NEW t \in At(Forget(m, s, record[s]), p)
      PROVE  t \in ss \ {s} /\ p \in record2[t]
  <2>1. t \in IF p \in record[s] THEN At(m, p) \ {s} ELSE At(m, p)
    BY ForgetAt
  <2>2. t \in At(m, p) /\ t # s
    BY <1>1, <2>1
  <2>. QED BY <1>1, <2>2
<1>3. \A p : \A t \in At(Forget(m, s, record[s]), p) : t \in ss \ {s} /\ p \in record2[t]
  BY <1>2
<1>. QED BY <1>3, PlacedAt

(* Both maps of a state of firing.                                         *)
BothPlaced(st, ss, record) == Placed(st.w, ss, record) /\ Placed(st.lw, ss, record)

LEMMA ProcessedPlaced ==
  ASSUME NEW st, NEW paths, NEW event, NEW ss, NEW record, BothPlaced(st, ss, record)
  PROVE  BothPlaced(ProcessWatches(st, paths, event), ss, record)
  BY Processed, PlacedDrop DEF BothPlaced

LEMMA UnfiredPlaced ==
  ASSUME NEW ss, NEW record, sessions \subseteq ss, WatchesPlaced,
         \A t \in sessions : sessions_and_watchers[t] \subseteq record[t]
  PROVE  BothPlaced(Unfired, ss, record)
<1>1. Unfired.w = watches /\ Unfired.lw = list_watches
  BY DEF Unfired
<1>2. Placed(watches, ss, record) /\ Placed(list_watches, ss, record)
  BY PlacedLess DEF WatchesPlaced
<1>. QED BY <1>1, <1>2 DEF BothPlaced

(* A state of firing is its three parts.                                   *)
IsState(st) == st = [w |-> st.w, lw |-> st.lw, notes |-> st.notes]

(* The watch is registered, and fired at once or left.                     *)
Registered(s, st, kind, path, reg) ==
  /\ IsState(reg) /\ reg.notes = st.notes
  /\ reg.w  = IF kind = "list" THEN st.w ELSE AddWatch(st.w, path, s)
  /\ reg.lw = IF kind = "list" THEN AddWatch(st.lw, path, s) ELSE st.lw

FiredOrLeft(kind, path, reg, r) ==
  \/ r = reg /\ (kind = "exist" => ~Exists(path))
  \/ \E event : /\ r = ProcessWatches(reg, {path}, event)
                /\ event \in DataEvents \/ Exists(path)
                /\ kind = "exist" => event = "CREATED"

LEMMA SetWatchIs ==
  ASSUME NEW s, NEW st, IsState(st), NEW kind \in {"data", "exist", "list"}, NEW path
  PROVE  \E reg : /\ Registered(s, st, kind, path, reg)
                  /\ FiredOrLeft(kind, path, reg, SetWatch(s, st, <<kind, path>>))
<1> DEFINE r == SetWatch(s, st, <<kind, path>>)
<1>1. CASE kind = "data"
  <2> DEFINE reg == [st EXCEPT !.w = AddWatch(@, path, s)]
  <2>1. Registered(s, st, kind, path, reg)
    BY <1>1 DEF Registered, IsState
  <2>2. r = SetDataWatch(s, st, path)
    BY <1>1 DEF SetWatch
  <2>3. r = IF ~Exists(path) THEN ProcessWatches(reg, {path}, "DELETED")
            ELSE IF container[path].mzxid > seen[s] THEN ProcessWatches(reg, {path}, "CHANGED")
            ELSE reg
    BY <2>2 DEF SetDataWatch
  <2> HIDE DEF reg, r
  <2>4. FiredOrLeft(kind, path, reg, r)
    BY <1>1, <2>3 DEF FiredOrLeft, DataEvents
  <2>. QED BY <2>1, <2>4 DEF r
<1>2. CASE kind = "exist"
  <2> DEFINE reg == [st EXCEPT !.w = AddWatch(@, path, s)]
  <2>1. Registered(s, st, kind, path, reg)
    BY <1>2 DEF Registered, IsState
  <2>2. r = SetExistWatch(s, st, path)
    BY <1>2 DEF SetWatch
  <2>3. r = IF Exists(path) THEN ProcessWatches(reg, {path}, "CREATED") ELSE reg
    BY <2>2 DEF SetExistWatch
  <2> HIDE DEF reg, r
  <2>4. FiredOrLeft(kind, path, reg, r)
    BY <1>2, <2>3 DEF FiredOrLeft, DataEvents
  <2>. QED BY <2>1, <2>4 DEF r
<1>3. CASE kind = "list"
  <2> DEFINE reg == [st EXCEPT !.lw = AddWatch(@, path, s)]
  <2>1. Registered(s, st, kind, path, reg)
    BY <1>3 DEF Registered, IsState
  <2>2. r = SetListWatch(s, st, path)
    BY <1>3 DEF SetWatch
  <2>3. r = IF ~Exists(path) THEN ProcessWatches(reg, {path}, "DELETED")
            ELSE IF container[path].pzxid > seen[s] THEN ProcessWatches(reg, {path}, "CHILD")
            ELSE reg
    BY <2>2 DEF SetListWatch
  <2> HIDE DEF reg, r
  <2>4. FiredOrLeft(kind, path, reg, r)
    BY <1>3, <2>3 DEF FiredOrLeft, DataEvents
  <2>. QED BY <2>1, <2>4 DEF r
<1>. QED BY <1>1, <1>2, <1>3

LEMMA FiredState ==
  /\ IsState(Unfired)
  /\ \A st, paths, event : IsState(ProcessWatches(st, paths, event))
  BY DEF IsState, Unfired, ProcessWatches

LEMMA SetWatchState ==
  ASSUME NEW s, NEW st, IsState(st), NEW kind \in {"data", "exist", "list"}, NEW path
  PROVE  IsState(SetWatch(s, st, <<kind, path>>))
<1>1. PICK reg : /\ Registered(s, st, kind, path, reg)
                 /\ FiredOrLeft(kind, path, reg, SetWatch(s, st, <<kind, path>>))
  BY SetWatchIs
<1>. QED BY <1>1, FiredState DEF Registered, FiredOrLeft

LEMMA SetWatchPlaced ==
  ASSUME NEW s, NEW st, IsState(st), NEW kind \in {"data", "exist", "list"}, NEW path,
         NEW ss, NEW record, BothPlaced(st, ss, record), s \in ss, path \in record[s]
  PROVE  BothPlaced(SetWatch(s, st, <<kind, path>>), ss, record)
<1>1. PICK reg : /\ Registered(s, st, kind, path, reg)
                 /\ FiredOrLeft(kind, path, reg, SetWatch(s, st, <<kind, path>>))
  BY SetWatchIs
<1>2. BothPlaced(reg, ss, record)
  BY <1>1, PlacedAdd DEF Registered, BothPlaced
<1>. QED BY <1>1, <1>2, ProcessedPlaced DEF FiredOrLeft

LEMMA SetWatchesPlaced ==
  ASSUME WatchesPlaced, StoreTypes, TreeInv, NEW s \in SessionIds, SetWatches(s)
  PROVE  WatchesPlaced'
<1>1. Finitely(s) /\ DOMAIN sessions_and_watchers = SessionIds
  BY DEF StoreTypes, ClientOK
<1>a. PICK todo, done : SetInOrder(s, todo, done) /\ Deliver(done[Len(todo)])
  BY <1>1, SetWatchesDone
<1>2. /\ todo \in Seq(WatchesOf(s)) /\ done[0] = Unfired
      /\ \A k \in 1 .. Len(todo) : done[k] = SetWatch(s, done[k - 1], todo[k])
      /\ Deliver(done[Len(todo)])
  BY <1>a DEF SetInOrder
<1> DEFINE record == sessions_and_watchers'
           paths  == DOMAIN client_data[s] \cup DOMAIN client_list[s]
           N      == Len(todo)
           T      == {k \in 0 .. N : IsState(done[k]) /\ BothPlaced(done[k], sessions, record)}
<1>3. s \in sessions /\ sessions' = sessions /\ N \in Nat
  BY <1>2 DEF SetWatches, treeVars
<1>4. /\ \A t \in SessionIds : sessions_and_watchers[t] \subseteq record[t]
      /\ paths \subseteq record[s]
  BY <1>1 DEF SetWatches
<1>5. sessions \subseteq SessionIds
  BY SessionsAreIds DEF TreeInv
<1> HIDE DEF record
<1>6. 0 \in T
  <2>1. BothPlaced(Unfired, sessions, record)
    BY <1>4, <1>5, UnfiredPlaced
  <2>. QED BY <1>2, <1>3, <2>1, FiredState
<1>7. ASSUME NEW k \in 0 .. N - 1, k \in T PROVE k + 1 \in T
  <2>1. k + 1 \in 1 .. N /\ (k + 1) - 1 = k /\ k + 1 \in 0 .. N
    BY <1>3
  <2>2. todo[k + 1] \in WatchesOf(s) /\ done[k + 1] = SetWatch(s, done[k], todo[k + 1])
    BY <1>2, <2>1, ElementOfSeq
  <2>3. PICK kind \in {"data", "exist", "list"}, path \in paths : todo[k + 1] = <<kind, path>>
    BY <2>2 DEF WatchesOf, ExistOf
  <2>4. IsState(done[k]) /\ BothPlaced(done[k], sessions, record)
    BY <1>7
  <2>5. path \in record[s]
    BY <1>4, <2>3
  <2>6. IsState(done[k + 1]) /\ BothPlaced(done[k + 1], sessions, record)
    BY <1>3, <2>2, <2>3, <2>4, <2>5, SetWatchState, SetWatchPlaced
  <2>. QED BY <2>1, <2>6
<1>8. N \in T
  <2> HIDE DEF T
  <2>1. \A k \in 0 .. N : k \in T
    BY <1>3, <1>6, <1>7, UpTo
  <2>. QED BY <1>3, <2>1
<1>9. BothPlaced(done[N], sessions, record) /\ Deliver(done[N])
  BY <1>2, <1>8
<1>. QED BY <1>3, <1>9, Delivered DEF WatchesPlaced, BothPlaced, record

LEMMA NextPlaced ==
  ASSUME WatchesPlaced, StoreTypes, TreeInv, [StoreNext]_storeVars
  PROVE  WatchesPlaced'
<1>0. sessions \subseteq SessionIds
  BY SessionsAreIds DEF TreeInv
<1>1. ASSUME UNCHANGED watchVars, sessions \subseteq sessions'
      PROVE  WatchesPlaced'
  <2>1. UNCHANGED <<watches, list_watches, sessions_and_watchers>>
    BY <1>1 DEF watchVars
  <2>. QED BY <1>1, <2>1 DEF WatchesPlaced, Placed
<1>2. CASE StoreNewSession
  BY <1>1, <1>2 DEF StoreNewSession, NewSession
<1>3. CASE QuietStep
  BY <1>1, <1>3 DEF QuietStep, Quiet
<1>4. ASSUME NEW s \in SessionIds, StoreClose(s)
      PROVE  WatchesPlaced'
  <2> DEFINE fired == ProcessWatches(Unfired, ephemerals[s], "DELETED")
             last  == ClearDeadWatches(fired, s)
             record == sessions_and_watchers
  <2>1. /\ Deliver(last) /\ sessions' = sessions \ {s}
        /\ sessions_and_watchers' = [sessions_and_watchers EXCEPT ![s] = {}]
    BY <1>4 DEF StoreClose, Close
  <2>2. BothPlaced(fired, sessions, record)
    BY UnfiredPlaced, ProcessedPlaced
  <2>3. IsState(fired)
    BY FiredState
  <2> HIDE DEF fired
  <2>4. last.w = Forget(fired.w, s, record[s]) /\ last.lw = Forget(fired.lw, s, record[s])
    BY <2>3 DEF ClearDeadWatches, IsState
  <2>5. \A t \in sessions \ {s} : sessions_and_watchers'[t] = record[t]
    BY <1>0, <2>1 DEF StoreTypes
  <2> HIDE DEF last
  <2>6. BothPlaced(last, sessions \ {s}, sessions_and_watchers')
    <3> DEFINE record2 == sessions_and_watchers'
    <3>1. Placed(fired.w, sessions, record) /\ Placed(fired.lw, sessions, record)
      BY <2>2 DEF BothPlaced
    <3>2. \A t \in sessions \ {s} : record2[t] = record[t]
      BY <2>5
    <3> HIDE DEF record2
    <3>3. /\ Placed(Forget(fired.w, s, record[s]), sessions \ {s}, record2)
          /\ Placed(Forget(fired.lw, s, record[s]), sessions \ {s}, record2)
      BY <3>1, <3>2, PlacedForget
    <3>. QED BY <2>4, <3>3 DEF BothPlaced, record2
  <2>. QED BY <2>1, <2>6, Delivered DEF WatchesPlaced, BothPlaced
<1>5. ASSUME NEW s \in SessionIds, Disconnect(s) \/ Reconnect(s)
      PROVE  WatchesPlaced'
  BY <1>1, <1>5 DEF Disconnect, Reconnect, treeVars
<1>6. ASSUME NEW s \in SessionIds, NEW req, StoreProcess(s, req)
      PROVE  WatchesPlaced'
  <2>1. sessions' = sessions /\ sessions_and_watchers' = sessions_and_watchers
    BY <1>6 DEF StoreProcess, Process
  <2>2. PICK st : /\ Deliver(st)
                  /\ st = Unfired \/ \E event : st = ProcessWatches(Unfired, {req.path}, event)
    BY <1>6 DEF StoreProcess, FireWatches
  <2>3. BothPlaced(Unfired, sessions, sessions_and_watchers)
    BY UnfiredPlaced
  <2>4. BothPlaced(st, sessions, sessions_and_watchers)
    BY <2>2, <2>3, ProcessedPlaced
  <2>. QED BY <2>1, <2>2, <2>4, Delivered DEF WatchesPlaced, BothPlaced
<1>7. ASSUME NEW s \in SessionIds, NEW op, NEW path, ReadWatch(s, op, path)
      PROVE  WatchesPlaced'
  <2> DEFINE record == sessions_and_watchers'
  <2>1. /\ sessions' = sessions /\ s \in sessions
        /\ record = [sessions_and_watchers EXCEPT ![s] = @ \cup {path}]
        /\ watches' \in {watches, AddWatch(watches, path, s)}
        /\ list_watches' \in {list_watches, AddWatch(list_watches, path, s)}
    BY <1>7 DEF ReadWatch, ReadServed, treeVars
  <2>2. path \in record[s] /\ \A t \in sessions : sessions_and_watchers[t] \subseteq record[t]
    BY <1>0, <2>1 DEF StoreTypes
  <2> HIDE DEF record
  <2>3. Placed(watches, sessions, record) /\ Placed(list_watches, sessions, record)
    BY <2>2 DEF WatchesPlaced, Placed
  <2>5. /\ Placed(AddWatch(watches, path, s), sessions, record)
        /\ Placed(AddWatch(list_watches, path, s), sessions, record)
    BY <2>1, <2>2, <2>3, PlacedAdd
  <2>4. Placed(watches', sessions, record) /\ Placed(list_watches', sessions, record)
    BY <2>1, <2>3, <2>5
  <2>. QED BY <2>1, <2>4 DEF WatchesPlaced, record
<1>. QED BY <1>2, <1>3, <1>4, <1>5, <1>6, <1>7, StoreSteps, SetWatchesPlaced

(* What holds of the store whatever the clients do.                        *)
StoreInv == TreeInv /\ ScenarioOK /\ StoreTypes /\ WatchesPlaced

LEMMA StoreInvInit ==
  ASSUME StoreInit
  PROVE  StoreInv
<1>1. TreeInv /\ ScenarioOK /\ StoreTypes
  BY InitTree, InitTypes DEF StoreInit, ScenarioOK
<1>2. WatchesPlaced
  BY DEF StoreInit, WatchesPlaced, Placed
<1>. QED BY <1>1, <1>2 DEF StoreInv

LEMMA StoreInvNext ==
  ASSUME StoreInv, [StoreNext]_storeVars
  PROVE  StoreInv'
<1>1. TreeInv'
  BY NextTree, StoreStepIsTreeStep DEF StoreInv
<1>. QED BY <1>1, ScenarioKept, NextTypes, NextPlaced DEF StoreInv

(* The inductive invariant of the store holds in every state: the tree is  *)
(* good, the maps of server and clients have their types, and every watch  *)
(* belongs to a live session that is recorded with the watch's path, which *)
(* is what clearDeadWatches relies on when the session ends.               *)
THEOREM StoreInvAlways == StoreSpec => []StoreInv
<1>1. StoreInit => StoreInv
  BY StoreInvInit
<1>2. StoreInv /\ [StoreNext]_storeVars => StoreInv'
  BY StoreInvNext
<1>. QED BY <1>1, <1>2, PTL DEF StoreSpec

(* clearDeadWatches finds all watches of a session that is closed, data    *)
(* and list watches, those left by reads and those set anew by SetWatches: *)
(* no watch of a closed session stays behind, to be fired for a session    *)
(* that no longer exists.                                                  *)
THEOREM NoDeadWatchesHolds == StoreSpec => []NoDeadWatches
<1>1. ASSUME StoreInv PROVE NoDeadWatches
  BY <1>1 DEF StoreInv, WatchesPlaced, Placed, NoDeadWatches, At
<1>. QED BY <1>1, StoreInvAlways, PTL

-----------------------------------------------------------------------------
(* The watches of clients that keep their connections                      *)

(* Every watch that goes is notified, to the kind of watch it was.         *)
Tells(st, ss) ==
  \A t \in ss : \A p :
    /\ t \in At(watches, p) => t \in At(st.w, p) \/ Noted(st.notes, t, p, DataEvents)
    /\ t \in At(list_watches, p) => t \in At(st.lw, p) \/ Noted(st.notes, t, p, ListEvents)

LEMMA UnfiredTells == Tells(Unfired, SessionIds)
  BY DEF Tells, Unfired

LEMMA ProcessedTells ==
  ASSUME NEW paths, NEW event \in DataEvents
  PROVE  Tells(ProcessWatches(Unfired, paths, event), SessionIds)
<1> DEFINE st == ProcessWatches(Unfired, paths, event)
           lists == ListsOf(paths, event)
<1>1. Unfired.w = watches /\ Unfired.lw = list_watches
  BY DEF Unfired
<1>2. /\ st.w = Drop(watches, paths) /\ st.lw = Drop(list_watches, lists)
      /\ \A t \in SessionIds, p \in paths : t \in At(watches, p) => <<t, p, event>> \in st.notes
      /\ \A t \in SessionIds, p \in lists :
           t \in At(list_watches, p) => Noted(st.notes, t, p, ListEvents)
  BY <1>1, Processed
<1> HIDE DEF st, lists
<1> SUFFICES ASSUME NEW t \in SessionIds, NEW p
             PROVE  /\ t \in At(watches, p) =>
                         t \in At(st.w, p) \/ Noted(st.notes, t, p, DataEvents)
                    /\ t \in At(list_watches, p) =>
                         t \in At(st.lw, p) \/ Noted(st.notes, t, p, ListEvents)
  BY DEF Tells, st
<1>3. /\ At(st.w, p) = IF p \in paths THEN {} ELSE At(watches, p)
      /\ At(st.lw, p) = IF p \in lists THEN {} ELSE At(list_watches, p)
  BY <1>2, DropAt
<1>. QED BY <1>2, <1>3 DEF Noted

LEMMA ClearedTells ==
  ASSUME NEW st, IsState(st), Tells(st, SessionIds), NEW s
  PROVE  Tells(ClearDeadWatches(st, s), SessionIds \ {s})
<1> DEFINE last == ClearDeadWatches(st, s)
           record == sessions_and_watchers[s]
<1>1. /\ last.w = Forget(st.w, s, record) /\ last.lw = Forget(st.lw, s, record)
      /\ last.notes = st.notes
  BY DEF ClearDeadWatches, IsState
<1> HIDE DEF last
<1>2. ASSUME NEW t \in SessionIds \ {s}, NEW p
      PROVE  /\ t \in At(last.w, p) <=> t \in At(st.w, p)
             /\ t \in At(last.lw, p) <=> t \in At(st.lw, p)
  BY <1>1, ForgetAt
<1>. QED BY <1>1, <1>2 DEF Tells, last

(* The server knows every watch that s waits for.                          *)
WaitedFor(s) ==
  /\ \A path \in DOMAIN client_data[s] : s \in At(watches, path)
  /\ \A path \in DOMAIN client_list[s] : s \in At(list_watches, path)

LEMMA DeliveredWaited ==
  ASSUME NEW st, NEW ss, Deliver(st), Tells(st, ss), NEW s \in SessionIds \cap connected,
         s \in ss, WaitedFor(s)
  PROVE  WaitedFor(s)'
<1>1. /\ watches' = st.w /\ list_watches' = st.lw
      /\ DOMAIN client_data'[s] \subseteq DOMAIN client_data[s]
      /\ DOMAIN client_list'[s] \subseteq DOMAIN client_list[s]
      /\ \A p \in DOMAIN client_data'[s] : ~Noted(st.notes, s, p, DataEvents)
      /\ \A p \in DOMAIN client_list'[s] : ~Noted(st.notes, s, p, ListEvents)
  BY Delivered DEF Kept
<1>2. \A p \in DOMAIN client_data'[s] : s \in At(st.w, p)
  BY <1>1 DEF WaitedFor, Tells
<1>3. \A p \in DOMAIN client_list'[s] : s \in At(st.lw, p)
  BY <1>1 DEF WaitedFor, Tells
<1>. QED BY <1>1, <1>2, <1>3 DEF WaitedFor

SteadyOK ==
  Steady => /\ multi = Idle /\ connected = sessions /\ resubmitting = {}
            /\ \A s \in sessions : WaitedFor(s)

(* What the requests of a session fire.                                    *)
Fired(req) == IF EventOf(req) # "NONE" /\ HasWatchers(req.path)
                THEN ProcessWatches(Unfired, {req.path}, EventOf(req))
                ELSE Unfired

LEMMA FiredTells ==
  ASSUME NEW req
  PROVE  Tells(Fired(req), SessionIds)
<1>1. EventOf(req) # "NONE" => EventOf(req) \in DataEvents
  BY DEF EventOf, DataEvents
<1>. QED BY <1>1, UnfiredTells, ProcessedTells DEF Fired

LEMMA SteadyNext ==
  ASSUME SteadyOK, StoreInv, [StoreNext]_storeVars
  PROVE  SteadyOK'
<1> SUFFICES ASSUME Steady'
             PROVE  /\ multi' = Idle /\ connected' = sessions' /\ resubmitting' = {}
                    /\ \A s \in sessions' : WaitedFor(s)'
  BY DEF SteadyOK
<1>0. sessions \subseteq SessionIds /\ disconnects \in Nat /\ StoreTypes
  BY SessionsAreIds DEF TreeInv, StoreInv, StoreTypes
<1>1. scenario' = scenario => Steady
  BY DEF Steady
<1>2. ASSUME scenario' = scenario
      PROVE  /\ scenario.multis = {} /\ scenario.losses = 0
             /\ multi = Idle /\ connected = sessions /\ resubmitting = {}
             /\ \A s \in sessions : WaitedFor(s)
  BY <1>1, <1>2 DEF SteadyOK, Steady
<1>3. CASE StoreNewSession
  <2>1. /\ UNCHANGED <<scenario, watches, list_watches, client_data, client_list, multi>>
        /\ UNCHANGED resubmitting
        /\ connected' = connected \cup {session_id_counter}
        /\ sessions' = sessions \cup {session_id_counter}
        /\ session_id_counter \in SessionIds
    BY <1>3 DEF StoreNewSession, NewSession, watchVars, lossVars, SessionIds, StoreInv,
                TreeInv, SessionsOK
  <2>2. WaitedFor(session_id_counter)
    <3>1. /\ DOMAIN client_data[session_id_counter] = {}
          /\ DOMAIN client_list[session_id_counter] = {}
      BY <1>0, <2>1 DEF StoreTypes, ClientOK, SessionIds
    <3>. QED BY <3>1 DEF WaitedFor
  <2>3. \A s \in sessions' : WaitedFor(s)
    BY <1>2, <2>1, <2>2
  <2>. QED BY <1>2, <2>1, <2>3 DEF WaitedFor
<1>4. CASE QuietStep
  <2>1. /\ UNCHANGED <<scenario, watches, list_watches, client_data, client_list>>
        /\ UNCHANGED <<resubmitting, connected, sessions>>
    BY <1>4 DEF QuietStep, Quiet, watchVars, lossVars
  <2>2. multi' = multi
    <3>1. multi = Idle /\ scenario.multis = {}
      BY <1>2, <2>1
    <3>2. ~StoreMulti /\ ~MultiEnd
      BY <3>1 DEF StoreMulti, MultiStep, MultiFail, MultiUndo, MultiEnd, MultiDone,
                  MultiRunning, Idle
    <3>. QED BY <1>4, <3>2 DEF QuietStep, treeVars
  <2>. QED BY <1>2, <2>1, <2>2 DEF WaitedFor
<1>5. ASSUME NEW s \in SessionIds, StoreClose(s)
      PROVE  /\ multi' = Idle /\ connected' = sessions' /\ resubmitting' = {}
             /\ \A t \in sessions' : WaitedFor(t)'
  <2> DEFINE fired == ProcessWatches(Unfired, ephemerals[s], "DELETED")
             last  == ClearDeadWatches(fired, s)
  <2>1. /\ Deliver(last) /\ sessions' = sessions \ {s} /\ connected' = connected \ {s}
        /\ resubmitting' = resubmitting \ {s} /\ UNCHANGED <<multi, scenario>>
    BY <1>5 DEF StoreClose, Close, lossVars
  <2>2. Tells(last, SessionIds \ {s})
    <3>1. IsState(fired)
      BY FiredState
    <3>2. Tells(fired, SessionIds)
      BY ProcessedTells DEF DataEvents
    <3> HIDE DEF fired
    <3>. QED BY <3>1, <3>2, ClearedTells
  <2> HIDE DEF last
  <2>3. ASSUME NEW t \in sessions' PROVE WaitedFor(t)'
    <3>1. t \in sessions /\ t \in SessionIds \cap connected /\ t \in SessionIds \ {s}
          /\ WaitedFor(t)
      BY <1>0, <1>2, <2>1
    <3>. QED BY <2>1, <2>2, <3>1, DeliveredWaited
  <2>. QED BY <1>2, <2>1, <2>3
<1>6. ASSUME NEW s \in SessionIds, Disconnect(s) \/ Reconnect(s) \/ SetWatches(s)
      PROVE  FALSE
  <2>1. scenario' = scenario
    BY <1>6 DEF Disconnect, Reconnect, SetWatches, lossVars
  <2>. QED BY <1>0, <1>2, <1>6, <2>1 DEF Disconnect, Reconnect, SetWatches
<1>7. ASSUME NEW s \in SessionIds, NEW req, StoreProcess(s, req)
      PROVE  /\ multi' = Idle /\ connected' = sessions' /\ resubmitting' = {}
             /\ \A t \in sessions' : WaitedFor(t)'
  <2>1. /\ UNCHANGED <<sessions, multi, scenario, connected, resubmitting>>
        /\ Deliver(Fired(req))
    BY <1>7 DEF StoreProcess, Process, lossVars, FireWatches, Fired
  <2>2. ASSUME NEW t \in sessions' PROVE WaitedFor(t)'
    <3>1. t \in SessionIds \cap connected /\ t \in SessionIds /\ WaitedFor(t)
      BY <1>0, <1>2, <2>1
    <3>. QED BY <2>1, <3>1, FiredTells, DeliveredWaited
  <2>. QED BY <1>2, <2>1, <2>2
<1>8. ASSUME NEW s \in SessionIds, NEW op, NEW path, ReadWatch(s, op, path)
      PROVE  /\ multi' = Idle /\ connected' = sessions' /\ resubmitting' = {}
             /\ \A t \in sessions' : WaitedFor(t)'
  <2>1. UNCHANGED <<sessions, multi, scenario, connected, resubmitting>>
    BY <1>8 DEF ReadWatch, treeVars, lossVars
  <2>2. ASSUME NEW t \in sessions' PROVE WaitedFor(t)'
    <3>1. WaitedFor(t) /\ t \in SessionIds
      BY <1>0, <1>2, <2>1
    <3>2. CASE op = "list"
      <4>1. /\ list_watches' = AddWatch(list_watches, path, s)
            /\ UNCHANGED <<watches, client_data>>
            /\ client_list' = [client_list EXCEPT ![s] = Put(@, path, container[path].children)]
        BY <1>8, <3>2 DEF ReadWatch
      <4>2. /\ DOMAIN client_list'[t] \subseteq DOMAIN client_list[t]
                                        \cup (IF t = s THEN {path} ELSE {})
        BY <1>0, <3>1, <4>1 DEF StoreTypes, Put
      <4>3. \A p \in DOMAIN client_list'[t] : t \in At(list_watches', p)
        BY <3>1, <4>1, <4>2, AddWatchAt DEF WaitedFor
      <4>. QED BY <3>1, <4>1, <4>3 DEF WaitedFor
    <3>3. CASE op # "list"
      <4>1. /\ watches' = AddWatch(watches, path, s)
            /\ UNCHANGED <<list_watches, client_list>>
            /\ client_data' = [client_data EXCEPT ![s] = Put(@, path, Mzxid(path))]
        BY <1>8, <3>3 DEF ReadWatch
      <4>2. /\ DOMAIN client_data'[t] \subseteq DOMAIN client_data[t]
                                        \cup (IF t = s THEN {path} ELSE {})
        BY <1>0, <3>1, <4>1 DEF StoreTypes, Put
      <4>3. \A p \in DOMAIN client_data'[t] : t \in At(watches', p)
        BY <3>1, <4>1, <4>2, AddWatchAt DEF WaitedFor
      <4>. QED BY <3>1, <4>1, <4>3 DEF WaitedFor
    <3>. QED BY <3>2, <3>3
  <2>. QED BY <1>2, <2>1, <2>2
<1>. QED BY <1>3, <1>4, <1>5, <1>6, <1>7, <1>8, StoreSteps

(* No watch is lost: the server knows every watch that a client with a     *)
(* connection still waits for, whatever other sessions write, watch, and   *)
(* however they end; in particular a notification goes to everyone whose   *)
(* watch is taken away.                                                    *)
THEOREM WatchesKeptHolds == StoreSpec => []WatchesKept
<1>1. StoreInit => SteadyOK
  BY DEF StoreInit, Init, SteadyOK
<1>2. SteadyOK /\ StoreInv /\ [StoreNext]_storeVars => SteadyOK'
  BY SteadyNext
<1>3. ASSUME SteadyOK PROVE WatchesKept
  BY <1>3 DEF SteadyOK, WatchesKept, Watching, WaitedFor
<1>. QED BY <1>1, <1>2, <1>3, StoreInvAlways, PTL DEF StoreSpec

-----------------------------------------------------------------------------
(* What clients see of the tree                                            *)

ChildrenAt(path) == IF Exists(path) THEN container[path].children ELSE {}

LEMMA MzxidType ==
  ASSUME TreeInv, NEW path, Exists(path)
  PROVE  Mzxid(path) \in Nat /\ Mzxid(path) # Absent
  BY DEF TreeInv, TreeOK, GoodTree, NodeOK, Node, Mzxid, Exists, Absent

(* What a request changes of what a client may have read at p.             *)
Changes(req, p) ==
  /\ Exists(p)' /\ ~Exists(p) => req.op = "create" /\ p = PathCreated(req)
  /\ Exists(p) /\ Mzxid(p)' # Mzxid(p) => req.op \in {"remove", "set"} /\ p = req.path
  /\ ChildrenAt(p)' # ChildrenAt(p) =>
       req.op \in {"create", "remove"} /\ p = ParentPath(req.path)

LEMMA SetACLEffect ==
  ASSUME TreeInv, NEW s, NEW req, SetACLError(s, req) = "ZOK", SetACL(s, req), NEW p
  PROVE  Changes(req, p)
<1> DEFINE path == req.path
           id   == ConvertACLs(acl_map, FixupACL(req.acls, session_and_auth[s]))
<1>1. path \in DOMAIN container
  BY DEF SetACLError, Exists
<1>2. container = [q \in DOMAIN container |-> container[q]] /\ container[path] \in Node
  BY <1>1 DEF TreeInv, TreeOK, GoodTree, NodeOK
<1>3. container' = [container EXCEPT ![path].acl_id = id, ![path].aversion = @ + 1]
  BY DEF SetACL
<1> HIDE DEF id, path
<1>4. container' = Replaced(container, path, WithAcl(container[path], id))
  BY <1>1, <1>2, <1>3 DEF Replaced, WithAcl
<1>5. /\ WithAcl(container[path], id).children = container[path].children
      /\ WithAcl(container[path], id).mzxid = container[path].mzxid
  BY <1>2, NodeFields DEF WithAcl
<1>6. /\ DOMAIN container' = DOMAIN container
      /\ \A q \in DOMAIN container : /\ container'[q].children = container[q].children
                                     /\ container'[q].mzxid = container[q].mzxid
  BY <1>4, <1>5 DEF Replaced
<1>. QED BY <1>6 DEF Changes, Mzxid, ChildrenAt, Exists

LEMMA ProcessEffect ==
  ASSUME TreeInv, NEW s \in SessionIds, NEW req \in Requests, Process(s, req), NEW p
  PROVE  Changes(req, p)
<1>1. /\ multi = Idle /\ s \in sessions /\ ErrorCode(s, req) = "ZOK" /\ Apply(s, req, zxid)
  BY DEF Process, Serving
<1>2. IsRequest(req) /\ zxid \in Nat
  BY <1>1, RequestAssumption DEF TreeInv, SessionsOK
<1>3. Before(s, zxid, sessions)
  BY <1>1, <1>2 DEF Before, TreeInv, TreeOK, StampsOK
<1>4. CASE req.op = "create" /\ Create(s, req, zxid)
  <2>1. CreateError(s, req) = "ZOK"
    BY <1>1, <1>4 DEF ErrorCode
  <2> DEFINE path  == PathCreated(req)
             owner == IF req.ephemeral THEN s ELSE NoOwner
             id    == ConvertACLs(acl_map, FixupACL(req.acls, session_and_auth[s]))
             node  == NewNode(zxid, owner, id)
  <2>2. /\ path \notin DOMAIN container /\ ParentPath(path) = ParentPath(req.path)
        /\ container' = Added(container, path, node, zxid)
    BY <1>2, <1>3, <1>4, <2>1, CreateEffect
  <2>3. node.children = {}
    BY DEF NewNode
  <2> HIDE DEF path, node
  <2>4. DOMAIN container' = DOMAIN container \cup {path} /\ container'[path].children = {}
    BY <2>2, <2>3 DEF Added
  <2>5. ASSUME NEW q \in DOMAIN container
        PROVE  /\ container'[q].mzxid = container[q].mzxid
               /\ q # ParentPath(path) => container'[q].children = container[q].children
    <3>1. container'[q] \in {container[q], WithChild(container[q], GetBaseName(path), zxid)}
          /\ (q # ParentPath(path) => container'[q] = container[q])
      BY <2>2 DEF Added
    <3>2. WithChild(container[q], GetBaseName(path), zxid).mzxid = container[q].mzxid
      BY DEF WithChild, Touch
    <3>. QED BY <3>1, <3>2
  <2>6. p = path => ChildrenAt(p)' = {} /\ ChildrenAt(p) = {}
    BY <2>2, <2>4 DEF ChildrenAt, Exists
  <2>7. Exists(p) => Mzxid(p)' = Mzxid(p)
    BY <2>4, <2>5 DEF Mzxid, Exists
  <2>8. p # path /\ p # ParentPath(path) => ChildrenAt(p)' = ChildrenAt(p)
    BY <2>4, <2>5 DEF ChildrenAt, Exists
  <2>9. Exists(p)' /\ ~Exists(p) => p = path
    BY <2>4 DEF Exists
  <2>. QED BY <1>4, <2>2, <2>6, <2>7, <2>8, <2>9 DEF Changes, path
<1>5. CASE req.op = "remove" /\ Remove(req, zxid)
  <2>1. RemoveError(req) = "ZOK"
    BY <1>1, <1>5 DEF ErrorCode
  <2> DEFINE path == req.path
  <2>2. /\ path \in DOMAIN container /\ container[path].children = {}
        /\ container' = Deleted(container, path, zxid)
    BY <1>3, <1>5, <2>1, RemoveEffect
  <2> HIDE DEF path
  <2>3. DOMAIN container' = DOMAIN container \ {path}
    BY <2>2 DEF Deleted
  <2>4. ASSUME NEW q \in DOMAIN container \ {path}
        PROVE  /\ container'[q].mzxid = container[q].mzxid
               /\ q # ParentPath(path) => container'[q].children = container[q].children
    <3>1. container'[q] \in {container[q], WithoutChild(container[q], GetBaseName(path), zxid)}
          /\ (q # ParentPath(path) => container'[q] = container[q])
      BY <2>2 DEF Deleted
    <3>2. WithoutChild(container[q], GetBaseName(path), zxid).mzxid = container[q].mzxid
      BY DEF WithoutChild, Touch
    <3>. QED BY <3>1, <3>2
  <2>5. p = path => ChildrenAt(p)' = {} /\ ChildrenAt(p) = {}
    BY <2>2, <2>3 DEF ChildrenAt, Exists
  <2>6. Exists(p) /\ p # path => Mzxid(p)' = Mzxid(p)
    BY <2>3, <2>4 DEF Mzxid, Exists
  <2>7. p # path /\ p # ParentPath(path) => ChildrenAt(p)' = ChildrenAt(p)
    BY <2>3, <2>4 DEF ChildrenAt, Exists
  <2>8. Exists(p)' => Exists(p)
    BY <2>3 DEF Exists
  <2>. QED BY <1>5, <2>5, <2>6, <2>7, <2>8 DEF Changes, path
<1>6. CASE req.op = "set" /\ Set(req, zxid)
  <2>1. VersionError(req) = "ZOK"
    BY <1>1, <1>6 DEF ErrorCode
  <2> DEFINE path == req.path
             node == WithData(container[path], zxid)
  <2>2. /\ path \in DOMAIN container /\ container[path] \in Node
        /\ container' = Replaced(container, path, node)
    BY <1>3, <1>6, <2>1, SetEffect
  <2>3. node.children = container[path].children
    BY <1>2, <2>2, WithDataIs
  <2> HIDE DEF node, path
  <2>4. /\ DOMAIN container' = DOMAIN container
        /\ \A q \in DOMAIN container :
             /\ container'[q].children = container[q].children
             /\ q # path => container'[q].mzxid = container[q].mzxid
    BY <2>2, <2>3 DEF Replaced
  <2>. QED BY <1>6, <2>4 DEF Changes, Mzxid, ChildrenAt, Exists, path
<1>7. CASE req.op = "setacl" /\ SetACL(s, req)
  <2>1. SetACLError(s, req) = "ZOK"
    BY <1>1, <1>7 DEF ErrorCode
  <2>. QED BY <1>7, <2>1, SetACLEffect
<1>8. CASE UNCHANGED <<container, ephemerals, acl_map>>
  BY <1>8 DEF Changes, Mzxid, ChildrenAt, Exists
<1>. QED BY <1>1, <1>4, <1>5, <1>6, <1>7, <1>8 DEF Apply

(* Close takes leaves away, and nothing else changes but their parents.    *)
LEMMA CloseEffect ==
  ASSUME TreeInv, NEW s \in SessionIds, Close(s), NEW p
  PROVE  /\ Exists(p)' => Exists(p)
         /\ Exists(p) /\ Mzxid(p)' # Mzxid(p) => p \in ephemerals[s]
         /\ ChildrenAt(p)' # ChildrenAt(p) => p \in Parents(ephemerals[s])
<1> DEFINE gone == ephemerals[s]
           Lost == {q \in gone : ParentPath(q) = p}
<1>1. /\ GoodTree(container, ephemerals) /\ container' = ClosedTree(container, gone)
      /\ gone = OwnedBy(container, s)
  <2>1. GoodTree(container, ephemerals)
    BY DEF TreeInv, TreeOK
  <2>2. container' = ClosedTree(container, gone)
    BY DEF Close, WithoutNodes, ClosedTree
  <2>. QED BY <2>1, <2>2 DEF GoodTree
<1>2. /\ DOMAIN container' = DOMAIN container \ gone
      /\ \A q \in DOMAIN container \ gone : container'[q].mzxid = container[q].mzxid
  <2> DEFINE d == ClosedTree(container, gone)
  <2>1. /\ DOMAIN d = DOMAIN container \ gone
        /\ \A q \in DOMAIN container \ gone : d[q].mzxid = container[q].mzxid
    <3>1. GoodTree(container, ephemerals)
      BY <1>1
    <3>2. /\ DOMAIN ClosedTree(container, gone) = DOMAIN container \ gone
          /\ \A q \in DOMAIN container \ gone :
               /\ ClosedTree(container, gone)[q].acl_id = container[q].acl_id
               /\ ClosedTree(container, gone)[q].mzxid = container[q].mzxid
               /\ ClosedTree(container, gone)[q].pzxid = container[q].pzxid
               /\ ClosedTree(container, gone)[q].owner = container[q].owner
      BY <3>1, ClosedFields, Zenon
    <3> HIDE DEF gone
    <3>. QED BY <3>2
  <2>2. container' = d
    BY <1>1
  <2> HIDE DEF d, gone
  <2>. QED BY <2>1, <2>2
<1>3. Exists(p)' => Exists(p)
  BY <1>2 DEF Exists
<1>4. Exists(p) /\ p \notin gone => Mzxid(p)' = Mzxid(p)
  BY <1>2 DEF Mzxid, Exists
<1>5. p \in gone => ChildrenAt(p)' = {} /\ ChildrenAt(p) = {}
  <2> SUFFICES ASSUME p \in gone PROVE ChildrenAt(p)' = {} /\ ChildrenAt(p) = {}
    OBVIOUS
  <2>1. p \in DOMAIN container /\ container[p].owner = s /\ p \notin DOMAIN container'
    BY <1>1, <1>2 DEF OwnedBy
  <2>2. ASSUME NEW name \in container[p].children PROVE FALSE
    <3>1. p \in Seq(Names) /\ name \in Names /\ Append(p, name) \in DOMAIN container
      BY <1>1, <2>1 DEF GoodTree, NodeOK, Node
    <3>2. ParentPath(Append(p, name)) = p /\ Append(p, name) # Root
      BY <3>1, PathAppend
    <3>3. container[p].owner = NoOwner
      BY <1>1, <3>1, <3>2 DEF GoodTree, NodeOK, Listed
    <3>. QED BY <2>1, <3>3 DEF NoOwner, SessionIds
  <2>. QED BY <2>1, <2>2 DEF ChildrenAt, Exists
<1>6. p \in DOMAIN container \ gone /\ Lost = {} => container'[p].children = container[p].children
  <2> SUFFICES ASSUME p \in DOMAIN container \ gone, Lost = {}
               PROVE  container'[p].children = container[p].children
    OBVIOUS
  <2> DEFINE left == {GetBaseName(q) : q \in Lost}
             k    == Cardinality(Lost)
             n    == container[p]
  <2>1. container'[p] = [n EXCEPT !.children = @ \ left, !.numChildren = @ - k]
    BY <1>1 DEF ClosedTree
  <2>2. left = {}
    OBVIOUS
  <2> HIDE DEF left, k, n, Lost
  <2>3. n \in Node
    BY <1>1 DEF GoodTree, NodeOK, n
  <2>. QED BY <2>1, <2>2, <2>3 DEF Node, n
<1>7. Lost # {} => p \in Parents(gone)
  BY DEF Parents
<1> HIDE DEF gone, Lost
<1>8. p \notin gone /\ Lost = {} => ChildrenAt(p)' = ChildrenAt(p)
  BY <1>2, <1>6 DEF ChildrenAt, Exists
<1>. QED BY <1>3, <1>4, <1>5, <1>7, <1>8 DEF gone

(* What a client with a watch has read is what it would read now; a list   *)
(* watch may outlive its node, which had no children when it went.         *)
SeesData(s) ==
  \A path \in DOMAIN client_data[s] : client_data[s][path] \in {Absent, Mzxid(path)}

SeesChildren(s) ==
  \A path \in DOMAIN client_list[s] : client_list[s][path] = ChildrenAt(path)

SeenOK == Steady => \A s \in sessions : SeesData(s) /\ SeesChildren(s)

(* A request fires the watches on what it changes.                         *)
LEMMA FiredChanges ==
  ASSUME NEW req, NEW p, NEW t \in SessionIds
  PROVE  /\ t \in At(watches, p) /\ p = req.path /\ req.op \in {"create", "remove", "set"} =>
              Noted(Fired(req).notes, t, p, DataEvents)
         /\ t \in At(list_watches, p) /\ p = ParentPath(req.path)
              /\ req.op \in {"create", "remove"} =>
              Noted(Fired(req).notes, t, p, ListEvents)
<1> DEFINE event == EventOf(req)
           st    == ProcessWatches(Unfired, {req.path}, event)
<1>1. Unfired.w = watches /\ Unfired.lw = list_watches
  BY DEF Unfired
<1>2. /\ \A q \in {req.path} : t \in At(watches, q) => <<t, q, event>> \in st.notes
      /\ \A q \in ListsOf({req.path}, event) :
           t \in At(list_watches, q) => Noted(st.notes, t, q, ListEvents)
  BY <1>1, Processed
<1>3. t \in At(watches, p) => p \in DOMAIN watches
  BY DEF At
<1>4. t \in At(list_watches, p) => p \in DOMAIN list_watches
  BY DEF At
<1>5. /\ req.op \in {"create", "remove", "set"} => event \in DataEvents /\ event # "NONE"
      /\ req.op \in {"create", "remove"} => event \in {"CREATED", "DELETED"}
  BY DEF EventOf, DataEvents
<1>6. event \in {"CREATED", "DELETED"} => ParentPath(req.path) \in ListsOf({req.path}, event)
  <2>1. ParentPath(req.path) \in Parents({req.path})
    BY DEF Parents
  <2>. QED BY <2>1 DEF ListsOf
<1> HIDE DEF event, st
<1>7. event # "NONE" /\ HasWatchers(req.path) => Fired(req) = st
  BY DEF Fired, event, st
<1>8. ASSUME t \in At(watches, p), p = req.path, req.op \in {"create", "remove", "set"}
      PROVE  Noted(Fired(req).notes, t, p, DataEvents)
  BY <1>2, <1>3, <1>5, <1>7, <1>8 DEF HasWatchers, Noted
<1>9. ASSUME t \in At(list_watches, p), p = ParentPath(req.path),
             req.op \in {"create", "remove"}
      PROVE  Noted(Fired(req).notes, t, p, ListEvents)
  <2>1. event \in {"CREATED", "DELETED"} /\ event # "NONE"
    BY <1>5, <1>9
  <2>2. HasWatchers(req.path)
    BY <1>4, <1>9 DEF HasWatchers
  <2>. QED BY <1>2, <1>6, <1>7, <1>9, <2>1, <2>2
<1>. QED BY <1>8, <1>9

(* Close fires the watches on the nodes it takes away.                     *)
LEMMA ClosedChanges ==
  ASSUME NEW gone, NEW s, NEW p, NEW t \in SessionIds
  PROVE  LET notes == ClearDeadWatches(ProcessWatches(Unfired, gone, "DELETED"), s).notes IN
         /\ t \in At(watches, p) /\ p \in gone => Noted(notes, t, p, DataEvents)
         /\ t \in At(list_watches, p) /\ p \in Parents(gone) => Noted(notes, t, p, ListEvents)
<1> DEFINE st == ProcessWatches(Unfired, gone, "DELETED")
           last == ClearDeadWatches(st, s)
<1>1. Unfired.w = watches /\ Unfired.lw = list_watches
  BY DEF Unfired
<1>2. /\ \A q \in gone : t \in At(watches, q) => <<t, q, "DELETED">> \in st.notes
      /\ \A q \in ListsOf(gone, "DELETED") :
           t \in At(list_watches, q) => Noted(st.notes, t, q, ListEvents)
  BY <1>1, Processed
<1>3. p \in Parents(gone) => p \in ListsOf(gone, "DELETED")
  BY DEF ListsOf
<1>4. IsState(st)
  BY FiredState
<1> HIDE DEF st
<1>5. last.notes = st.notes
  BY <1>4 DEF ClearDeadWatches, IsState
<1> HIDE DEF last
<1>6. t \in At(watches, p) /\ p \in gone => Noted(last.notes, t, p, DataEvents)
  BY <1>2, <1>5 DEF Noted, DataEvents
<1>7. t \in At(list_watches, p) /\ p \in Parents(gone) => Noted(last.notes, t, p, ListEvents)
  BY <1>2, <1>3, <1>5
<1>. QED BY <1>6, <1>7 DEF last, st

LEMMA SeenNext ==
  ASSUME SeenOK, SteadyOK, StoreInv, StoreInv', [StoreNext]_storeVars
  PROVE  SeenOK'
<1> SUFFICES ASSUME Steady'
             PROVE  \A t \in sessions' : SeesData(t)' /\ SeesChildren(t)'
  BY DEF SeenOK
<1>0. sessions \subseteq SessionIds /\ StoreTypes /\ TreeInv
  BY SessionsAreIds DEF TreeInv, StoreInv
<1>1. ASSUME scenario' = scenario
      PROVE  /\ scenario.multis = {} /\ scenario.losses = 0
             /\ multi = Idle /\ connected = sessions /\ resubmitting = {}
             /\ \A t \in sessions : WaitedFor(t) /\ SeesData(t) /\ SeesChildren(t)
  BY <1>1 DEF SteadyOK, SeenOK, Steady
<1>2. ASSUME UNCHANGED <<container, client_data, client_list, scenario>>,
             NEW t \in sessions
      PROVE  SeesData(t)' /\ SeesChildren(t)'
  BY <1>1, <1>2 DEF SeesData, SeesChildren, Mzxid, ChildrenAt, Exists
<1>3. CASE StoreNewSession
  <2>1. /\ UNCHANGED <<scenario, container, client_data, client_list>>
        /\ sessions' = sessions \cup {session_id_counter}
        /\ session_id_counter \in SessionIds
    BY <1>3 DEF StoreNewSession, NewSession, watchVars, lossVars, SessionIds, StoreInv,
                TreeInv, SessionsOK
  <2>2. PICK n : n = session_id_counter
    OBVIOUS
  <2>3. SeesData(n)' /\ SeesChildren(n)'
    <3>1. DOMAIN client_data[n] = {} /\ DOMAIN client_list[n] = {}
      BY <1>0, <2>1, <2>2 DEF StoreTypes, ClientOK, SessionIds
    <3>. QED BY <2>1, <3>1 DEF SeesData, SeesChildren
  <2>. QED BY <1>2, <2>1, <2>2, <2>3
<1>4. CASE QuietStep
  <2>1. UNCHANGED <<scenario, client_data, client_list, sessions>>
    BY <1>4 DEF QuietStep, Quiet, lossVars
  <2>2. container' = container
    <3>1. multi = Idle /\ scenario.multis = {}
      BY <1>1, <2>1
    <3>2. ~StoreMulti /\ ~MultiEnd
      BY <3>1 DEF StoreMulti, MultiStep, MultiFail, MultiUndo, MultiEnd, MultiDone,
                  MultiRunning, Idle
    <3>. QED BY <1>4, <3>2 DEF QuietStep, treeVars
  <2>. QED BY <1>2, <2>1, <2>2
<1>5. ASSUME NEW st, Deliver(st), scenario' = scenario, NEW t \in sessions,
             \A p : (Exists(p)' /\ ~Exists(p)) \/ Mzxid(p)' = Mzxid(p)
                    \/ (t \in At(watches, p) => Noted(st.notes, t, p, DataEvents)),
             \A p : ChildrenAt(p)' = ChildrenAt(p)
                    \/ (t \in At(list_watches, p) => Noted(st.notes, t, p, ListEvents))
      PROVE  SeesData(t)' /\ SeesChildren(t)'
  <2>1. WaitedFor(t) /\ SeesData(t) /\ SeesChildren(t) /\ t \in SessionIds \cap connected
    BY <1>0, <1>1, <1>5
  <2>2. /\ Kept(client_data'[t], client_data[t]) /\ Kept(client_list'[t], client_list[t])
        /\ \A p \in DOMAIN client_data'[t] : ~Noted(st.notes, t, p, DataEvents)
        /\ \A p \in DOMAIN client_list'[t] : ~Noted(st.notes, t, p, ListEvents)
    BY <1>5, <2>1, Delivered
  <2>3. ASSUME NEW p \in DOMAIN client_data'[t]
        PROVE  client_data'[t][p] \in {Absent, Mzxid(p)'}
    <3>1. /\ p \in DOMAIN client_data[t] /\ client_data'[t][p] = client_data[t][p]
          /\ t \in At(watches, p) /\ client_data[t][p] \in {Absent, Mzxid(p)}
      BY <2>1, <2>2, <2>3 DEF Kept, WaitedFor, SeesData
    <3>2. (Exists(p)' /\ ~Exists(p)) \/ Mzxid(p)' = Mzxid(p)
      BY <1>5, <2>2, <2>3, <3>1
    <3>3. ~Exists(p) => Mzxid(p) = Absent
      BY DEF Mzxid
    <3>. QED BY <3>1, <3>2, <3>3
  <2>4. ASSUME NEW p \in DOMAIN client_list'[t]
        PROVE  client_list'[t][p] = ChildrenAt(p)'
    <3>1. /\ p \in DOMAIN client_list[t] /\ client_list'[t][p] = client_list[t][p]
          /\ t \in At(list_watches, p) /\ client_list[t][p] = ChildrenAt(p)
      BY <2>1, <2>2, <2>4 DEF Kept, WaitedFor, SeesChildren
    <3>. QED BY <1>5, <2>2, <2>4, <3>1
  <2>. QED BY <2>3, <2>4 DEF SeesData, SeesChildren
<1>6. ASSUME NEW s \in SessionIds, StoreClose(s), NEW t \in sessions'
      PROVE  SeesData(t)' /\ SeesChildren(t)'
  <2> DEFINE gone == ephemerals[s]
             last == ClearDeadWatches(ProcessWatches(Unfired, gone, "DELETED"), s)
  <2>1. Deliver(last) /\ sessions' = sessions \ {s} /\ scenario' = scenario /\ Close(s)
    BY <1>6 DEF StoreClose, Close, lossVars
  <2>2. t \in sessions /\ t \in SessionIds
    BY <1>0, <1>6, <2>1
  <2>3. ASSUME NEW p
        PROVE  /\ (Exists(p)' /\ ~Exists(p)) \/ Mzxid(p)' = Mzxid(p)
                    \/ (t \in At(watches, p) => Noted(last.notes, t, p, DataEvents))
               /\ ChildrenAt(p)' = ChildrenAt(p)
                    \/ (t \in At(list_watches, p) => Noted(last.notes, t, p, ListEvents))
    <3>1. /\ Exists(p)' => Exists(p)
          /\ Exists(p) /\ Mzxid(p)' # Mzxid(p) => p \in gone
          /\ ChildrenAt(p)' # ChildrenAt(p) => p \in Parents(gone)
      BY <1>0, <2>1, CloseEffect
    <3>2. /\ t \in At(watches, p) /\ p \in gone => Noted(last.notes, t, p, DataEvents)
          /\ t \in At(list_watches, p) /\ p \in Parents(gone) =>
               Noted(last.notes, t, p, ListEvents)
      BY <2>2, ClosedChanges
    <3>3. ~Exists(p) /\ ~Exists(p)' => Mzxid(p)' = Mzxid(p)
      BY DEF Mzxid
    <3> HIDE DEF last, gone
    <3>. QED BY <3>1, <3>2, <3>3
  <2> HIDE DEF last, gone
  <2>. QED BY <1>5, <2>1, <2>2, <2>3
<1>7. ASSUME NEW s \in SessionIds, Disconnect(s) \/ Reconnect(s) \/ SetWatches(s)
      PROVE  FALSE
  <2>1. scenario' = scenario
    BY <1>7 DEF Disconnect, Reconnect, SetWatches, lossVars
  <2>2. disconnects \in Nat
    BY <1>0 DEF StoreTypes
  <2>. QED BY <1>0, <1>1, <1>7, <2>1, <2>2 DEF Disconnect, Reconnect, SetWatches
<1>8. ASSUME NEW s \in SessionIds, NEW req \in scenario.requests, StoreProcess(s, req),
             NEW t \in sessions'
      PROVE  SeesData(t)' /\ SeesChildren(t)'
  <2>1. /\ sessions' = sessions /\ scenario' = scenario /\ Process(s, req)
        /\ Deliver(Fired(req))
    BY <1>8 DEF StoreProcess, Process, lossVars, FireWatches, Fired
  <2>2. req \in Requests
    BY ScenarioAssumption DEF StoreInv, ScenarioOK
  <2>3. t \in sessions /\ t \in SessionIds
    BY <1>0, <1>8, <2>1
  <2>4. ASSUME NEW p
        PROVE  /\ (Exists(p)' /\ ~Exists(p)) \/ Mzxid(p)' = Mzxid(p)
                    \/ (t \in At(watches, p) => Noted(Fired(req).notes, t, p, DataEvents))
               /\ ChildrenAt(p)' = ChildrenAt(p)
                    \/ (t \in At(list_watches, p) => Noted(Fired(req).notes, t, p, ListEvents))
    <3>1. Changes(req, p)
      BY <1>0, <2>1, <2>2, ProcessEffect
    <3>2. ~Exists(p) /\ ~Exists(p)' => Mzxid(p)' = Mzxid(p)
      BY DEF Mzxid
    <3>. QED BY <2>3, <3>1, <3>2, FiredChanges DEF Changes
  <2>. QED BY <1>5, <2>1, <2>3, <2>4
<1>9. ASSUME NEW s \in SessionIds, NEW op \in ReadOps, NEW path, ReadWatch(s, op, path),
             NEW t \in sessions'
      PROVE  SeesData(t)' /\ SeesChildren(t)'
  <2>1. UNCHANGED <<sessions, scenario, container>> /\ ReadOk(s, op, path)
    BY <1>9 DEF ReadWatch, treeVars, lossVars
  <2>2. SeesData(t) /\ SeesChildren(t) /\ t \in SessionIds
    BY <1>0, <1>1, <1>9, <2>1
  <2>3. \A p : Mzxid(p)' = Mzxid(p) /\ ChildrenAt(p)' = ChildrenAt(p)
    BY <2>1 DEF Mzxid, ChildrenAt, Exists
  <2>4. CASE op = "list"
    <3>1. /\ client_data' = client_data
          /\ client_list' = [client_list EXCEPT ![s] = Put(@, path, container[path].children)]
      BY <1>9, <2>4 DEF ReadWatch
    <3>2. container[path].children = ChildrenAt(path)
      BY <2>1, <2>4 DEF ReadOk, ChildrenAt
    <3>3. SeesChildren(t)'
      BY <1>0, <2>2, <2>3, <3>1, <3>2 DEF SeesChildren, Put, StoreTypes
    <3>. QED BY <2>2, <2>3, <3>1, <3>3 DEF SeesData
  <2>5. CASE op # "list"
    <3>1. /\ client_list' = client_list
          /\ client_data' = [client_data EXCEPT ![s] = Put(@, path, Mzxid(path))]
      BY <1>9, <2>5 DEF ReadWatch
    <3>2. SeesData(t)'
      BY <1>0, <2>2, <2>3, <3>1 DEF SeesData, Put, StoreTypes
    <3>. QED BY <2>2, <2>3, <3>1, <3>2 DEF SeesChildren
  <2>. QED BY <2>4, <2>5
<1>. QED BY <1>2, <1>3, <1>4, <1>6, <1>7, <1>8, <1>9, StoreSteps

(* What watches are for, as far as nodes that were there are concerned: a  *)
(* client that has read data or children and left a watch, and was not     *)
(* notified, would read the same now.                                      *)
ReadersInformed ==
  \A s \in SessionIds : Watching(s) /\ Steady =>
    /\ \A path \in DOMAIN client_data[s] :
         client_data[s][path] # Absent => client_data[s][path] = Mzxid(path)
    /\ \A path \in DOMAIN client_list[s] :
         Exists(path) => client_list[s][path] = container[path].children

(* A client with a connection is notified of every change to what it has   *)
(* read and watches: of new data, of the removal of the node, also by the  *)
(* close of the session that owns it, and of children that come and go,    *)
(* sequential and ephemeral ones included.                                 *)
THEOREM ReadersInformedHolds == StoreSpec => []ReadersInformed
<1>1. StoreInit => SeenOK /\ SteadyOK
  BY DEF StoreInit, Init, SteadyOK, SeenOK
<1>2. /\ SteadyOK /\ SeenOK /\ StoreInv /\ StoreInv' /\ [StoreNext]_storeVars
      => SteadyOK' /\ SeenOK'
  BY SteadyNext, SeenNext
<1>3. ASSUME SeenOK, SteadyOK PROVE ReadersInformed
  BY <1>3 DEF SeenOK, SteadyOK, ReadersInformed, Watching, SeesData, SeesChildren, ChildrenAt
<1>. QED BY <1>1, <1>2, <1>3, StoreInvAlways, PTL DEF StoreSpec

-----------------------------------------------------------------------------
(* Clients that wait for a node                                            *)

(* Creations that watches are looked for, where anything is watched: a     *)
(* Multi fires no watch, and a sequential create fires those on the path   *)
(* of its request, which is not the path of the node.                      *)
CreationsLookedFor ==
  \A sc \in Scenarios :
    /\ sc.paths # {} =>
         \A reqs \in sc.multis : \A i \in 1 .. Len(reqs) : reqs[i].op # "create"
    /\ \A req \in sc.requests, path \in sc.paths :
         req.op = "create" /\ req.sequential => GetBaseName(path)[2] = NoSeq

MultiKnown == multi # Idle => multi.requests \in scenario.multis

(* No undo action of the Multi brings the path back.                       *)
NotRestored(path) ==
  multi # Idle =>
    \A i \in 1 .. Len(multi.undo_actions) :
      multi.undo_actions[i].op \in {"remove", "set"} => multi.undo_actions[i].path # path

StillAbsent(path) == ~Exists(path) /\ NotRestored(path)

AbsentOK ==
  \A s \in SessionIds : Watching(s) =>
    \A path \in DOMAIN client_data[s] :
      client_data[s][path] = Absent => StillAbsent(path) /\ s \in At(watches, path)

LEMMA MultiKnownNext ==
  ASSUME MultiKnown, StoreInv, [StoreNext]_storeVars
  PROVE  MultiKnown'
<1>0. TreeInv
  BY DEF StoreInv
<1>1. ASSUME scenario' = scenario, multi' # Idle => multi # Idle /\ multi'.requests = multi.requests
      PROVE  MultiKnown'
  BY <1>1 DEF MultiKnown
<1>2. CASE StoreNewSession
  BY <1>1, <1>2 DEF StoreNewSession, NewSession, lossVars
<1>3. CASE QuietStep
  <2>1. scenario' = scenario
    BY <1>3 DEF QuietStep, Quiet, lossVars
  <2>2. CASE multi' = multi \/ multi' = Idle
    BY <1>1, <2>1, <2>2
  <2>3. CASE MultiStep \/ MultiFail \/ MultiUndo
    <3>1. multi.at \in {"running", "undoing"}
      BY <2>3 DEF MultiStep, MultiFail, MultiUndo, MultiRunning
    <3>2. multi # Idle /\ MultiRecord(multi)
      BY <1>0, <3>1, MultiIsBusy
    <3>3. multi'.requests = multi.requests
      BY <2>3, <3>2 DEF MultiStep, MultiFail, MultiUndo, MultiRecord
    <3>. QED BY <1>1, <2>1, <3>2, <3>3
  <2>4. ASSUME NEW s \in SessionIds, NEW reqs \in scenario.multis, MultiStart(s, reqs)
        PROVE  MultiKnown'
    BY <2>1, <2>4 DEF MultiStart, MultiKnown
  <2>. QED BY <1>3, <2>2, <2>3, <2>4 DEF QuietStep, StoreMulti, MultiEnd, treeVars
<1>4. ASSUME NEW s \in SessionIds,
             \/ StoreClose(s) \/ Disconnect(s) \/ Reconnect(s) \/ SetWatches(s)
             \/ \E req : StoreProcess(s, req)
             \/ \E op, path : ReadWatch(s, op, path)
      PROVE  multi' = multi /\ scenario' = scenario
  BY <1>4 DEF StoreClose, Close, Disconnect, Reconnect, SetWatches, StoreProcess, Process,
              ReadWatch, treeVars, lossVars
<1>. QED BY <1>1, <1>2, <1>3, <1>4, StoreSteps

(* A step of a Multi without creates brings no node that was not there.    *)
LEMMA MultiStaysAbsent ==
  ASSUME TreeInv, MultiKnown, NEW path, StillAbsent(path),
         \A reqs \in scenario.multis : \A i \in 1 .. Len(reqs) : reqs[i].op # "create",
         MultiStep \/ MultiFail \/ MultiUndo
  PROVE  StillAbsent(path)'
<1>1. multi.at \in {"running", "undoing"}
  BY DEF MultiStep, MultiFail, MultiUndo, MultiRunning
<1>2. /\ multi # Idle /\ MultiRecord(multi) /\ Len(multi.undo_actions) \in Nat
      /\ multi.requests \in Multis
  BY <1>1, MultiIsBusy
<1> DEFINE undos == multi.undo_actions
<1>3. undos \in Seq(Undos) /\ path \notin DOMAIN container
      /\ \A i \in 1 .. Len(undos) : undos[i].op \in {"remove", "set"} => undos[i].path # path
  BY <1>2 DEF MultiRecord, StillAbsent, NotRestored, Exists
<1>4. CASE MultiStep
  <2> DEFINE req == MultiRequest
             u   == UndoOf(multi.session, req)
  <2>1. /\ MultiRunning /\ ErrorCode(multi.session, req) = "ZOK"
        /\ Apply(multi.session, req, multi.zxid)
        /\ multi' = [multi EXCEPT !.undo_actions = Append(undos, u)]
    BY <1>4 DEF MultiStep
  <2>2. req.op \in {"remove", "set", "check"}
    <3>1. Len(undos) + 1 \in 1 .. Len(multi.requests) /\ multi.requests \in scenario.multis
      BY <1>2, <2>1, RequestAssumption DEF MultiRunning, MultiKnown
    <3>2. multi.requests[Len(undos) + 1].op \in MultiOps \ {"create"}
      BY <1>2, <3>1, RequestAssumption
    <3>. QED BY <3>2 DEF MultiRequest, MultiOps
  <2>3. path \notin DOMAIN container'
    BY <1>3, <2>1, <2>2 DEF Apply, Remove, Set, Drop
  <2>4. u.op \in {"remove", "set"} => u.path # path
    <3>1. CASE req.op = "remove"
      BY <1>3, <2>1, <3>1 DEF ErrorCode, RemoveError, Exists, UndoOf
    <3>2. CASE req.op = "set"
      BY <1>3, <2>1, <3>2 DEF ErrorCode, VersionError, Exists, UndoOf
    <3>3. CASE req.op = "check"
      BY <3>3 DEF UndoOf
    <3>. QED BY <2>2, <3>1, <3>2, <3>3
  <2> HIDE DEF u, undos
  <2>5. multi'.undo_actions = Append(undos, u)
    BY <1>2, <2>1 DEF MultiRecord
  <2>6. \A i \in 1 .. Len(Append(undos, u)) :
          Append(undos, u)[i].op \in {"remove", "set"} => Append(undos, u)[i].path # path
    <3> SUFFICES ASSUME NEW i \in 1 .. Len(Append(undos, u))
                 PROVE  Append(undos, u)[i].op \in {"remove", "set"} =>
                          Append(undos, u)[i].path # path
      OBVIOUS
    <3>1. /\ Len(undos) \in Nat /\ Len(Append(undos, u)) = Len(undos) + 1
      BY <1>3
    <3>2. CASE i = Len(undos) + 1
      <4>1. Append(undos, u)[i] = u
        BY <1>3, <3>1, <3>2
      <4>. QED BY <2>4, <4>1
    <3>3. CASE i \in 1 .. Len(undos)
      <4>1. Append(undos, u)[i] = undos[i]
        BY <1>3, <3>1, <3>3
      <4>. QED BY <1>3, <3>3, <4>1
    <3>. QED BY <3>1, <3>2, <3>3
  <2>. QED BY <2>3, <2>5, <2>6 DEF StillAbsent, NotRestored, Exists
<1>5. CASE MultiFail
  <2>1. container' = container /\ multi'.undo_actions = undos
    BY <1>2, <1>5 DEF MultiFail, MultiRecord
  <2>. QED BY <1>3, <2>1 DEF StillAbsent, NotRestored, Exists
<1>6. CASE MultiUndo
  <2> DEFINE n == Len(undos)
             u == undos[n]
             v == SubSeq(undos, 1, n - 1)
  <2>1. /\ undos # <<>> /\ Undo(u) /\ multi' = [multi EXCEPT !.undo_actions = v]
    BY <1>6 DEF MultiUndo
  <2>2. n \in Nat /\ n \in 1 .. n
    BY <1>3, <2>1
  <2>3. u.op \in {"remove", "set"} => u.path # path
    BY <1>3, <2>2
  <2> HIDE DEF u, v
  <2>4. path \notin DOMAIN container'
    BY <1>3, <2>1, <2>3 DEF Undo, UndoCreate, UndoRemove, UndoSet, Drop, Put
  <2>5. multi'.undo_actions = v
    BY <1>2, <2>1 DEF MultiRecord
  <2>6. Len(v) = n - 1 /\ \A i \in 1 .. n - 1 : v[i] = undos[i]
    BY <1>3, <2>1, <2>2 DEF v
  <2>7. \A i \in 1 .. Len(v) : v[i].op \in {"remove", "set"} => v[i].path # path
    BY <1>3, <2>2, <2>6
  <2>. QED BY <2>4, <2>5, <2>7 DEF StillAbsent, NotRestored, Exists
<1>. QED BY <1>4, <1>5, <1>6

(* The watch of t is there, or t is told.                                  *)
Told(st, t, path) == t \in At(st.w, path) \/ Noted(st.notes, t, path, DataEvents)

LEMMA SetWatchTold ==
  ASSUME NEW s \in SessionIds, NEW st, IsState(st), NEW kind \in {"data", "exist", "list"},
         NEW path, NEW t \in SessionIds, NEW p
  PROVE  LET r == SetWatch(s, st, <<kind, path>>) IN
         /\ st.notes \subseteq r.notes
         /\ ~Exists(p) /\ Told(st, t, p) => Told(r, t, p)
         /\ kind = "exist" => /\ Exists(path) => Noted(r.notes, s, path, DataEvents)
                              /\ Told(r, s, path)
<1> DEFINE r == SetWatch(s, st, <<kind, path>>)
<1>1. PICK reg : Registered(s, st, kind, path, reg) /\ FiredOrLeft(kind, path, reg, r)
  BY SetWatchIs
<1> HIDE DEF r
<1>2. /\ reg.notes = st.notes /\ \A q : At(st.w, q) \subseteq At(reg.w, q)
      /\ kind = "exist" => s \in At(reg.w, path)
  BY <1>1, AddWatchAt DEF Registered
<1>3. ASSUME r = reg, kind = "exist" => ~Exists(path)
      PROVE  /\ st.notes \subseteq r.notes
             /\ ~Exists(p) /\ Told(st, t, p) => Told(r, t, p)
             /\ kind = "exist" => /\ Exists(path) => Noted(r.notes, s, path, DataEvents)
                                  /\ Told(r, s, path)
  BY <1>2, <1>3 DEF Told
<1>4. ASSUME NEW event, r = ProcessWatches(reg, {path}, event),
             event \in DataEvents \/ Exists(path), kind = "exist" => event = "CREATED"
      PROVE  /\ st.notes \subseteq r.notes
             /\ ~Exists(p) /\ Told(st, t, p) => Told(r, t, p)
             /\ kind = "exist" => /\ Exists(path) => Noted(r.notes, s, path, DataEvents)
                                  /\ Told(r, s, path)
  <2>1. /\ r.w = Drop(reg.w, {path}) /\ reg.notes \subseteq r.notes
        /\ \A x \in SessionIds, q \in {path} : x \in At(reg.w, q) => <<x, q, event>> \in r.notes
    BY <1>4, Processed
  <2>2. kind = "exist" => Noted(r.notes, s, path, DataEvents)
    BY <1>2, <1>4, <2>1 DEF Noted, DataEvents
  <2>3. ASSUME ~Exists(p), Told(st, t, p) PROVE Told(r, t, p)
    <3>1. CASE Noted(st.notes, t, p, DataEvents)
      BY <1>2, <2>1, <3>1 DEF Told, Noted
    <3>2. CASE t \in At(st.w, p) /\ p # path
      <4>1. At(r.w, p) = At(reg.w, p)
        BY <2>1, <3>2, DropAt
      <4>. QED BY <1>2, <3>2, <4>1 DEF Told
    <3>3. CASE t \in At(st.w, p) /\ p = path
      BY <1>2, <1>4, <2>1, <2>3, <3>3 DEF Told, Noted
    <3>. QED BY <2>3, <3>1, <3>2, <3>3 DEF Told
  <2>. QED BY <1>2, <2>1, <2>2, <2>3 DEF Told
<1>5. /\ st.notes \subseteq r.notes
      /\ ~Exists(p) /\ Told(st, t, p) => Told(r, t, p)
      /\ kind = "exist" => /\ Exists(path) => Noted(r.notes, s, path, DataEvents)
                           /\ Told(r, s, path)
  BY <1>1, <1>3, <1>4 DEF FiredOrLeft
<1>. QED BY <1>5 DEF r

(* After SetWatches every client that waits for a node is told, or waits   *)
(* on: the session itself, and those whose watches were there.             *)
LEMMA SetWatchesAbsent ==
  ASSUME AbsentOK, StoreInv, NEW s \in SessionIds, SetWatches(s)
  PROVE  AbsentOK'
<1>0. StoreTypes /\ TreeInv /\ Finitely(s)
  BY DEF StoreInv, StoreTypes, ClientOK
<1>a. PICK todo, done : SetInOrder(s, todo, done) /\ Deliver(done[Len(todo)])
  BY <1>0, SetWatchesDone
<1>1. /\ todo \in Seq(WatchesOf(s)) /\ done[0] = Unfired
      /\ \A k \in 1 .. Len(todo) : done[k] = SetWatch(s, done[k - 1], todo[k])
      /\ \A path \in ExistOf(s) : \E k \in 1 .. Len(todo) : todo[k] = <<"exist", path>>
      /\ Deliver(done[Len(todo)])
  BY <1>a DEF SetInOrder
<1> DEFINE N == Len(todo)
<1>2. /\ multi = Idle /\ s \in resubmitting /\ resubmitting' = resubmitting \ {s}
      /\ UNCHANGED <<container, multi, connected>> /\ N \in Nat
  BY <1>1 DEF SetWatches, treeVars
<1>3. ASSUME NEW k \in 1 .. N
      PROVE  /\ done[k] = SetWatch(s, done[k - 1], todo[k]) /\ k - 1 \in 0 .. N - 1
             /\ \E kind \in {"data", "exist", "list"} : \E path : todo[k] = <<kind, path>>
  <2>1. todo[k] \in WatchesOf(s)
    BY <1>1, <1>3, ElementOfSeq
  <2>. QED BY <1>1, <1>2, <1>3, <2>1 DEF WatchesOf
<1> DEFINE S == {k \in 0 .. N : IsState(done[k])}
<1>4. \A k \in 0 .. N : IsState(done[k])
  <2>1. 0 \in S
    BY <1>1, <1>2, FiredState
  <2>2. ASSUME NEW k \in 0 .. N - 1, k \in S PROVE k + 1 \in S
    <3>1. k + 1 \in 1 .. N /\ (k + 1) - 1 = k /\ k + 1 \in 0 .. N
      BY <1>2
    <3>2. done[k + 1] = SetWatch(s, done[k], todo[k + 1])
      BY <1>3, <3>1
    <3>3. PICK kind, path : /\ kind \in {"data", "exist", "list"}
                            /\ todo[k + 1] = <<kind, path>>
      BY <1>3, <3>1
    <3>4. IsState(done[k + 1])
      BY <2>2, <3>2, <3>3, SetWatchState
    <3>. QED BY <3>1, <3>4
  <2> HIDE DEF S, N
  <2>3. \A k \in 0 .. N : k \in S
    BY <1>2, <2>1, <2>2, UpTo
  <2>. QED BY <2>3 DEF S
(* From some step on, nothing about an absent node is forgotten.           *)
<1>5. ASSUME NEW t \in SessionIds, NEW p, ~Exists(p), NEW a \in 0 .. N, Told(done[a], t, p)
      PROVE  Told(done[N], t, p)
  <2> DEFINE T == {k \in 0 .. N : Told(done[k], t, p)}
  <2>1. a \in T
    BY <1>5
  <2>2. ASSUME NEW k \in a .. N - 1, k \in T PROVE k + 1 \in T
    <3>1. k + 1 \in 1 .. N /\ (k + 1) - 1 = k /\ k + 1 \in 0 .. N /\ k \in 0 .. N
      BY <1>2
    <3>2. done[k + 1] = SetWatch(s, done[k], todo[k + 1])
      BY <1>3, <3>1
    <3>3. PICK kind, path : /\ kind \in {"data", "exist", "list"}
                            /\ todo[k + 1] = <<kind, path>>
      BY <1>3, <3>1
    <3>4. IsState(done[k]) /\ Told(done[k], t, p)
      BY <1>4, <2>2, <3>1
    <3>5. Told(SetWatch(s, done[k], <<kind, path>>), t, p)
      BY <1>5, <3>3, <3>4, SetWatchTold
    <3>. QED BY <3>1, <3>2, <3>3, <3>5
  <2>3. a \in Int /\ N \in Int /\ N \in a .. N
    BY <1>2
  <2> HIDE DEF T, N
  <2>4. \A k \in a .. N : k \in T
    BY <2>1, <2>2, <2>3, FromTo
  <2>. QED BY <2>3, <2>4 DEF T
<1>6. ASSUME NEW t, NEW p, NEW a \in 0 .. N, Noted(done[a].notes, t, p, DataEvents)
      PROVE  Noted(done[N].notes, t, p, DataEvents)
  <2> DEFINE T == {k \in 0 .. N : Noted(done[k].notes, t, p, DataEvents)}
  <2>1. a \in T
    BY <1>6
  <2>2. ASSUME NEW k \in a .. N - 1, k \in T PROVE k + 1 \in T
    <3>1. k + 1 \in 1 .. N /\ (k + 1) - 1 = k /\ k + 1 \in 0 .. N /\ k \in 0 .. N
      BY <1>2
    <3>2. done[k + 1] = SetWatch(s, done[k], todo[k + 1])
      BY <1>3, <3>1
    <3>3. PICK kind, path : /\ kind \in {"data", "exist", "list"}
                            /\ todo[k + 1] = <<kind, path>>
      BY <1>3, <3>1
    <3>4. IsState(done[k]) /\ Noted(done[k].notes, t, p, DataEvents)
      BY <1>4, <2>2, <3>1
    <3>5. done[k].notes \subseteq SetWatch(s, done[k], <<kind, path>>).notes
      BY <3>3, <3>4, SetWatchTold
    <3>. QED BY <3>1, <3>2, <3>3, <3>4, <3>5 DEF Noted
  <2>3. a \in Int /\ N \in Int /\ N \in a .. N
    BY <1>2
  <2> HIDE DEF T, N
  <2>4. \A k \in a .. N : k \in T
    BY <2>1, <2>2, <2>3, FromTo
  <2>. QED BY <2>3, <2>4 DEF T
<1>7. ASSUME NEW p \in ExistOf(s), ~Noted(done[N].notes, s, p, DataEvents)
      PROVE  ~Exists(p) /\ Told(done[N], s, p)
  <2>1. PICK k \in 1 .. N : todo[k] = <<"exist", p>>
    BY <1>1
  <2>2. done[k] = SetWatch(s, done[k - 1], <<"exist", p>>) /\ k - 1 \in 0 .. N - 1
    BY <1>3, <2>1
  <2>3. IsState(done[k - 1]) /\ k \in 0 .. N
    BY <1>2, <1>4, <2>1, <2>2
  <2>4. /\ Exists(p) => Noted(done[k].notes, s, p, DataEvents)
        /\ Told(done[k], s, p)
    BY <2>2, <2>3, SetWatchTold
  <2>5. ~Exists(p)
    BY <1>6, <1>7, <2>3, <2>4
  <2>. QED BY <1>5, <2>3, <2>4, <2>5
<1>8. ASSUME NEW t \in SessionIds, Watching(t)', NEW p \in DOMAIN client_data'[t],
             client_data'[t][p] = Absent
      PROVE  StillAbsent(p)' /\ t \in At(watches', p)
  <2>1. t \in connected /\ (t = s \/ Watching(t)) /\ Deliver(done[N])
    BY <1>1, <1>2, <1>8 DEF Watching
  <2>2. /\ watches' = done[N].w /\ p \in DOMAIN client_data[t] /\ client_data[t][p] = Absent
        /\ ~Noted(done[N].notes, t, p, DataEvents)
    BY <1>8, <2>1, Delivered DEF Kept
  <2>3. ~Exists(p) /\ Told(done[N], t, p)
    <3>1. CASE t = s
      <4>1. p \in ExistOf(s)
        BY <2>2, <3>1 DEF ExistOf
      <4>. QED BY <1>7, <2>2, <3>1, <4>1
    <3>2. CASE Watching(t)
      <4>1. ~Exists(p) /\ t \in At(watches, p)
        BY <2>2, <3>2 DEF AbsentOK, StillAbsent
      <4>2. Told(done[0], t, p) /\ 0 \in 0 .. N
        BY <1>1, <1>2, <4>1 DEF Told, Unfired
      <4>. QED BY <1>5, <4>1, <4>2
    <3>. QED BY <2>1, <3>1, <3>2
  <2>4. t \in At(watches', p)
    BY <2>2, <2>3 DEF Told
  <2>5. ~Exists(p)' /\ NotRestored(p)'
    BY <1>2, <2>3 DEF Exists, NotRestored
  <2>. QED BY <2>4, <2>5 DEF StillAbsent
<1>. QED BY <1>8 DEF AbsentOK

LEMMA AbsentNext ==
  ASSUME CreationsLookedFor, AbsentOK, MultiKnown, StoreInv, StoreInv', [StoreNext]_storeVars
  PROVE  AbsentOK'
<1>0. sessions \subseteq SessionIds /\ StoreTypes /\ TreeInv /\ ScenarioOK
  BY SessionsAreIds DEF TreeInv, StoreInv
(* Clients and watches as they were.                                       *)
<1>1. ASSUME UNCHANGED <<watches, client_data>>, NEW t \in SessionIds, Watching(t),
             NEW p \in DOMAIN client_data'[t], client_data'[t][p] = Absent,
             StillAbsent(p) => StillAbsent(p)'
      PROVE  StillAbsent(p)' /\ t \in At(watches', p)
  BY <1>1 DEF AbsentOK
<1>2. ASSUME UNCHANGED <<container, multi>>, NEW p, StillAbsent(p)
      PROVE  StillAbsent(p)'
  BY <1>2 DEF StillAbsent, NotRestored, Exists
<1>3. ASSUME StoreNewSession, NEW t \in SessionIds, Watching(t)',
             NEW p \in DOMAIN client_data'[t], client_data'[t][p] = Absent
      PROVE  StillAbsent(p)' /\ t \in At(watches', p)
  <2>1. /\ UNCHANGED <<watches, client_data, container, multi, resubmitting>>
        /\ connected' = connected \cup {session_id_counter}
    BY <1>3 DEF StoreNewSession, NewSession, watchVars
  <2>2. t # session_id_counter
    <3>1. session_id_counter \in Nat
      BY <1>0 DEF TreeInv, SessionsOK
    <3>2. ClientOK(t)
      BY <1>0 DEF StoreTypes
    <3>. QED BY <1>3, <2>1, <3>1, <3>2 DEF ClientOK
  <2>3. Watching(t)
    BY <1>3, <2>1, <2>2 DEF Watching
  <2>. QED BY <1>1, <1>2, <1>3, <2>1, <2>3
<1>4. ASSUME QuietStep, NEW t \in SessionIds, Watching(t)',
             NEW p \in DOMAIN client_data'[t], client_data'[t][p] = Absent
      PROVE  StillAbsent(p)' /\ t \in At(watches', p)
  <2>1. UNCHANGED <<watches, client_data, resubmitting, connected>>
    BY <1>4 DEF QuietStep, Quiet, watchVars
  <2>2. Watching(t)
    BY <1>4, <2>1 DEF Watching
  <2>3. ASSUME StillAbsent(p) PROVE StillAbsent(p)'
    <3>1. CASE UNCHANGED <<container, multi>>
      BY <1>2, <2>3, <3>1
    <3>2. CASE MultiStep \/ MultiFail \/ MultiUndo
      <4>1. \A reqs \in scenario.multis : \A i \in 1 .. Len(reqs) : reqs[i].op # "create"
        <5>1. ClientOK(t) /\ p \in DOMAIN client_data[t]
          BY <1>0, <1>4, <2>1 DEF StoreTypes
        <5>2. scenario.paths # {}
          BY <5>1 DEF ClientOK
        <5>. QED BY <1>0, <5>2 DEF CreationsLookedFor, ScenarioOK
      <4>. QED BY <1>0, <2>3, <3>2, <4>1, MultiStaysAbsent
    <3>3. ASSUME NEW s \in SessionIds, NEW reqs \in scenario.multis, MultiStart(s, reqs)
          PROVE  StillAbsent(p)'
      <4>1. container' = container /\ multi'.undo_actions = <<>>
        BY <3>3 DEF MultiStart
      <4>. QED BY <2>3, <4>1 DEF StillAbsent, NotRestored, Exists
    <3>4. CASE MultiEnd
      BY <2>3, <3>4 DEF MultiEnd, StillAbsent, NotRestored, Exists
    <3>. QED BY <1>4, <3>1, <3>2, <3>3, <3>4 DEF QuietStep, StoreMulti, treeVars
  <2>. QED BY <1>1, <1>4, <2>1, <2>2, <2>3
(* What is fired reaches those whose watch goes.                           *)
<1>5. ASSUME NEW st, NEW ss, Deliver(st), Tells(st, ss), UNCHANGED multi,
             NEW t \in SessionIds, t \in ss, Watching(t),
             NEW p \in DOMAIN client_data'[t], client_data'[t][p] = Absent,
             Exists(p)' /\ ~Exists(p) /\ t \in At(watches, p) =>
               Noted(st.notes, t, p, DataEvents)
      PROVE  StillAbsent(p)' /\ t \in At(watches', p)
  <2>1. /\ watches' = st.w /\ p \in DOMAIN client_data[t] /\ client_data[t][p] = Absent
        /\ ~Noted(st.notes, t, p, DataEvents)
    BY <1>5, Delivered DEF Kept, Watching
  <2>2. StillAbsent(p) /\ t \in At(watches, p)
    BY <1>5, <2>1 DEF AbsentOK
  <2>3. t \in At(watches', p)
    BY <1>5, <2>1, <2>2 DEF Tells
  <2>4. ~Exists(p)'
    BY <1>5, <2>1, <2>2 DEF StillAbsent
  <2>. QED BY <1>5, <2>2, <2>3, <2>4 DEF StillAbsent, NotRestored
<1>6. ASSUME NEW s \in SessionIds, StoreClose(s), NEW t \in SessionIds, Watching(t)',
             NEW p \in DOMAIN client_data'[t], client_data'[t][p] = Absent
      PROVE  StillAbsent(p)' /\ t \in At(watches', p)
  <2> DEFINE fired == ProcessWatches(Unfired, ephemerals[s], "DELETED")
             last  == ClearDeadWatches(fired, s)
  <2>1. /\ Deliver(last) /\ connected' = connected \ {s} /\ Close(s)
        /\ resubmitting' = resubmitting \ {s} /\ UNCHANGED multi
    BY <1>6 DEF StoreClose, Close
  <2>2. Tells(last, SessionIds \ {s})
    <3>1. IsState(fired)
      BY FiredState
    <3>2. Tells(fired, SessionIds)
      BY ProcessedTells DEF DataEvents
    <3> HIDE DEF fired
    <3>. QED BY <3>1, <3>2, ClearedTells
  <2>3. Watching(t) /\ t \in SessionIds \ {s}
    BY <1>6, <2>1 DEF Watching
  <2>4. Exists(p)' => Exists(p)
    BY <1>0, <2>1, CloseEffect
  <2> HIDE DEF last
  <2>. QED BY <1>5, <1>6, <2>1, <2>2, <2>3, <2>4
<1>7. ASSUME NEW s \in SessionIds, Disconnect(s) \/ Reconnect(s),
             NEW t \in SessionIds, Watching(t)',
             NEW p \in DOMAIN client_data'[t], client_data'[t][p] = Absent
      PROVE  StillAbsent(p)' /\ t \in At(watches', p)
  <2>1. /\ UNCHANGED <<watches, client_data, container, multi>>
        /\ connected' \ resubmitting' \subseteq connected \ resubmitting
    BY <1>7 DEF Disconnect, Reconnect, watchVars, treeVars
  <2>2. Watching(t)
    BY <1>7, <2>1 DEF Watching
  <2>. QED BY <1>1, <1>2, <1>7, <2>1, <2>2
<1>8. ASSUME NEW s \in SessionIds, NEW req \in scenario.requests, StoreProcess(s, req),
             NEW t \in SessionIds, Watching(t)',
             NEW p \in DOMAIN client_data'[t], client_data'[t][p] = Absent
      PROVE  StillAbsent(p)' /\ t \in At(watches', p)
  <2>1. /\ UNCHANGED <<multi, connected, resubmitting>> /\ Process(s, req)
        /\ Deliver(Fired(req))
    BY <1>8 DEF StoreProcess, Process, FireWatches, Fired
  <2>2. req \in Requests /\ IsRequest(req)
    BY <1>0, ScenarioAssumption, RequestAssumption DEF ScenarioOK
  <2>3. Watching(t)
    BY <1>8, <2>1 DEF Watching
  <2>4. ASSUME Exists(p)', ~Exists(p), t \in At(watches, p)
        PROVE  Noted(Fired(req).notes, t, p, DataEvents)
    <3>1. req.op = "create" /\ p = PathCreated(req)
      BY <1>0, <2>1, <2>2, <2>4, ProcessEffect DEF Changes
    <3>2. p \in scenario.paths
      <4>1. p \in DOMAIN client_data[t]
        BY <1>8, <2>1, Delivered DEF Kept
      <4>. QED BY <1>0, <4>1 DEF StoreTypes, ClientOK
    <3>3. p = req.path
      <4>1. CASE ~req.sequential
        BY <3>1, <4>1 DEF PathCreated
      <4>2. CASE req.sequential
        <5>1. GetBaseName(p)[2] = NoSeq
          BY <1>0, <3>1, <3>2, <4>2 DEF CreationsLookedFor, ScenarioOK
        <5> DEFINE parent == ParentPath(req.path)
                   n      == container[parent].cversion
                   b      == GetBaseName(req.path)[1]
        <5>2. parent \in DOMAIN container
          BY <2>1, <3>1 DEF Process, ErrorCode, CreateError, Exists
        <5>3. parent \in Seq(Names) /\ n \in Nat
          BY <1>0, <5>2 DEF TreeInv, TreeOK, GoodTree, NodeOK, Node
        <5>4. p = Append(parent, <<b, n>>)
          BY <3>1, <4>2 DEF PathCreated
        <5>5. b \in STRING /\ <<b, n>> \in Names
          BY <2>2, <3>1, <5>3 DEF IsRequest, Names
        <5> HIDE DEF parent, n, b
        <5>6. GetBaseName(p) = <<b, n>>
          BY <5>3, <5>4, <5>5, PathAppend
        <5>. QED BY <5>1, <5>3, <5>6 DEF NoSeq
      <4>. QED BY <2>2, <3>1, <4>1, <4>2 DEF IsRequest
    <3>. QED BY <2>4, <3>1, <3>3, FiredChanges
  <2>. QED BY <1>5, <1>8, <2>1, <2>3, <2>4, FiredTells
<1>9. ASSUME NEW s \in SessionIds, NEW op, NEW path, ReadWatch(s, op, path),
             NEW t \in SessionIds, Watching(t)',
             NEW p \in DOMAIN client_data'[t], client_data'[t][p] = Absent
      PROVE  StillAbsent(p)' /\ t \in At(watches', p)
  <2>1. UNCHANGED <<multi, container, connected, resubmitting>> /\ multi = Idle
    BY <1>9 DEF ReadWatch, ReadServed, treeVars
  <2>2. Watching(t)
    BY <1>9, <2>1 DEF Watching
  <2>3. CASE op = "list"
    <3>1. UNCHANGED <<watches, client_data>>
      BY <1>9, <2>3 DEF ReadWatch
    <3>. QED BY <1>1, <1>2, <1>9, <2>1, <2>2, <3>1
  <2>4. CASE op # "list"
    <3>1. /\ watches' = AddWatch(watches, path, s)
          /\ client_data' = [client_data EXCEPT ![s] = Put(@, path, Mzxid(path))]
      BY <1>9, <2>4 DEF ReadWatch
    <3>2. At(watches', p) = At(watches, p) \cup (IF p = path THEN {s} ELSE {})
      BY <3>1, AddWatchAt
    <3>3. CASE t = s /\ p = path
      <4>1. Mzxid(p) = Absent
        BY <1>0, <1>9, <3>1, <3>3 DEF StoreTypes, Put
      <4>2. ~Exists(p)
        BY <1>0, <4>1, MzxidType
      <4>3. StillAbsent(p)'
        BY <2>1, <4>2 DEF StillAbsent, NotRestored, Exists
      <4>. QED BY <3>2, <3>3, <4>3
    <3>4. CASE ~(t = s /\ p = path)
      <4>1. p \in DOMAIN client_data[t] /\ client_data[t][p] = Absent
        BY <1>0, <1>9, <3>1, <3>4 DEF StoreTypes, Put
      <4>2. StillAbsent(p) /\ t \in At(watches, p)
        BY <2>2, <4>1 DEF AbsentOK
      <4>. QED BY <1>2, <2>1, <3>2, <4>2
    <3>. QED BY <3>3, <3>4
  <2>. QED BY <2>3, <2>4
<1>10. ASSUME \/ StoreNewSession
              \/ QuietStep
              \/ \E s \in SessionIds :
                   \/ StoreClose(s) \/ Disconnect(s) \/ Reconnect(s)
                   \/ \E req \in scenario.requests : StoreProcess(s, req)
                   \/ \E op \in ReadOps, path \in scenario.paths : ReadWatch(s, op, path)
       PROVE  AbsentOK'
  <2> SUFFICES ASSUME NEW t \in SessionIds, Watching(t)',
                      NEW p \in DOMAIN client_data'[t], client_data'[t][p] = Absent
               PROVE  StillAbsent(p)' /\ t \in At(watches', p)
    BY DEF AbsentOK
  <2>. QED BY <1>3, <1>4, <1>6, <1>7, <1>8, <1>9, <1>10
<1>. QED BY <1>10, StoreSteps, SetWatchesAbsent

(* A client that watches and was not notified would read now what it has   *)
(* read, and a client that waits for a node is told of its creation, also  *)
(* of one that happened while it had no connection: provided creations do  *)
(* not come in a Multi, which fires no watch, and numbered nodes are not   *)
(* waited for by name.                                                     *)
THEOREM WatchersInformedHolds == CreationsLookedFor => (StoreSpec => []WatchersInformed)
<1> SUFFICES ASSUME CreationsLookedFor PROVE StoreSpec => []WatchersInformed
  OBVIOUS
<1>1. StoreInit => SeenOK /\ SteadyOK /\ AbsentOK /\ MultiKnown
  BY DEF StoreInit, Init, SteadyOK, SeenOK, AbsentOK, MultiKnown, Watching
<1>2. /\ SteadyOK /\ SeenOK /\ AbsentOK /\ MultiKnown
      /\ StoreInv /\ StoreInv' /\ [StoreNext]_storeVars
      => SteadyOK' /\ SeenOK' /\ AbsentOK' /\ MultiKnown'
  BY SteadyNext, SeenNext, AbsentNext, MultiKnownNext
<1>3. ASSUME SeenOK, SteadyOK, AbsentOK, StoreInv PROVE WatchersInformed
  <2> SUFFICES ASSUME NEW s \in SessionIds, Watching(s), multi = Idle
               PROVE  /\ \A path \in DOMAIN client_data[s] :
                           Steady \/ client_data[s][path] = Absent =>
                             client_data[s][path] = Mzxid(path)
                      /\ \A path \in DOMAIN client_list[s] :
                           Steady /\ Exists(path) =>
                             client_list[s][path] = container[path].children
    BY DEF WatchersInformed
  <2>1. \A path \in DOMAIN client_data[s] :
          client_data[s][path] = Absent => Mzxid(path) = Absent
    BY <1>3 DEF AbsentOK, StillAbsent, Mzxid
  <2>2. Steady => SeesData(s) /\ SeesChildren(s)
    BY <1>3 DEF SeenOK, SteadyOK, Watching
  <2>. QED BY <2>1, <2>2 DEF SeesData, SeesChildren, ChildrenAt
<1>. QED BY <1>1, <1>2, <1>3, StoreInvAlways, PTL DEF StoreSpec
=============================================================================
