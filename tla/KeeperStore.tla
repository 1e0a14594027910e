----------------------------- MODULE KeeperStore -----------------------------
(***************************************************************************)
(* KeeperStore::processRequest: the data tree together with the watches of *)
(* its clients (Service/KeeperStore.{h,cpp}).  A read may leave a watch, a *)
(* write fires the watches on what it changes, a client that reconnects    *)
(* resubmits the watches it still waits for with SetWatches, and Close     *)
(* clears the watches of the session.                                      *)
(*                                                                         *)
(* The clients are part of the model: a client remembers what it read when *)
(* it left a watch, until the watch fires.  A notification for a client    *)
(* that is disconnected is lost.                                           *)
(***************************************************************************)
EXTENDS DataTree

(* What the clients of a behaviour do is drawn at the start from Scenarios: *)
(* the requests, Multis and identities they use, the paths they read, how  *)
(* often a connection is lost, and the zxid from which no write starts (a  *)
(* bound, like MaxZxid, which holds for all of them).                      *)
CONSTANT Scenarios

ASSUME ScenarioAssumption ==
  \A sc \in Scenarios : /\ sc.requests \subseteq Requests /\ sc.multis \subseteq Multis
                        /\ sc.ids \subseteq AuthIds
                        /\ sc.losses \in Nat /\ sc.zxids \in Nat

VARIABLES
  watches,                (* path -> sessions with a data or exist watch   *)
  list_watches,           (* path -> sessions with a list watch            *)
  sessions_and_watchers,  (* session -> paths it may have a watch on       *)
  connected,              (* sessions with a connection                    *)
  resubmitting,           (* of them, the ones that still owe SetWatches   *)
  disconnects,            (* connections lost so far                       *)
  scenario,               (* drawn at the start                            *)
  seen,                   (* client: zxid of the last response             *)
  client_data,            (* client: path -> mzxid it saw, or Absent       *)
  client_list             (* client: path -> children it saw               *)

watchVars  == <<watches, list_watches, sessions_and_watchers>>
lossVars   == <<disconnects, scenario>>
clientVars == <<connected, resubmitting, lossVars, seen, client_data, client_list>>
storeVars  == <<treeVars, watchVars, clientVars>>

-----------------------------------------------------------------------------
Absent == -1

Mzxid(path) == IF Exists(path) THEN container[path].mzxid ELSE Absent

At(f, path) == IF path \in DOMAIN f THEN f[path] ELSE {}

(* What firing watches works on: the two maps and the notifications.       *)
Unfired == [w |-> watches, lw |-> list_watches, notes |-> {}]

(* processWatchesImpl, for paths none of which is the parent of another,   *)
(* so that it does not matter which comes first.  A notification is        *)
(* <<session, path, event>>.                                               *)
ProcessWatches(st, paths, event) ==
  LET parents == {ParentPath(path) : path \in paths}
      lists   == CASE event = "CREATED" -> parents
                   [] event = "DELETED" -> paths \cup parents
                   [] OTHER             -> {}
      Type(p) == IF p \in parents THEN "CHILD" ELSE "DELETED"
  IN  [w     |-> Drop(st.w, paths),
       lw    |-> Drop(st.lw, lists),
       notes |-> st.notes
                 \cup {<<n[1], n[2], event>> :
                         n \in {m \in SessionIds \X paths : m[1] \in At(st.w, m[2])}}
                 \cup {<<n[1], n[2], Type(n[2])>> :
                         n \in {m \in SessionIds \X lists : m[1] \in At(st.lw, m[2])}}]

(* A client takes CREATED, CHANGED and DELETED for its data watch on the   *)
(* path, and CHILD and DELETED for its list watch.                         *)
StillWaiting(client, s, notes, events) ==
  Drop(client[s], {path \in DOMAIN client[s] :
                     \E event \in events : <<s, path, event>> \in notes})

Deliver(st) ==
  /\ watches' = st.w
  /\ list_watches' = st.lw
  /\ client_data' = [s \in SessionIds |->
       IF s \notin connected THEN client_data[s]
       ELSE StillWaiting(client_data, s, st.notes, {"CREATED", "CHANGED", "DELETED"})]
  /\ client_list' = [s \in SessionIds |->
       IF s \notin connected THEN client_list[s]
       ELSE StillWaiting(client_list, s, st.notes, {"CHILD", "DELETED"})]

(* A response carries a zxid, which the client remembers if it gets it, for *)
(* the time when it has lost its connection.                               *)
Respond(s, z) ==
  seen' = [seen EXCEPT ![s] =
             IF s \in connected \ resubmitting /\ scenario.losses > 0 THEN z ELSE @]

(* Bound: the writes of the scenario are not used up.                      *)
Writing == zxid < scenario.zxids

-----------------------------------------------------------------------------
StoreInit ==
  /\ Init
  /\ watches               = <<>>
  /\ list_watches          = <<>>
  /\ sessions_and_watchers = [s \in SessionIds |-> {}]
  /\ connected             = {}
  /\ resubmitting          = {}
  /\ disconnects           = 0
  /\ scenario              \in Scenarios
  /\ seen                  = [s \in SessionIds |-> 0]
  /\ client_data           = [s \in SessionIds |-> <<>>]
  /\ client_list           = [s \in SessionIds |-> <<>>]

StoreNewSession ==
  /\ NewSession
  /\ connected' = connected \cup {session_id_counter}
  /\ UNCHANGED <<watchVars, resubmitting, lossVars, seen, client_data, client_list>>

StoreAuth(s, id) ==
  /\ s \in connected
  /\ Auth(s, id)
  /\ Respond(s, zxid)
  /\ UNCHANGED <<watchVars, connected, resubmitting, lossVars, client_data, client_list>>

(* Requests that change nothing but the zxid.                              *)
StoreRefuse(s, reqs) ==
  /\ Writing
  /\ Refuse(s, reqs)
  /\ Respond(s, zxid)
  /\ UNCHANGED <<watchVars, connected, resubmitting, lossVars, client_data, client_list>>

StoreFail(s, req) ==
  /\ Writing
  /\ Fail(s, req)
  /\ Respond(s, zxid)
  /\ UNCHANGED <<watchVars, connected, resubmitting, lossVars, client_data, client_list>>

(* The event a write causes at the path the client named in the request.   *)
EventOf(req) ==
  CASE req.op = "create" -> "CREATED"
    [] req.op = "remove" -> "DELETED"
    [] req.op = "set"    -> "CHANGED"
    [] OTHER             -> "NONE"

(* Watches are looked for only if there is a data watch on that path or a  *)
(* list watch on its parent.                                               *)
HasWatchers(path) ==
  path \in DOMAIN watches \/ ParentPath(path) \in DOMAIN list_watches

(* Mutant of FireWatches: only a data watch on the path makes it look.     *)
MutantFireWatchesData(req) ==
  Deliver(IF EventOf(req) # "NONE" /\ req.path \in DOMAIN watches
            THEN ProcessWatches(Unfired, {req.path}, EventOf(req))
            ELSE Unfired)

FireWatches(req) ==
  Deliver(IF EventOf(req) # "NONE" /\ HasWatchers(req.path)
            THEN ProcessWatches(Unfired, {req.path}, EventOf(req))
            ELSE Unfired)

StoreProcess(s, req) ==
  /\ Writing
  /\ Process(s, req)
  /\ FireWatches(req)
  /\ Respond(s, zxid)
  /\ UNCHANGED <<sessions_and_watchers, connected, resubmitting, lossVars>>

(* A Multi request has no path of its own, so no watch is looked for.      *)
StoreMulti ==
  /\ \/ MultiStep \/ MultiFail \/ MultiUndo
     \/ Writing /\ \E s \in SessionIds, reqs \in scenario.multis : MultiStart(s, reqs)
  /\ UNCHANGED <<watchVars, clientVars>>

StoreMultiEnd ==
  /\ MultiEnd
  /\ Respond(multi.session, zxid)
  /\ UNCHANGED <<watchVars, connected, resubmitting, lossVars, client_data, client_list>>

-----------------------------------------------------------------------------
(***************************************************************************)
(* Get, Exists and List, with or without a watch.  The response carries    *)
(* the counter itself, the zxid of the next write.                         *)
(***************************************************************************)
ReadOk(s, op, path) ==
  \/ op = "exists"
  \/ op \in {"get", "list"} /\ Exists(path) /\ CheckAuth(s, [op |-> op, path |-> path])

ReadServed(s, op, path) ==
  /\ multi = Idle
  /\ s \in sessions
  /\ s \in connected \ resubmitting
  /\ ~Throws([op |-> op, path |-> path])

Read(s, op, path) ==
  /\ ReadServed(s, op, path)
  /\ Respond(s, zxid)
  /\ UNCHANGED <<treeVars, watchVars, connected, resubmitting, lossVars,
                 client_data, client_list>>

AddWatch(m, path, s) == Put(m, path, At(m, path) \cup {s})

ReadWatch(s, op, path) ==
  /\ ReadServed(s, op, path)
  /\ ReadOk(s, op, path)
  /\ Respond(s, zxid)
  /\ sessions_and_watchers' = [sessions_and_watchers EXCEPT ![s] = @ \cup {path}]
  /\ IF op = "list"
       THEN /\ list_watches' = AddWatch(list_watches, path, s)
            /\ client_list' = [client_list EXCEPT ![s] =
                                 Put(@, path, container[path].children)]
            /\ UNCHANGED <<watches, client_data>>
       ELSE /\ watches' = AddWatch(watches, path, s)
            /\ client_data' = [client_data EXCEPT ![s] = Put(@, path, Mzxid(path))]
            /\ UNCHANGED <<list_watches, client_list>>
  /\ UNCHANGED <<treeVars, connected, resubmitting, lossVars>>

-----------------------------------------------------------------------------
(***************************************************************************)
(* Connections, and SetWatches: the data watches, the exist watches, then  *)
(* the list watches of the client, each registered and then fired at once  *)
(* if the server finds that the client has missed something.               *)
(***************************************************************************)
Disconnect(s) ==
  /\ s \in connected
  /\ disconnects < scenario.losses
  /\ disconnects' = disconnects + 1
  /\ connected' = connected \ {s}
  /\ resubmitting' = resubmitting \ {s}
  /\ UNCHANGED <<treeVars, watchVars, scenario, seen, client_data, client_list>>

Reconnect(s) ==
  /\ s \in sessions \ connected
  /\ connected' = connected \cup {s}
  /\ resubmitting' = resubmitting \cup {s}
  /\ UNCHANGED <<treeVars, watchVars, lossVars, seen, client_data, client_list>>

SetDataWatch(s, st, path) ==
  LET reg == [st EXCEPT !.w = AddWatch(@, path, s)]
  IN  IF ~Exists(path) THEN ProcessWatches(reg, {path}, "DELETED")
      ELSE IF container[path].mzxid > seen[s] THEN ProcessWatches(reg, {path}, "CHANGED")
      ELSE reg

SetExistWatch(s, st, path) ==
  LET reg == [st EXCEPT !.w = AddWatch(@, path, s)]
  IN  IF Exists(path) THEN ProcessWatches(reg, {path}, "CREATED") ELSE reg

SetListWatch(s, st, path) ==
  LET reg == [st EXCEPT !.lw = AddWatch(@, path, s)]
  IN  IF ~Exists(path) THEN ProcessWatches(reg, {path}, "DELETED")
      ELSE IF container[path].pzxid > seen[s] THEN ProcessWatches(reg, {path}, "CHILD")
      ELSE reg

(* A watch the client resubmits is <<kind, path>>.                         *)
SetWatch(s, st, watch) ==
  CASE watch[1] = "data"  -> SetDataWatch(s, st, watch[2])
    [] watch[1] = "exist" -> SetExistWatch(s, st, watch[2])
    [] watch[1] = "list"  -> SetListWatch(s, st, watch[2])

(* The orders in which the watches of one kind may come.                   *)
Orders(S) ==
  {f \in [1 .. Cardinality(S) -> S] : \A x \in S : \E i \in 1 .. Cardinality(S) : f[i] = x}

SetWatches(s) ==
  LET exist == {path \in DOMAIN client_data[s] : client_data[s][path] = Absent}
      data  == DOMAIN client_data[s] \ exist
      list  == DOMAIN client_list[s]
  IN  /\ multi = Idle
      /\ s \in sessions
      /\ s \in resubmitting
      /\ \E d \in Orders({"data"} \X data), e \in Orders({"exist"} \X exist),
            l \in Orders({"list"} \X list) :
           LET todo == d \o e \o l
               done[k \in 0 .. Len(todo)] ==
                 IF k = 0 THEN Unfired ELSE SetWatch(s, done[k - 1], todo[k])
           IN  Deliver(done[Len(todo)])
      /\ sessions_and_watchers' =
           [sessions_and_watchers EXCEPT ![s] = @ \cup data \cup exist \cup list]
      /\ resubmitting' = resubmitting \ {s}
      /\ seen' = [seen EXCEPT ![s] = zxid]
      /\ UNCHANGED <<treeVars, connected, lossVars>>

-----------------------------------------------------------------------------
(***************************************************************************)
(* Close: the watches on the ephemeral nodes fire, then clearDeadWatches   *)
(* forgets the watches of the session.                                     *)
(***************************************************************************)
Forget(m, s, paths) ==
  LET left == [path \in DOMAIN m |-> IF path \in paths THEN m[path] \ {s} ELSE m[path]]
  IN  Drop(left, {path \in paths \cap DOMAIN m : left[path] = {}})

(* Mutants of ClearDeadWatches: list watches are left; all the watches of  *)
(* the paths go.                                                           *)
MutantClearDataWatches(st, s) ==
  [st EXCEPT !.w = Forget(@, s, sessions_and_watchers[s])]

MutantClearPaths(st, s) ==
  [st EXCEPT !.w  = Drop(@, sessions_and_watchers[s]),
             !.lw = Drop(@, sessions_and_watchers[s])]

ClearDeadWatches(st, s) ==
  [st EXCEPT !.w  = Forget(@, s, sessions_and_watchers[s]),
             !.lw = Forget(@, s, sessions_and_watchers[s])]

StoreClose(s) ==
  LET fired == ProcessWatches(Unfired, ephemerals[s], "DELETED")
  IN  /\ Writing
      /\ Close(s)
      /\ Deliver(ClearDeadWatches(fired, s))
      /\ sessions_and_watchers' = [sessions_and_watchers EXCEPT ![s] = {}]
      /\ connected' = connected \ {s}
      /\ resubmitting' = resubmitting \ {s}
      /\ UNCHANGED <<lossVars, seen>>

ReadOps == {"get", "exists", "list"}

StoreNext ==
  \/ StoreNewSession
  \/ StoreMulti \/ StoreMultiEnd
  \/ \E s \in SessionIds :
       \/ StoreClose(s) \/ Disconnect(s) \/ Reconnect(s) \/ SetWatches(s)
       \/ \E id \in scenario.ids : StoreAuth(s, id)
       \/ \E req \in scenario.requests :
            StoreRefuse(s, <<req>>) \/ StoreFail(s, req) \/ StoreProcess(s, req)
       \/ \E reqs \in scenario.multis : StoreRefuse(s, reqs)
       \/ \E op \in ReadOps, path \in scenario.paths :
            Read(s, op, path) \/ ReadWatch(s, op, path)

StoreSpec == StoreInit /\ [][StoreNext]_storeVars

-----------------------------------------------------------------------------
Watching(s) == s \in connected \ resubmitting

(* Single requests of clients that keep their connections.                 *)
Steady == scenario.multis = {} /\ scenario.losses = 0

(* A connected client that left a watch and has not been notified would    *)
(* read now what it read then: watches are how clients keep caches and     *)
(* locks, so a missed change is never noticed.  A client that waits for a  *)
(* node is told of its creation also when that happened while it was       *)
(* disconnected.  (The rest is for Steady clients: a Multi fires no watch, *)
(* and SetWatches misses some changes.  The list watch on a node that was  *)
(* removed may be left unfired.)                                           *)
WatchersInformed ==
  \A s \in SessionIds : Watching(s) /\ multi = Idle =>
    /\ \A path \in DOMAIN client_data[s] :
         Steady \/ client_data[s][path] = Absent => client_data[s][path] = Mzxid(path)
    /\ \A path \in DOMAIN client_list[s] :
         Steady /\ Exists(path) => client_list[s][path] = container[path].children

(* No watch is lost: the server knows every watch that a connected client  *)
(* waits for, whatever other sessions do or however they end.  (A client's *)
(* SetWatches can take the data watches of others with it: CHILD fires     *)
(* them instead of its list watch.)                                        *)
WatchesKept ==
  Steady => \A s \in SessionIds : Watching(s) =>
    /\ \A path \in DOMAIN client_data[s] : s \in At(watches, path)
    /\ \A path \in DOMAIN client_list[s] : s \in At(list_watches, path)

(* No session that was closed has a watch left, wherever it came from:     *)
(* clearDeadWatches finds all of them through sessions_and_watchers.       *)
NoDeadWatches ==
  \A path \in DOMAIN watches \cup DOMAIN list_watches :
    At(watches, path) \cup At(list_watches, path) \subseteq sessions
=============================================================================
