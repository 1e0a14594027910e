------------------------------ MODULE DataTree ------------------------------
(***************************************************************************)
(* The data tree of a RaftKeeper server (Service/KeeperStore.{h,cpp} and   *)
(* Service/ACLMap.{h,cpp}): znodes, ephemeral nodes, sessions, ACLs, and   *)
(* the write requests that change them, Multi with its undo actions        *)
(* included.  RequestProcessor applies committed requests one at a time,   *)
(* so a request is a step; a Multi is one step per sub-request, because    *)
(* what its undo actions restore is the question.                          *)
(***************************************************************************)
EXTENDS Integers, Sequences, FiniteSets

CONSTANTS
  Requests,      (* the requests clients send                              *)
  Multis,        (* the sequences of requests they send as one Multi       *)
  AuthIds,       (* the identities an Auth request may prove               *)
  MaxSessions,   (* bound: sessions ever created                           *)
  MaxZxid        (* bound: no request starts at this zxid                  *)

ASSUME TreeAssumption == MaxSessions \in Nat /\ MaxZxid \in Nat

VARIABLES
  container,           (* path -> KeeperNode, for the paths that exist     *)
  ephemerals,          (* session -> paths of its ephemeral nodes          *)
  session_id_counter,
  sessions,            (* keys of session_and_timeout                      *)
  session_and_auth,    (* session -> auth ids                              *)
  acl_map,             (* ACLMap                                           *)
  zxid,
  multi                (* the Multi that is being processed, or Idle       *)

treeVars == <<container, ephemerals, session_id_counter, sessions,
              session_and_auth, acl_map, zxid, multi>>

-----------------------------------------------------------------------------
(* A path is the sequence of its names.  A name is a base name and the     *)
(* number a sequential create has appended, or NoSeq.                      *)
NoSeq == -1
Names == STRING \X (Nat \cup {NoSeq})
Root  == <<>>

ParentPath(path)  == IF path = Root THEN Root ELSE SubSeq(path, 1, Len(path) - 1)
GetBaseName(path) == IF path = Root THEN <<"", NoSeq>> ELSE path[Len(path)]

Exists(path) == path \in DOMAIN container

SessionIds == 1 .. MaxSessions
NoOwner    == 0
AnyVersion == -1
Idle       == [at |-> "idle"]

(* An ACL list is a set of permissions given to somebody.  In a request    *)
(* "auth" stands for the identities of the session and "malformed" for a   *)
(* digest that is none.                                                    *)
Permissions == {"create", "delete", "read", "write", "admin"}
OpenACL     == {[perms |-> Permissions, who |-> "anyone"]}

(* What clients send: Create says whether the node is ephemeral and whether *)
(* its name gets a number, and numbers are not written by hand.  A Multi   *)
(* is made of Create, Remove, Set and Check, and does not remove the root. *)
MultiOps == {"create", "remove", "set", "check"}

IsRequest(req) ==
  /\ req.op \in MultiOps \cup {"setacl", "getacl", "sync"}
  /\ req.path \in Seq(Names)
  /\ req.op = "create" => /\ {req.ephemeral, req.sequential} \subseteq BOOLEAN
                          /\ GetBaseName(req.path) \in STRING \X {NoSeq}

ASSUME RequestAssumption ==
  /\ \A req \in Requests : IsRequest(req)
  /\ \A reqs \in Multis :
       /\ Len(reqs) \in Nat
       /\ \A i \in 1 .. Len(reqs) :
            /\ IsRequest(reqs[i])
            /\ reqs[i].op \in MultiOps
            /\ reqs[i].op = "remove" => reqs[i].path # Root

Put(f, key, value) == [x \in DOMAIN f \cup {key} |-> IF x = key THEN value ELSE f[x]]
Drop(f, keys)      == [x \in DOMAIN f \ keys |-> f[x]]

-----------------------------------------------------------------------------
(***************************************************************************)
(* ACLMap: numbers for ACL lists, with a count of the nodes that use each. *)
(***************************************************************************)
KnownACL(m, acls) == {id \in DOMAIN m.num_to_acl : m.num_to_acl[id] = acls}

ConvertACLs(m, acls) ==
  IF acls \in {{}, OpenACL} THEN 0
  ELSE IF KnownACL(m, acls) # {} THEN CHOOSE id \in KnownACL(m, acls) : TRUE
  ELSE m.max_acl_id

AddUsage(m, id) ==
  IF id = 0 THEN m
  ELSE [m EXCEPT !.usage_counter =
          Put(@, id, 1 + IF id \in DOMAIN @ THEN @[id] ELSE 0)]

(* convertACLs and addUsage: a new ACL list gets the next number.          *)
UseACLs(m, acls) ==
  LET id    == ConvertACLs(m, acls)
      added == IF id # m.max_acl_id THEN m
               ELSE [m EXCEPT !.num_to_acl = Put(@, id, acls), !.max_acl_id = @ + 1]
  IN  AddUsage(added, id)

(* The mapping goes with its last usage.                                   *)
RemoveUsage(m, id) ==
  IF id \notin DOMAIN m.usage_counter THEN m
  ELSE IF m.usage_counter[id] = 1
    THEN [m EXCEPT !.num_to_acl = Drop(@, {id}), !.usage_counter = Drop(@, {id})]
  ELSE [m EXCEPT !.usage_counter[id] = @ - 1]

(* fixupACL: "auth" becomes one entry for each identity of the session;    *)
(* nothing valid found, or a malformed digest, makes the list invalid.     *)
FixupACL(acls, ids) ==
  {a \in acls : a.who # "auth"} \cup
  {[perms |-> a.perms, who |-> id] : a \in {b \in acls : b.who = "auth"}, id \in ids}

ValidACL(acls, ids) ==
  /\ \A a \in acls : a.who # "malformed"
  /\ acls # {} => FixupACL(acls, ids) # {}

(* convertNumber                                                           *)
AclOf(node) == IF node.acl_id = 0 THEN OpenACL ELSE acl_map.num_to_acl[node.acl_id]

CheckACL(perms, acls, ids) ==
  \/ acls = {}
  \/ "super" \in ids
  \/ \E a \in acls : a.perms \cap perms # {} /\ a.who \in ids \cup {"anyone"}

-----------------------------------------------------------------------------
(***************************************************************************)
(* What a request is checked for.  checkAuth looks at the node of the      *)
(* request, or at its parent; convertNumber throws for a number it does    *)
(* not know, and the exception ends the request without a response.  Multi *)
(* checks all its requests before it processes the first.                  *)
(***************************************************************************)
NeededPermission ==
  [create |-> {"create"}, remove |-> {"delete"}, set    |-> {"write"},
   check  |-> {"read"},   setacl |-> {"admin"},  getacl |-> {"admin", "read"},
   get    |-> {"read"},   list   |-> {"read"}]

AuthPath(req) ==
  IF req.op \in {"create", "remove"} THEN ParentPath(req.path) ELSE req.path

AclChecked(req) == req.op \in DOMAIN NeededPermission /\ Exists(AuthPath(req))

Throws(req) ==
  /\ AclChecked(req)
  /\ container[AuthPath(req)].acl_id \notin {0} \cup DOMAIN acl_map.num_to_acl

CheckAuth(s, req) ==
  AclChecked(req) => CheckACL(NeededPermission[req.op],
                              AclOf(container[AuthPath(req)]), session_and_auth[s])

Authorised(s, reqs) ==
  \A i \in 1 .. Len(reqs) : ~Throws(reqs[i]) /\ CheckAuth(s, reqs[i])

Denied(s, reqs) ==
  \E i \in 1 .. Len(reqs) :
    /\ ~Throws(reqs[i]) /\ ~CheckAuth(s, reqs[i])
    /\ \A j \in 1 .. (i - 1) : ~Throws(reqs[j])

(***************************************************************************)
(* The error code of a request.                                            *)
(***************************************************************************)
(* The path a create request creates: a sequential one gets the number of  *)
(* children its parent has ever had.                                       *)
PathCreated(req) ==
  IF req.sequential
    THEN Append(ParentPath(req.path),
                <<GetBaseName(req.path)[1], container[ParentPath(req.path)].cversion>>)
    ELSE req.path

CreateError(s, req) ==
  IF ~Exists(ParentPath(req.path)) THEN "ZNONODE"
  ELSE IF container[ParentPath(req.path)].owner # NoOwner THEN "ZNOCHILDRENFOREPHEMERALS"
  ELSE IF Exists(PathCreated(req)) THEN "ZNODEEXISTS"
  ELSE IF GetBaseName(PathCreated(req)) = <<"", NoSeq>> THEN "ZBADARGUMENTS"
  ELSE IF ~ValidACL(req.acls, session_and_auth[s]) THEN "ZINVALIDACL"
  ELSE "ZOK"

BadVersion(req, version) == req.version \notin {AnyVersion, version}

RemoveError(req) ==
  IF ~Exists(req.path) THEN "ZNONODE"
  ELSE IF BadVersion(req, container[req.path].version) THEN "ZBADVERSION"
  ELSE IF container[req.path].children # {} THEN "ZNOTEMPTY"
  ELSE "ZOK"

(* Set and Check                                                           *)
VersionError(req) ==
  IF ~Exists(req.path) THEN "ZNONODE"
  ELSE IF BadVersion(req, container[req.path].version) THEN "ZBADVERSION"
  ELSE "ZOK"

SetACLError(s, req) ==
  IF ~Exists(req.path) THEN "ZNONODE"
  ELSE IF BadVersion(req, container[req.path].aversion) THEN "ZBADVERSION"
  ELSE IF ~ValidACL(req.acls, session_and_auth[s]) THEN "ZINVALIDACL"
  ELSE "ZOK"

ErrorCode(s, req) ==
  CASE req.op = "create"           -> CreateError(s, req)
    [] req.op = "remove"           -> RemoveError(req)
    [] req.op \in {"set", "check"} -> VersionError(req)
    [] req.op = "setacl"           -> SetACLError(s, req)
    [] req.op = "getacl"           -> IF Exists(req.path) THEN "ZOK" ELSE "ZNONODE"
    [] req.op = "sync"             -> "ZOK"

-----------------------------------------------------------------------------
(***************************************************************************)
(* What a request does when its error code is ZOK, with the zxid z.        *)
(***************************************************************************)
NewNode(z, owner, acl_id) ==
  [version |-> 0, cversion |-> 0, aversion |-> 0, numChildren |-> 0,
   children |-> {}, mzxid |-> z, pzxid |-> z, owner |-> owner, acl_id |-> acl_id]

Create(s, req, z) ==
  LET path   == PathCreated(req)
      parent == ParentPath(req.path)
      acls   == FixupACL(req.acls, session_and_auth[s])
      owner  == IF req.ephemeral THEN s ELSE NoOwner
  IN  /\ acl_map' = UseACLs(acl_map, acls)
      /\ container' =
           Put([container EXCEPT ![parent].children    = @ \cup {GetBaseName(path)},
                                 ![parent].cversion    = @ + 1,
                                 ![parent].numChildren = @ + 1,
                                 ![parent].pzxid       = z],
               path, NewNode(z, owner, ConvertACLs(acl_map, acls)))
      /\ ephemerals' = IF req.ephemeral
                         THEN [ephemerals EXCEPT ![s] = @ \cup {path}]
                         ELSE ephemerals

(* Mutant of Remove: the parent's cversion follows its number of children. *)
MutantRemoveCversion(req, z) ==
  LET node   == container[req.path]
      parent == ParentPath(req.path)
  IN  /\ acl_map' = RemoveUsage(acl_map, node.acl_id)
      /\ container' =
           Drop([container EXCEPT ![parent].children    = @ \ {GetBaseName(req.path)},
                                  ![parent].cversion    = @ - 1,
                                  ![parent].numChildren = @ - 1,
                                  ![parent].pzxid       = z],
                {req.path})
      /\ ephemerals' = IF node.owner = NoOwner THEN ephemerals
                       ELSE [ephemerals EXCEPT ![node.owner] = @ \ {req.path}]

Remove(req, z) ==
  LET node   == container[req.path]
      parent == ParentPath(req.path)
  IN  /\ acl_map' = RemoveUsage(acl_map, node.acl_id)
      /\ container' =
           Drop([container EXCEPT ![parent].children    = @ \ {GetBaseName(req.path)},
                                  ![parent].numChildren = @ - 1,
                                  ![parent].pzxid       = z],
                {req.path})
      /\ ephemerals' = IF node.owner = NoOwner THEN ephemerals
                       ELSE [ephemerals EXCEPT ![node.owner] = @ \ {req.path}]

Set(req, z) ==
  /\ container' = [container EXCEPT ![req.path].version = @ + 1,
                                    ![req.path].mzxid   = z]
  /\ UNCHANGED <<ephemerals, acl_map>>

(* Mutant of SetACL: the new number is not counted.                        *)
MutantSetACLUncounted(s, req) ==
  LET acls == FixupACL(req.acls, session_and_auth[s])
      id   == ConvertACLs(acl_map, acls)
  IN  /\ acl_map' = RemoveUsage(UseACLs(acl_map, acls), id)
      /\ container' = [container EXCEPT ![req.path].acl_id   = id,
                                        ![req.path].aversion = @ + 1]
      /\ UNCHANGED ephemerals

(* The number the node had before keeps its usage.                         *)
SetACL(s, req) ==
  LET acls == FixupACL(req.acls, session_and_auth[s])
  IN  /\ acl_map' = UseACLs(acl_map, acls)
      /\ container' = [container EXCEPT ![req.path].acl_id   = ConvertACLs(acl_map, acls),
                                        ![req.path].aversion = @ + 1]
      /\ UNCHANGED ephemerals

Apply(s, req, z) ==
  \/ req.op = "create" /\ Create(s, req, z)
  \/ req.op = "remove" /\ Remove(req, z)
  \/ req.op = "set"    /\ Set(req, z)
  \/ req.op = "setacl" /\ SetACL(s, req)
  \/ req.op \in {"check", "getacl", "sync"} /\ UNCHANGED <<container, ephemerals, acl_map>>

-----------------------------------------------------------------------------
(***************************************************************************)
(* The undo action of a request, recorded before the request is applied.   *)
(***************************************************************************)
UndoOf(s, req) ==
  CASE req.op = "create" ->
         [op |-> "create", path |-> PathCreated(req), session |-> s,
          pzxid |-> container[ParentPath(req.path)].pzxid,
          acl_id |-> ConvertACLs(acl_map, FixupACL(req.acls, session_and_auth[s]))]
    [] req.op = "remove" ->
         [op |-> "remove", path |-> req.path, node |-> container[req.path],
          pzxid |-> container[ParentPath(req.path)].pzxid]
    [] req.op = "set"    -> [op |-> "set", path |-> req.path, node |-> container[req.path]]
    [] req.op = "check"  -> [op |-> "none"]

UndoCreate(u) ==
  LET parent == ParentPath(u.path)
      rest   == Drop(container, {u.path})
  IN  /\ container' = [rest EXCEPT ![parent].children    = @ \ {GetBaseName(u.path)},
                                   ![parent].cversion    = @ - 1,
                                   ![parent].numChildren = @ - 1,
                                   ![parent].pzxid       = u.pzxid]
      /\ acl_map' = RemoveUsage(acl_map, u.acl_id)
      /\ ephemerals' = [ephemerals EXCEPT ![u.session] = @ \ {u.path}]

(* Mutant of UndoRemove: the parent keeps the pzxid of the removal.        *)
MutantUndoRemovePzxid(u) ==
  LET parent   == ParentPath(u.path)
      restored == Put(container, u.path, u.node)
  IN  /\ container' = [restored EXCEPT ![parent].children    = @ \cup {GetBaseName(u.path)},
                                       ![parent].numChildren = @ + 1]
      /\ acl_map' = AddUsage(acl_map, u.node.acl_id)
      /\ ephemerals' = IF u.node.owner = NoOwner THEN ephemerals
                       ELSE [ephemerals EXCEPT ![u.node.owner] = @ \cup {u.path}]

(* Mutant of UndoRemove: the session does not get the node back.           *)
MutantUndoRemoveOwnerless(u) ==
  LET parent   == ParentPath(u.path)
      restored == Put(container, u.path, u.node)
  IN  /\ container' = [restored EXCEPT ![parent].children    = @ \cup {GetBaseName(u.path)},
                                       ![parent].numChildren = @ + 1,
                                       ![parent].pzxid       = u.pzxid]
      /\ acl_map' = AddUsage(acl_map, u.node.acl_id)
      /\ UNCHANGED ephemerals

UndoRemove(u) ==
  LET parent   == ParentPath(u.path)
      restored == Put(container, u.path, u.node)
  IN  /\ container' = [restored EXCEPT ![parent].children    = @ \cup {GetBaseName(u.path)},
                                       ![parent].numChildren = @ + 1,
                                       ![parent].pzxid       = u.pzxid]
      /\ acl_map' = AddUsage(acl_map, u.node.acl_id)
      /\ ephemerals' = IF u.node.owner = NoOwner THEN ephemerals
                       ELSE [ephemerals EXCEPT ![u.node.owner] = @ \cup {u.path}]

UndoSet(u) ==
  /\ container' = Put(container, u.path, u.node)
  /\ UNCHANGED <<ephemerals, acl_map>>

Undo(u) ==
  \/ u.op = "create" /\ UndoCreate(u)
  \/ u.op = "remove" /\ UndoRemove(u)
  \/ u.op = "set"    /\ UndoSet(u)
  \/ u.op = "none"   /\ UNCHANGED <<container, ephemerals, acl_map>>

-----------------------------------------------------------------------------
Init ==
  /\ container          = [path \in {Root} |-> NewNode(0, NoOwner, 0)]
  /\ ephemerals         = [s \in SessionIds |-> {}]
  /\ session_id_counter = 1
  /\ sessions           = {}
  /\ session_and_auth   = [s \in SessionIds |-> {}]
  /\ acl_map            = [num_to_acl |-> <<>>, usage_counter |-> <<>>, max_acl_id |-> 1]
  /\ zxid               = 0
  /\ multi              = Idle

(* getSessionID, called by the commit thread of the state machine, also    *)
(* while the processor thread is in the middle of a Multi.                 *)
NewSession ==
  /\ session_id_counter <= MaxSessions
  /\ sessions' = sessions \cup {session_id_counter}
  /\ session_id_counter' = session_id_counter + 1
  /\ zxid' = zxid + 1
  /\ UNCHANGED <<container, ephemerals, session_and_auth, acl_map, multi>>

(* Every other action is a step of the processor thread, for a session     *)
(* that has not expired: requests of an expired one are ignored.           *)
Serving(s) == multi = Idle /\ s \in sessions /\ zxid < MaxZxid

(* Auth adds an identity; it does not use a zxid.                          *)
Auth(s, id) ==
  /\ multi = Idle
  /\ s \in sessions
  /\ session_and_auth' = [session_and_auth EXCEPT ![s] = @ \cup {id}]
  /\ UNCHANGED <<container, ephemerals, session_id_counter, sessions, acl_map, zxid, multi>>

(* A request, or a Multi, that lacks a permission.                         *)
Refuse(s, reqs) ==
  /\ Serving(s)
  /\ Denied(s, reqs)
  /\ zxid' = zxid + 1
  /\ UNCHANGED <<container, ephemerals, session_id_counter, sessions,
                 session_and_auth, acl_map, multi>>

Fail(s, req) ==
  /\ Serving(s)
  /\ Authorised(s, <<req>>)
  /\ ErrorCode(s, req) # "ZOK"
  /\ zxid' = zxid + 1
  /\ UNCHANGED <<container, ephemerals, session_id_counter, sessions,
                 session_and_auth, acl_map, multi>>

Process(s, req) ==
  /\ Serving(s)
  /\ Authorised(s, <<req>>)
  /\ ErrorCode(s, req) = "ZOK"
  /\ Apply(s, req, zxid)
  /\ zxid' = zxid + 1
  /\ UNCHANGED <<session_id_counter, sessions, session_and_auth, multi>>

(* The ephemeral nodes go; their parents keep pzxid and cversion.          *)
WithoutNodes(gone) ==
  LET Lost(path) == {p \in gone : ParentPath(p) = path}
  IN  [path \in DOMAIN container \ gone |->
         [container[path] EXCEPT
            !.children    = @ \ {GetBaseName(p) : p \in Lost(path)},
            !.numChildren = @ - Cardinality(Lost(path))]]

(* Mutant of Close: the record of the ephemeral nodes is kept.             *)
MutantCloseKeepsRecord(s) ==
  /\ multi = Idle
  /\ zxid < MaxZxid
  /\ container' = WithoutNodes(ephemerals[s])
  /\ sessions' = sessions \ {s}
  /\ session_and_auth' = [session_and_auth EXCEPT ![s] = {}]
  /\ zxid' = zxid + 1
  /\ UNCHANGED <<ephemerals, session_id_counter, acl_map, multi>>

(* Close, which a session may get twice, from its client and from the      *)
(* session cleaner.  The ACLs of its ephemeral nodes keep their usage.     *)
Close(s) ==
  /\ multi = Idle
  /\ zxid < MaxZxid
  /\ container' = WithoutNodes(ephemerals[s])
  /\ ephemerals' = [ephemerals EXCEPT ![s] = {}]
  /\ sessions' = sessions \ {s}
  /\ session_and_auth' = [session_and_auth EXCEPT ![s] = {}]
  /\ zxid' = zxid + 1
  /\ UNCHANGED <<session_id_counter, acl_map, multi>>

(***************************************************************************)
(* Multi: the requests in order, all with the zxid of the start; the first *)
(* that fails makes it run the undo actions, the latest first.             *)
(***************************************************************************)
MultiStart(s, reqs) ==
  /\ Serving(s)
  /\ Authorised(s, reqs)
  /\ multi' = [at |-> "running", session |-> s, requests |-> reqs, zxid |-> zxid,
               undo_actions |-> <<>>, before |-> <<container, ephemerals>>]
  /\ UNCHANGED <<container, ephemerals, session_id_counter, sessions,
                 session_and_auth, acl_map, zxid>>

MultiRequest == multi.requests[Len(multi.undo_actions) + 1]

MultiRunning ==
  /\ multi.at = "running"
  /\ Len(multi.undo_actions) < Len(multi.requests)

MultiStep ==
  /\ MultiRunning
  /\ ErrorCode(multi.session, MultiRequest) = "ZOK"
  /\ Apply(multi.session, MultiRequest, multi.zxid)
  /\ multi' = [multi EXCEPT !.undo_actions =
                 Append(@, UndoOf(multi.session, MultiRequest))]
  /\ UNCHANGED <<session_id_counter, sessions, session_and_auth, zxid>>

MultiFail ==
  /\ MultiRunning
  /\ ErrorCode(multi.session, MultiRequest) # "ZOK"
  /\ multi' = [multi EXCEPT !.at = "undoing"]
  /\ UNCHANGED <<container, ephemerals, session_id_counter, sessions,
                 session_and_auth, acl_map, zxid>>

(* Mutant of MultiUndo: the earliest undo action first.                    *)
MutantMultiUndoForward ==
  /\ multi.at = "undoing"
  /\ multi.undo_actions # <<>>
  /\ Undo(Head(multi.undo_actions))
  /\ multi' = [multi EXCEPT !.undo_actions = Tail(@)]
  /\ UNCHANGED <<session_id_counter, sessions, session_and_auth, zxid>>

MultiUndo ==
  /\ multi.at = "undoing"
  /\ multi.undo_actions # <<>>
  /\ Undo(multi.undo_actions[Len(multi.undo_actions)])
  /\ multi' = [multi EXCEPT !.undo_actions = SubSeq(@, 1, Len(@) - 1)]
  /\ UNCHANGED <<session_id_counter, sessions, session_and_auth, zxid>>

MultiDone ==
  \/ multi.at = "running" /\ Len(multi.undo_actions) = Len(multi.requests)
  \/ multi.at = "undoing" /\ multi.undo_actions = <<>>

(* Mutant of MultiEnd: a Multi uses no zxid.                               *)
MutantMultiEndSameZxid ==
  /\ MultiDone
  /\ multi' = Idle
  /\ UNCHANGED <<container, ephemerals, session_id_counter, sessions,
                 session_and_auth, acl_map, zxid>>

MultiEnd ==
  /\ MultiDone
  /\ multi' = Idle
  /\ zxid' = zxid + 1
  /\ UNCHANGED <<container, ephemerals, session_id_counter, sessions,
                 session_and_auth, acl_map>>

Session(s) ==
  \/ Close(s)
  \/ \E id \in AuthIds : Auth(s, id)
  \/ \E req \in Requests : Refuse(s, <<req>>) \/ Fail(s, req) \/ Process(s, req)
  \/ \E reqs \in Multis : Refuse(s, reqs) \/ MultiStart(s, reqs)

Next ==
  \/ NewSession
  \/ \E s \in SessionIds : Session(s)
  \/ MultiStep \/ MultiFail \/ MultiUndo \/ MultiEnd

Spec == Init /\ [][Next]_treeVars

-----------------------------------------------------------------------------
Node ==
  [version : Nat, cversion : Nat, aversion : Nat, numChildren : Nat,
   children : SUBSET Names, mzxid : Nat, pzxid : Nat,
   owner : SessionIds \cup {NoOwner}, acl_id : Nat]

(* Nodes, sessions and ACL numbers hold what the code's types allow; what  *)
(* is recorded as ephemeral exists, as Close relies on when it looks the   *)
(* nodes up, and no ACL number is above the last one given out.            *)
TypeOK ==
  /\ \A path \in DOMAIN container : path \in Seq(Names) /\ container[path] \in Node
  /\ \A s \in SessionIds : ephemerals[s] \subseteq DOMAIN container
  /\ session_id_counter \in 1 .. MaxSessions + 1
  /\ sessions \subseteq 1 .. session_id_counter - 1
  /\ session_and_auth \in [SessionIds -> SUBSET AuthIds]
  /\ DOMAIN acl_map.num_to_acl \cup DOMAIN acl_map.usage_counter
       \subseteq 1 .. acl_map.max_acl_id - 1
  /\ \A id \in DOMAIN acl_map.usage_counter : acl_map.usage_counter[id] \in Nat \ {0}
  /\ zxid \in Nat
  /\ multi # Idle => /\ multi.session \in sessions
                     /\ multi.requests \in Multis
                     /\ multi.zxid \in 0 .. zxid

(* The tree is a tree at every moment, in the middle of a Multi and of its *)
(* undo actions too: every node but the root has a parent that lists it,   *)
(* no parent is ephemeral, and numChildren, from which the cversion shown  *)
(* to clients is computed, is the number of children.                      *)
TreeConsistent ==
  \A path \in DOMAIN container :
    LET node == container[path] IN
    /\ path # Root =>
         /\ Exists(ParentPath(path))
         /\ container[ParentPath(path)].owner = NoOwner
         /\ GetBaseName(path) \in container[ParentPath(path)].children
    /\ \A name \in node.children : Exists(Append(path, name))
    /\ node.numChildren = Cardinality(node.children)

(* The ephemeral nodes are exactly the ones their sessions are recorded to *)
(* own, and their sessions have not been closed: Close finds all of them.  *)
EphemeralsOwned ==
  /\ \A s \in SessionIds :
       ephemerals[s] = {path \in DOMAIN container : container[path].owner = s}
  /\ \A path \in DOMAIN container : container[path].owner \in sessions \cup {NoOwner}

(* A Multi that fails leaves the nodes and the ephemeral nodes, with their *)
(* versions and stamps, as it found them, whatever its requests did before *)
(* the one that failed.                                                    *)
MultiAtomic ==
  [][multi.at = "undoing" /\ multi' = Idle =>
       multi.before = <<container', ephemerals'>>]_treeVars

(* The next sequential node gets a number above that of every sequential   *)
(* child there is, also after removals and undone Multis.                  *)
SequenceNumbersFresh ==
  \A path \in DOMAIN container \ {Root} :
    GetBaseName(path)[2] < container[ParentPath(path)].cversion

(* No node carries a zxid that another request will still be given: the    *)
(* zxid of a write is later than what anyone has read, though new sessions *)
(* take zxids in the middle of a Multi.                                    *)
StampsBelowZxid ==
  multi = Idle =>
    \A path \in DOMAIN container \ {Root} :
      container[path].mzxid < zxid /\ container[path].pzxid < zxid

(* A node's ACL number is counted at least once for every node that has    *)
(* it, so removeUsage never drops a number that is in use.                 *)
UsageCounted ==
  \A id \in {container[path].acl_id : path \in DOMAIN container} \ {0} :
    /\ id \in DOMAIN acl_map.usage_counter
    /\ Cardinality({path \in DOMAIN container : container[path].acl_id = id})
         <= acl_map.usage_counter[id]
=============================================================================
