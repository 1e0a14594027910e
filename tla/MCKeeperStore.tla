--------------------------- MODULE MCKeeperStore ----------------------------
(* Small instances of KeeperStore.                                         *)
EXTENDS KeeperStore

Name(n) == <<n, NoSeq>>
PathA   == <<Name("a")>>
PathAB  == <<Name("a"), Name("b")>>

CreateReq(path, ephemeral, sequential, acls) ==
  [op |-> "create", path |-> path, ephemeral |-> ephemeral,
   sequential |-> sequential, acls |-> acls]
VersionReq(op, path, version)  == [op |-> op, path |-> path, version |-> version]
SetACLReq(path, version, acls) == [op |-> "setacl", path |-> path,
                                   version |-> version, acls |-> acls]

CreateA   == CreateReq(PathA, FALSE, FALSE, {})
CreateAB  == CreateReq(PathAB, TRUE, FALSE, {})
CreateSeq == CreateReq(PathAB, FALSE, TRUE, {})
CreateEphemeralSeq == CreateReq(PathAB, TRUE, TRUE, {})
CreateBelow == CreateReq(Append(PathAB, Name("c")), FALSE, FALSE, {})
RemoveA   == VersionReq("remove", PathA, AnyVersion)
RemoveAB  == VersionReq("remove", PathAB, AnyVersion)
RemoveSeq == VersionReq("remove", Append(PathA, <<"b", 0>>), AnyVersion)
SetA      == VersionReq("set", PathA, AnyVersion)
CheckA    == VersionReq("check", PathA, 0)

(* ACLs: the owner's alone, through "auth", and read-only for anyone.      *)
Mine     == {[perms |-> Permissions, who |-> "auth"]}
ReadOnly == {[perms |-> {"read"}, who |-> "anyone"]}
Broken   == {[perms |-> {"read"}, who |-> "malformed"]}

CreateMine     == CreateReq(PathA, FALSE, FALSE, Mine)
CreateBroken   == CreateReq(PathA, FALSE, FALSE, Broken)
CreateReadOnly == CreateReq(PathAB, FALSE, FALSE, ReadOnly)

(* Requests on /a, on its child /a/b and on sequential children; Multis    *)
(* with every kind of request, undone from every position by a failing     *)
(* Check, and with requests that act on what an earlier one did.           *)
Writers ==
  [requests |->
     {CreateA, CreateMine, CreateBroken, CreateAB, CreateReadOnly, CreateBelow,
      CreateSeq, RemoveA, RemoveAB, RemoveSeq, SetA,
      SetACLReq(PathA, AnyVersion, Mine), SetACLReq(PathA, 0, ReadOnly),
      VersionReq("getacl", PathA, AnyVersion), VersionReq("sync", PathA, AnyVersion)},
   multis |->
     {<<CreateSeq, SetA, CheckA>>, <<RemoveAB, RemoveA, CreateA, CheckA, CheckA>>,
      <<RemoveAB, CreateEphemeralSeq, SetA, CheckA>>,
      <<CreateA, CreateAB, RemoveAB, RemoveA, CheckA>>,
      <<CreateReadOnly, CheckA, RemoveA>>},
   ids |-> {"alice"}, paths |-> {}, losses |-> 0, zxids |-> 7]

(* Creations, removals and changes of a node and of its ephemeral child.   *)
Connected ==
  [requests |-> {CreateA, CreateAB, RemoveA, RemoveAB, SetA}, multis |-> {}, ids |-> {},
   paths |-> {PathA, PathAB}, losses |-> 0, zxids |-> 5]

(* A node that only its creator may read, changes in Multis, and clients   *)
(* that lose a connection and come back.                                   *)
Reconnecting ==
  [requests |-> {CreateReq(PathA, TRUE, FALSE, Mine), SetA, RemoveA},
   multis |-> {<<SetA, CheckA>>, <<SetA>>}, ids |-> {"alice"},
   paths |-> {PathA}, losses |-> 1, zxids |-> 5]

const_Scenarios == {Writers, Connected, Reconnecting}
const_Requests  == UNION {sc.requests : sc \in const_Scenarios}
const_Multis    == UNION {sc.multis : sc \in const_Scenarios}
=============================================================================
