--------------------------- MODULE DataTreeProofs ---------------------------
(***************************************************************************)
(* Proofs about the data tree, for any requests, any Multis of any length, *)
(* and any number of sessions.                                             *)
(***************************************************************************)
EXTENDS DataTree, FiniteSetTheorems, SequenceTheorems, TLAPS

-----------------------------------------------------------------------------
(* Paths                                                                   *)

(* A path below the root is its parent's path and its own name.            *)
LEMMA PathSplit ==
  ASSUME NEW path \in Seq(Names), path # Root
  PROVE  /\ ParentPath(path) \in Seq(Names)
         /\ GetBaseName(path) \in Names
         /\ path = Append(ParentPath(path), GetBaseName(path))
         /\ ParentPath(path) # path
<1>1. Len(path) \in Nat \ {0}
  BY EmptySeq DEF Root
<1>2. ParentPath(path) = SubSeq(path, 1, Len(path) - 1) /\ GetBaseName(path) = path[Len(path)]
  BY DEF ParentPath, GetBaseName
<1>3. /\ ParentPath(path) \in Seq(Names)
      /\ Len(ParentPath(path)) = Len(path) - 1
      /\ \A i \in 1 .. Len(path) - 1 : ParentPath(path)[i] = path[i]
  <2>1. \A i \in 1 .. Len(path) - 1 : path[i] \in Names
    BY <1>1, ElementOfSeq
  <2> DEFINE n == Len(path) - 1
  <2>2. n \in Nat /\ 1 \in Int /\ n \in Int
    BY <1>1
  <2> HIDE DEF n
  <2>3. /\ SubSeq(path, 1, n) \in Seq(Names)
        /\ Len(SubSeq(path, 1, n)) = IF 1 <= n THEN n - 1 + 1 ELSE 0
        /\ \A i \in 1 .. n - 1 + 1 : SubSeq(path, 1, n)[i] = path[1 + i - 1]
    <3>1. \A i \in 1 .. n : path[i] \in Names
      BY <2>1 DEF n
    <3>. QED BY <2>2, <3>1, SubSeqProperties
  <2>4. n - 1 + 1 = n /\ \A i \in 1 .. n : 1 + i - 1 = i
    BY <2>2
  <2>5. /\ SubSeq(path, 1, n) \in Seq(Names)
        /\ Len(SubSeq(path, 1, n)) = n
        /\ \A i \in 1 .. n : SubSeq(path, 1, n)[i] = path[i]
    <3> HIDE DEF n
    <3>1. Len(SubSeq(path, 1, n)) = n
      BY <2>2, <2>3
    <3>2. \A i \in 1 .. n : SubSeq(path, 1, n)[i] = path[i]
      BY <2>3, <2>4, Zenon
    <3>. QED BY <2>3, <3>1, <3>2
  <2>. QED BY <1>2, <2>5 DEF n
<1>4. GetBaseName(path) \in Names
  BY <1>1, <1>2, ElementOfSeq
<1>5. path = Append(ParentPath(path), GetBaseName(path))
  BY <1>1, <1>2, <1>3, <1>4
<1>. QED BY <1>1, <1>3, <1>4, <1>5

LEMMA PathAppend ==
  ASSUME NEW path \in Seq(Names), NEW name \in Names
  PROVE  /\ Append(path, name) \in Seq(Names)
         /\ Append(path, name) # Root
         /\ Append(path, name) # path
         /\ ParentPath(Append(path, name)) = path
         /\ GetBaseName(Append(path, name)) = name
<1> DEFINE p == Append(path, name)
<1>1. p \in Seq(Names) /\ Len(p) = Len(path) + 1 /\ p # Root /\ Len(path) \in Nat
  BY DEF Root
<1>2. p # path
  BY <1>1
<1>3. GetBaseName(p) = name
  <2>1. p[Len(path) + 1] = name
    BY AppendProperties
  <2>. QED BY <1>1, <2>1 DEF GetBaseName
<1>4. ParentPath(p) = SubSeq(p, 1, Len(path))
  BY <1>1 DEF ParentPath
<1>5. SubSeq(p, 1, Len(path)) = path
  OBVIOUS
<1>. QED BY <1>1, <1>2, <1>3, <1>4, <1>5

LEMMA ParentOfRoot == ParentPath(Root) = Root
  BY DEF ParentPath

-----------------------------------------------------------------------------
(* The tree                                                                *)

(* What holds of the nodes and of the record of ephemeral nodes between    *)
(* any two requests, those of a Multi included.                            *)
Listed(c, path) ==
  /\ ParentPath(path) \in DOMAIN c
  /\ c[ParentPath(path)].owner = NoOwner
  /\ GetBaseName(path) \in c[ParentPath(path)].children
  /\ GetBaseName(path)[2] < c[ParentPath(path)].cversion

NodeOK(c, path) ==
  /\ path \in Seq(Names)
  /\ c[path] \in Node
  /\ IsFiniteSet(c[path].children)
  /\ c[path].numChildren = Cardinality(c[path].children)
  /\ \A name \in c[path].children : Append(path, name) \in DOMAIN c
  /\ path # Root => Listed(c, path)
  /\ path = Root => c[path].owner = NoOwner

OwnedBy(c, s) == {path \in DOMAIN c : c[path].owner = s}

GoodTree(c, e) ==
  /\ IsFiniteSet(DOMAIN c)
  /\ c = [path \in DOMAIN c |-> c[path]]
  /\ \A path \in DOMAIN c : NodeOK(c, path)
  /\ e = [s \in SessionIds |-> OwnedBy(c, s)]

(* ACL numbers have been given out, zxids have been reached, and owners    *)
(* are sessions.                                                           *)
Bounded(c, ids, z, owners) ==
  \A path \in DOMAIN c :
    /\ c[path].acl_id \in 0 .. ids
    /\ c[path].mzxid <= z
    /\ c[path].pzxid <= z
    /\ c[path].owner \in owners \cup {NoOwner}

-----------------------------------------------------------------------------
(* The changes a request makes, node by node                               *)

(* The node whose child comes or goes.                                     *)
Touch(node, children, cversion, numChildren, z) ==
  [version |-> node.version, cversion |-> cversion, aversion |-> node.aversion,
   numChildren |-> numChildren, children |-> children, mzxid |-> node.mzxid,
   pzxid |-> z, owner |-> node.owner, acl_id |-> node.acl_id]

WithChild(node, name, z) ==
  Touch(node, node.children \cup {name}, node.cversion + 1, node.numChildren + 1, z)

WithoutChild(node, name, z) ==
  Touch(node, node.children \ {name}, node.cversion, node.numChildren - 1, z)

Added(c, path, node, z) ==
  [q \in DOMAIN c \cup {path} |->
     IF q = path THEN node
     ELSE IF q = ParentPath(path) THEN WithChild(c[q], GetBaseName(path), z)
     ELSE c[q]]

Deleted(c, path, z) ==
  [q \in DOMAIN c \ {path} |->
     IF q = ParentPath(path) THEN WithoutChild(c[q], GetBaseName(path), z) ELSE c[q]]

(* The changes an undo action makes.                                       *)
WithoutNewChild(node, name, z) ==
  Touch(node, node.children \ {name}, node.cversion - 1, node.numChildren - 1, z)

WithChildAgain(node, name, z) ==
  Touch(node, node.children \cup {name}, node.cversion, node.numChildren + 1, z)

UnAdded(c, path, z) ==
  [q \in DOMAIN c \ {path} |->
     IF q = ParentPath(path)
       THEN WithoutNewChild(c[q], GetBaseName(path), z)
       ELSE c[q]]

UnDeleted(c, path, node, z) ==
  [q \in DOMAIN c \cup {path} |->
     IF q = path THEN node
     ELSE IF q = ParentPath(path)
       THEN WithChildAgain(c[q], GetBaseName(path), z)
     ELSE c[q]]

(* One node of the tree replaced.                                          *)
Replaced(c, path, node) == [q \in DOMAIN c |-> IF q = path THEN node ELSE c[q]]

LEMMA NodeFields ==
  ASSUME NEW node \in Node
  PROVE  /\ node = [f \in DOMAIN node |-> node[f]]
         /\ DOMAIN node = {"version", "cversion", "aversion", "numChildren", "children",
                           "mzxid", "pzxid", "owner", "acl_id"}
  BY DEF Node

LEMMA TouchType ==
  ASSUME NEW node \in Node, NEW children \in SUBSET Names, NEW cversion \in Nat,
         NEW numChildren \in Nat, NEW z \in Nat
  PROVE  /\ Touch(node, children, cversion, numChildren, z) \in Node
         /\ Touch(node, children, cversion, numChildren, z).children = children
         /\ Touch(node, children, cversion, numChildren, z).cversion = cversion
         /\ Touch(node, children, cversion, numChildren, z).numChildren = numChildren
         /\ Touch(node, children, cversion, numChildren, z).owner = node.owner
         /\ Touch(node, children, cversion, numChildren, z).acl_id = node.acl_id
         /\ Touch(node, children, cversion, numChildren, z).mzxid = node.mzxid
         /\ Touch(node, children, cversion, numChildren, z).pzxid = z
  BY DEF Node, Touch

(* Two changes at the same node are the last one.                          *)
LEMMA TouchTwice ==
  ASSUME NEW node \in Node, NEW children, NEW cversion, NEW numChildren, NEW z
  PROVE  Touch(Touch(node, children, cversion, numChildren, z),
               node.children, node.cversion, node.numChildren, node.pzxid) = node
  BY DEF Node, Touch

(* The nested EXCEPTs of Create, Remove and their undo actions.            *)
ExceptAdd(c, p, name, z) ==
  [c EXCEPT ![p].children    = @ \cup {name},
            ![p].cversion    = @ + 1,
            ![p].numChildren = @ + 1,
            ![p].pzxid       = z]

ExceptDelete(c, p, name, z) ==
  [c EXCEPT ![p].children    = @ \ {name},
            ![p].numChildren = @ - 1,
            ![p].pzxid       = z]

ExceptUnAdd(c, p, name, z) ==
  [c EXCEPT ![p].children    = @ \ {name},
            ![p].cversion    = @ - 1,
            ![p].numChildren = @ - 1,
            ![p].pzxid       = z]

ExceptUnDelete(c, p, name, z) ==
  [c EXCEPT ![p].children    = @ \cup {name},
            ![p].numChildren = @ + 1,
            ![p].pzxid       = z]

LEMMA ExceptAddIs ==
  ASSUME NEW c, c = [q \in DOMAIN c |-> c[q]], NEW p \in DOMAIN c, c[p] \in Node,
         NEW name, NEW z
  PROVE  ExceptAdd(c, p, name, z) = Replaced(c, p, WithChild(c[p], name, z))
<1> DEFINE n == c[p]
           m == [n EXCEPT !.children = @ \cup {name}, !.cversion = @ + 1,
                          !.numChildren = @ + 1, !.pzxid = z]
<1>1. ExceptAdd(c, p, name, z) = Replaced(c, p, m)
  BY DEF Replaced, ExceptAdd
<1>2. m = [f \in DOMAIN n |-> m[f]]
  OBVIOUS
<1>3. /\ m.children = n.children \cup {name} /\ m.cversion = n.cversion + 1
      /\ m.numChildren = n.numChildren + 1 /\ m.pzxid = z
      /\ m.version = n.version /\ m.aversion = n.aversion /\ m.mzxid = n.mzxid
      /\ m.owner = n.owner /\ m.acl_id = n.acl_id
  BY NodeFields
<1>4. m = WithChild(n, name, z)
  <2> HIDE DEF m, n
  <2>. QED BY <1>2, <1>3, NodeFields DEF Touch, WithChild, n
<1>. QED BY <1>1, <1>4

LEMMA ExceptDeleteIs ==
  ASSUME NEW c, c = [q \in DOMAIN c |-> c[q]], NEW p \in DOMAIN c, c[p] \in Node,
         NEW name, NEW z
  PROVE  ExceptDelete(c, p, name, z) = Replaced(c, p, WithoutChild(c[p], name, z))
<1> DEFINE n == c[p]
           m == [n EXCEPT !.children = @ \ {name}, !.numChildren = @ - 1, !.pzxid = z]
<1>1. ExceptDelete(c, p, name, z) = Replaced(c, p, m)
  BY DEF Replaced, ExceptDelete
<1>2. m = [f \in DOMAIN n |-> m[f]]
  OBVIOUS
<1>3. /\ m.children = n.children \ {name} /\ m.cversion = n.cversion
      /\ m.numChildren = n.numChildren - 1 /\ m.pzxid = z
      /\ m.version = n.version /\ m.aversion = n.aversion /\ m.mzxid = n.mzxid
      /\ m.owner = n.owner /\ m.acl_id = n.acl_id
  BY NodeFields
<1>4. m = WithoutChild(n, name, z)
  <2> HIDE DEF m, n
  <2>. QED BY <1>2, <1>3, NodeFields DEF Touch, WithoutChild, n
<1>. QED BY <1>1, <1>4

LEMMA ExceptUnAddIs ==
  ASSUME NEW c, c = [q \in DOMAIN c |-> c[q]], NEW p \in DOMAIN c, c[p] \in Node,
         NEW name, NEW z
  PROVE  ExceptUnAdd(c, p, name, z) = Replaced(c, p, WithoutNewChild(c[p], name, z))
<1> DEFINE n == c[p]
           m == [n EXCEPT !.children = @ \ {name}, !.cversion = @ - 1,
                          !.numChildren = @ - 1, !.pzxid = z]
<1>1. ExceptUnAdd(c, p, name, z) = Replaced(c, p, m)
  BY DEF Replaced, ExceptUnAdd
<1>2. m = [f \in DOMAIN n |-> m[f]]
  OBVIOUS
<1>3. /\ m.children = n.children \ {name} /\ m.cversion = n.cversion - 1
      /\ m.numChildren = n.numChildren - 1 /\ m.pzxid = z
      /\ m.version = n.version /\ m.aversion = n.aversion /\ m.mzxid = n.mzxid
      /\ m.owner = n.owner /\ m.acl_id = n.acl_id
  BY NodeFields
<1>4. m = WithoutNewChild(n, name, z)
  <2> HIDE DEF m, n
  <2>. QED BY <1>2, <1>3, NodeFields DEF Touch, WithoutNewChild, n
<1>. QED BY <1>1, <1>4

LEMMA ExceptUnDeleteIs ==
  ASSUME NEW c, c = [q \in DOMAIN c |-> c[q]], NEW p \in DOMAIN c, c[p] \in Node,
         NEW name, NEW z
  PROVE  ExceptUnDelete(c, p, name, z) = Replaced(c, p, WithChildAgain(c[p], name, z))
<1> DEFINE n == c[p]
           m == [n EXCEPT !.children = @ \cup {name}, !.numChildren = @ + 1, !.pzxid = z]
<1>1. ExceptUnDelete(c, p, name, z) = Replaced(c, p, m)
  BY DEF Replaced, ExceptUnDelete
<1>2. m = [f \in DOMAIN n |-> m[f]]
  OBVIOUS
<1>3. /\ m.children = n.children \cup {name} /\ m.cversion = n.cversion
      /\ m.numChildren = n.numChildren + 1 /\ m.pzxid = z
      /\ m.version = n.version /\ m.aversion = n.aversion /\ m.mzxid = n.mzxid
      /\ m.owner = n.owner /\ m.acl_id = n.acl_id
  BY NodeFields
<1>4. m = WithChildAgain(n, name, z)
  <2> HIDE DEF m, n
  <2>. QED BY <1>2, <1>3, NodeFields DEF Touch, WithChildAgain, n
<1>. QED BY <1>1, <1>4

-----------------------------------------------------------------------------
(* Requests keep the tree a tree                                           *)

AddedTo(e, path, owner) ==
  [s \in SessionIds |-> IF s = owner THEN e[s] \cup {path} ELSE e[s]]

TakenFrom(e, path, owner) ==
  [s \in SessionIds |-> IF s = owner THEN e[s] \ {path} ELSE e[s]]

(* A path that does not exist is not listed by its parent.                 *)
LEMMA NotListed ==
  ASSUME NEW c, NEW e, GoodTree(c, e), NEW path \in Seq(Names), path # Root,
         path \notin DOMAIN c, ParentPath(path) \in DOMAIN c
  PROVE  GetBaseName(path) \notin c[ParentPath(path)].children
<1> SUFFICES ASSUME GetBaseName(path) \in c[ParentPath(path)].children PROVE FALSE
  OBVIOUS
<1>1. Append(ParentPath(path), GetBaseName(path)) \in DOMAIN c
  BY DEF GoodTree, NodeOK
<1>. QED BY <1>1, PathSplit

LEMMA AddedGood ==
  ASSUME NEW c, NEW e, GoodTree(c, e),
         NEW path \in Seq(Names), path # Root, path \notin DOMAIN c,
         ParentPath(path) \in DOMAIN c, c[ParentPath(path)].owner = NoOwner,
         GetBaseName(path)[2] <= c[ParentPath(path)].cversion, GetBaseName(path)[2] \in Int,
         NEW z \in Nat, NEW id \in Nat, NEW owner \in SessionIds \cup {NoOwner}
  PROVE  GoodTree(Added(c, path, NewNode(z, owner, id), z), AddedTo(e, path, owner))
<1> DEFINE parent == ParentPath(path)
           name   == GetBaseName(path)
           node   == NewNode(z, owner, id)
           d      == Added(c, path, node, z)
           f      == AddedTo(e, path, owner)
<1>1. /\ parent \in DOMAIN c /\ parent # path /\ parent \in Seq(Names) /\ name \in Names
      /\ path = Append(parent, name)
  BY PathSplit
<1>2. name \notin c[parent].children
  BY NotListed
<1>3. /\ node \in Node /\ node.children = {} /\ node.numChildren = 0 /\ node.owner = owner
      /\ node.cversion = 0
  BY DEF NewNode, Node
<1>4. c[parent] \in Node /\ IsFiniteSet(c[parent].children)
      /\ c[parent].numChildren = Cardinality(c[parent].children)
  BY DEF GoodTree, NodeOK
<1>5. /\ c[parent].children \cup {name} \in SUBSET Names
      /\ c[parent].cversion \in Nat /\ c[parent].numChildren \in Nat
      /\ c[parent].cversion + 1 \in Nat /\ c[parent].numChildren + 1 \in Nat
      /\ c[parent].owner = NoOwner
  BY <1>1, <1>4 DEF Node
<1>6. /\ WithChild(c[parent], name, z) \in Node
      /\ WithChild(c[parent], name, z).children = c[parent].children \cup {name}
      /\ WithChild(c[parent], name, z).cversion = c[parent].cversion + 1
      /\ WithChild(c[parent], name, z).numChildren = c[parent].numChildren + 1
      /\ WithChild(c[parent], name, z).owner = NoOwner
  <2> HIDE DEF parent, name
  <2>. QED BY <1>4, <1>5, TouchType, SMTT(30) DEF WithChild
<1>7. /\ IsFiniteSet(c[parent].children \cup {name})
      /\ Cardinality(c[parent].children \cup {name}) = c[parent].numChildren + 1
  BY <1>2, <1>4, FS_AddElement
<1>8. /\ DOMAIN d = DOMAIN c \cup {path}
      /\ d = [q \in DOMAIN d |-> d[q]]
      /\ d[path] = node
      /\ d[parent] = WithChild(c[parent], name, z)
      /\ \A q \in DOMAIN c : q # parent => d[q] = c[q]
  BY <1>1 DEF Added
<1> HIDE DEF d, node, parent, name
<1>9. IsFiniteSet(DOMAIN d)
  BY <1>8, FS_AddElement DEF GoodTree
<1>10. ASSUME NEW q \in DOMAIN d, q # Root
       PROVE  Listed(d, q)
  <2>1. CASE q = path
    <3>1. ParentPath(q) = parent /\ GetBaseName(q) = name /\ name[2] < c[parent].cversion + 1
      BY <1>5, <2>1 DEF parent, name
    <3>. QED BY <1>1, <1>6, <1>8, <3>1 DEF Listed
  <2>2. CASE q # path
    <3>1. q \in DOMAIN c /\ Listed(c, q)
      BY <1>8, <1>10, <2>2 DEF GoodTree, NodeOK
    <3>2. CASE ParentPath(q) = parent
      <4>1. q \in Seq(Names) /\ GetBaseName(q) \in Names
        BY <1>10, <3>1, PathSplit DEF GoodTree, NodeOK
      <4>2. GetBaseName(q)[2] \in Int
        BY <4>1 DEF Names, NoSeq
      <4>3. GetBaseName(q)[2] < c[parent].cversion + 1
        BY <1>5, <3>1, <3>2, <4>2 DEF Listed
      <4>. QED BY <1>1, <1>6, <1>8, <3>1, <3>2, <4>3 DEF Listed
    <3>3. CASE ParentPath(q) # parent
      BY <1>8, <3>1, <3>3 DEF Listed
    <3>. QED BY <3>2, <3>3
  <2>. QED BY <2>1, <2>2
<1>11. ASSUME NEW q \in DOMAIN d
       PROVE  NodeOK(d, q)
  <2>1. CASE q = path
    <3>1. IsFiniteSet(node.children) /\ node.numChildren = Cardinality(node.children)
      BY <1>3, FS_EmptySet
    <3>. QED BY <1>3, <1>8, <1>10, <2>1, <3>1 DEF NodeOK
  <2>2. CASE q = parent
    <3>1. \A n \in d[q].children : Append(q, n) \in DOMAIN d
      BY <1>1, <1>6, <1>8, <2>2 DEF GoodTree, NodeOK
    <3>. QED BY <1>1, <1>6, <1>7, <1>8, <1>10, <2>2, <3>1 DEF NodeOK
  <2>3. CASE q # path /\ q # parent
    <3>1. q \in DOMAIN c /\ NodeOK(c, q) /\ d[q] = c[q]
      BY <1>8, <2>3 DEF GoodTree
    <3>. QED BY <1>8, <1>10, <3>1 DEF NodeOK
  <2>. QED BY <2>1, <2>2, <2>3
<1>12. ASSUME NEW s \in SessionIds
       PROVE  f[s] = OwnedBy(d, s)
  <2>1. e[s] = OwnedBy(c, s) /\ s # NoOwner
    BY TreeAssumption DEF GoodTree, SessionIds, NoOwner
  <2>2. \A q \in DOMAIN c : d[q].owner = c[q].owner
    BY <1>5, <1>6, <1>8
  <2>3. OwnedBy(d, s) = IF s = owner THEN OwnedBy(c, s) \cup {path} ELSE OwnedBy(c, s)
    BY <1>3, <1>8, <2>2 DEF OwnedBy
  <2>. QED BY <2>1, <2>3 DEF AddedTo
<1>13. f = [s \in SessionIds |-> OwnedBy(d, s)]
  <2>1. f = [s \in SessionIds |-> f[s]]
    BY DEF AddedTo
  <2> HIDE DEF f
  <2>. QED BY <1>12, <2>1
<1>. QED BY <1>8, <1>9, <1>11, <1>13 DEF GoodTree, d, node

LEMMA DeletedGood ==
  ASSUME NEW c, NEW e, GoodTree(c, e), NEW path \in DOMAIN c, c[path].children = {},
         NEW z \in Nat
  PROVE  GoodTree(Deleted(c, path, z), TakenFrom(e, path, c[path].owner))
<1> DEFINE parent == ParentPath(path)
           name   == GetBaseName(path)
           owner  == c[path].owner
           d      == Deleted(c, path, z)
           f      == TakenFrom(e, path, owner)
<1>1. /\ path \in Seq(Names)
      /\ path # Root => Listed(c, path)
  BY DEF GoodTree, NodeOK
<1>2. path # Root => /\ parent \in DOMAIN c /\ parent # path /\ parent \in Seq(Names)
                     /\ name \in Names /\ path = Append(parent, name)
                     /\ name \in c[parent].children /\ c[parent].owner = NoOwner
  BY <1>1, PathSplit DEF Listed
<1>3. path = Root => parent = path
  BY ParentOfRoot
<1>4. parent \in DOMAIN c
  BY <1>2, <1>3
<1>5. /\ c[parent] \in Node /\ IsFiniteSet(c[parent].children)
      /\ c[parent].numChildren = Cardinality(c[parent].children)
  BY <1>4 DEF GoodTree, NodeOK
<1>6. path # Root =>
        /\ IsFiniteSet(c[parent].children \ {name})
        /\ Cardinality(c[parent].children \ {name}) = c[parent].numChildren - 1
  BY <1>2, <1>5, FS_RemoveElement
<1>7. path # Root => c[parent].numChildren - 1 \in Nat
  BY <1>6, FS_CardinalityType
<1>8. /\ c[parent].children \ {name} \in SUBSET Names /\ c[parent].cversion \in Nat
  BY <1>5 DEF Node
<1>9. path # Root =>
        /\ WithoutChild(c[parent], name, z) \in Node
        /\ WithoutChild(c[parent], name, z).children = c[parent].children \ {name}
        /\ WithoutChild(c[parent], name, z).cversion = c[parent].cversion
        /\ WithoutChild(c[parent], name, z).numChildren = c[parent].numChildren - 1
        /\ WithoutChild(c[parent], name, z).owner = c[parent].owner
  <2> HIDE DEF parent, name
  <2>. QED BY <1>5, <1>7, <1>8, TouchType DEF WithoutChild
<1>10. /\ DOMAIN d = DOMAIN c \ {path}
       /\ d = [q \in DOMAIN d |-> d[q]]
       /\ \A q \in DOMAIN d : q # parent => d[q] = c[q]
       /\ parent \in DOMAIN d => d[parent] = WithoutChild(c[parent], name, z)
       /\ parent \in DOMAIN d => path # Root
  BY <1>3 DEF Deleted
<1> HIDE DEF d, parent, name
<1>11. IsFiniteSet(DOMAIN d)
  BY <1>10, FS_RemoveElement DEF GoodTree
<1>12. ASSUME NEW q \in DOMAIN d, q # Root
       PROVE  Listed(d, q)
  <2>1. q \in DOMAIN c /\ q # path /\ Listed(c, q) /\ q \in Seq(Names)
    BY <1>10, <1>12 DEF GoodTree, NodeOK
  <2>2. ParentPath(q) # path
    BY <2>1 DEF Listed
  <2>3. ParentPath(q) \in DOMAIN d
    BY <1>10, <2>1, <2>2 DEF Listed
  <2>4. CASE ParentPath(q) = parent
    <3>1. path # Root /\ d[parent] = WithoutChild(c[parent], name, z)
      BY <1>10, <2>3, <2>4
    <3>2. GetBaseName(q) # name
      BY <1>2, <1>12, <2>1, <2>4, <3>1, PathSplit DEF name
    <3>. QED BY <1>9, <2>1, <2>3, <2>4, <3>1, <3>2 DEF Listed
  <2>5. CASE ParentPath(q) # parent
    BY <1>10, <2>1, <2>3, <2>5 DEF Listed
  <2>. QED BY <2>4, <2>5
<1>13. ASSUME NEW q \in DOMAIN d
       PROVE  NodeOK(d, q)
  <2>1. q \in DOMAIN c /\ q # path /\ NodeOK(c, q)
    BY <1>10 DEF GoodTree
  <2>2. CASE q = parent
    <3>1. path # Root /\ d[q] = WithoutChild(c[parent], name, z)
      BY <1>10, <2>2
    <3>2. ASSUME NEW n \in d[q].children PROVE Append(q, n) \in DOMAIN d
      <4>1. n \in c[q].children /\ n # name /\ n \in Names
        BY <1>9, <2>2, <3>1, <3>2, <1>8
      <4>2. Append(q, n) \in DOMAIN c
        BY <2>1, <4>1 DEF NodeOK
      <4>3. Append(q, n) # path
        BY <1>2, <2>1, <4>1, PathAppend DEF NodeOK, name
      <4>. QED BY <1>10, <4>2, <4>3
    <3>. QED BY <1>6, <1>9, <1>12, <2>1, <2>2, <3>1, <3>2 DEF NodeOK
  <2>3. CASE q # parent
    <3>1. d[q] = c[q]
      BY <1>10, <2>3
    <3>2. ASSUME NEW n \in d[q].children PROVE Append(q, n) \in DOMAIN d
      <4>1. n \in c[q].children /\ n \in Names /\ Append(q, n) \in DOMAIN c
        BY <2>1, <3>1 DEF NodeOK, Node
      <4>2. Append(q, n) # path
        BY <2>1, <2>3, <4>1, PathAppend DEF NodeOK, parent
      <4>. QED BY <1>10, <4>1, <4>2
    <3>. QED BY <1>12, <2>1, <3>1, <3>2 DEF NodeOK
  <2>. QED BY <2>2, <2>3
<1>14. ASSUME NEW s \in SessionIds
       PROVE  f[s] = OwnedBy(d, s)
  <2>1. e[s] = OwnedBy(c, s)
    BY DEF GoodTree
  <2>2. \A q \in DOMAIN d : d[q].owner = c[q].owner
    BY <1>9, <1>10
  <2>3. OwnedBy(d, s) = OwnedBy(c, s) \ {path}
    BY <1>10, <2>2 DEF OwnedBy
  <2>4. s # owner => OwnedBy(c, s) \ {path} = OwnedBy(c, s)
    BY DEF OwnedBy
  <2>. QED BY <2>1, <2>3, <2>4 DEF TakenFrom
<1>15. f = [s \in SessionIds |-> OwnedBy(d, s)]
  <2>1. f = [s \in SessionIds |-> f[s]]
    BY DEF TakenFrom
  <2> HIDE DEF f
  <2>. QED BY <1>14, <2>1
<1>. QED BY <1>10, <1>11, <1>13, <1>15 DEF GoodTree, d

(* Set and SetACL change a node and leave where it is in the tree.         *)
LEMMA ReplacedGood ==
  ASSUME NEW c, NEW e, GoodTree(c, e), NEW path \in DOMAIN c, NEW node \in Node,
         node.children = c[path].children, node.cversion = c[path].cversion,
         node.numChildren = c[path].numChildren, node.owner = c[path].owner
  PROVE  GoodTree(Replaced(c, path, node), e)
<1> DEFINE d == Replaced(c, path, node)
<1>1. /\ DOMAIN d = DOMAIN c
      /\ d = [q \in DOMAIN d |-> d[q]]
      /\ \A q \in DOMAIN c : /\ d[q].children = c[q].children
                             /\ d[q].cversion = c[q].cversion
                             /\ d[q].numChildren = c[q].numChildren
                             /\ d[q].owner = c[q].owner
                             /\ c[q] \in Node => d[q] \in Node
  BY DEF Replaced
<1> HIDE DEF d
<1>2. ASSUME NEW q \in DOMAIN c PROVE NodeOK(d, q)
  <2>1. NodeOK(c, q)
    BY DEF GoodTree
  <2>2. q # Root => Listed(d, q)
    BY <1>1, <2>1 DEF NodeOK, Listed
  <2>. QED BY <1>1, <2>1, <2>2 DEF NodeOK
<1>3. \A s \in SessionIds : OwnedBy(d, s) = OwnedBy(c, s)
  BY <1>1 DEF OwnedBy
<1>. QED BY <1>1, <1>2, <1>3 DEF GoodTree, d

(* The nodes of one session leave together: the tree loses leaves.         *)
ClosedTree(c, gone) ==
  [path \in DOMAIN c \ gone |->
     [c[path] EXCEPT
        !.children    = @ \ {GetBaseName(p) : p \in {q \in gone : ParentPath(q) = path}},
        !.numChildren = @ - Cardinality({q \in gone : ParentPath(q) = path})]]

LEMMA ClosedGood ==
  ASSUME NEW c, NEW e, GoodTree(c, e), NEW s \in SessionIds
  PROVE  GoodTree(ClosedTree(c, e[s]), [e EXCEPT ![s] = {}])
<1> DEFINE gone    == e[s]
           d       == ClosedTree(c, gone)
           Lost(q) == {p \in gone : ParentPath(p) = q}
           Left(q) == {GetBaseName(p) : p \in Lost(q)}
<1>1. gone = OwnedBy(c, s) /\ s # NoOwner
  BY TreeAssumption DEF GoodTree, SessionIds, NoOwner
<1>2. ASSUME NEW p \in gone
      PROVE  /\ p \in DOMAIN c /\ p # Root /\ p \in Seq(Names) /\ Listed(c, p)
             /\ ParentPath(p) \in Seq(Names) /\ GetBaseName(p) \in Names
             /\ p = Append(ParentPath(p), GetBaseName(p))
  <2>1. p \in DOMAIN c /\ c[p].owner # NoOwner /\ NodeOK(c, p)
    BY <1>1, <1>2 DEF OwnedBy, GoodTree
  <2>. QED BY <2>1, PathSplit DEF NodeOK
<1>3. ASSUME NEW q \in DOMAIN c
      PROVE  /\ IsFiniteSet(c[q].children \ Left(q))
             /\ Cardinality(c[q].children \ Left(q))
                  = c[q].numChildren - Cardinality(Lost(q))
             /\ c[q].numChildren - Cardinality(Lost(q)) \in Nat
  <2>1. c[q] \in Node /\ IsFiniteSet(c[q].children)
        /\ c[q].numChildren = Cardinality(c[q].children)
    BY DEF GoodTree, NodeOK
  <2>2. IsFiniteSet(Lost(q))
    <3>1. Lost(q) \in SUBSET DOMAIN c
      BY <1>2
    <3>. QED BY <3>1, FS_Subset DEF GoodTree
  <2>3. Left(q) \in SUBSET c[q].children
    BY <1>2 DEF Listed
  <2>4. IsFiniteSet(Left(q)) /\ Cardinality(Left(q)) = Cardinality(Lost(q))
    <3> DEFINE base == [p \in Lost(q) |-> GetBaseName(p)]
    <3>1. base \in Bijection(Lost(q), Left(q))
      <4>1. base \in [Lost(q) -> Left(q)]
        OBVIOUS
      <4>2. \A t \in Left(q) : \E p \in Lost(q) : base[p] = t
        OBVIOUS
      <4>3. ASSUME NEW p1 \in Lost(q), NEW p2 \in Lost(q), base[p1] = base[p2]
            PROVE  p1 = p2
        <5>1. GetBaseName(p1) = GetBaseName(p2) /\ ParentPath(p1) = ParentPath(p2)
          BY <4>3
        <5>. QED BY <1>2, <5>1
      <4> HIDE DEF base, Left, Lost
      <4>. QED BY <4>1, <4>2, <4>3 DEF Bijection, Injection, Surjection, IsInjective
    <3>2. ExistsBijection(Lost(q), Left(q))
      BY <3>1 DEF ExistsBijection
    <3> HIDE DEF base, Left, Lost
    <3>. QED BY <2>2, <3>2, FS_Bijection
  <2>5. c[q].children = (c[q].children \ Left(q)) \cup Left(q)
    BY <2>3
  <2>6. IsFiniteSet(c[q].children \ Left(q))
    <3> HIDE DEF Left
    <3>1. c[q].children \ Left(q) \in SUBSET c[q].children
      OBVIOUS
    <3>. QED BY <2>1, <3>1, FS_Subset
  <2>7. Cardinality(c[q].children)
          = Cardinality(c[q].children \ Left(q)) + Cardinality(Left(q))
    <3> DEFINE L == Left(q)
               K == c[q].children \ L
    <3>1. IsFiniteSet(K) /\ IsFiniteSet(L) /\ K \cap L = {} /\ c[q].children = K \cup L
      BY <2>4, <2>5, <2>6
    <3> HIDE DEF K, L
    <3>2. Cardinality(K \cup L) = Cardinality(K) + Cardinality(L) - Cardinality(K \cap L)
      BY <3>1, FS_Union
    <3>3. Cardinality(K \cap L) = 0 /\ Cardinality(K) \in Nat /\ Cardinality(L) \in Nat
      BY <3>1, FS_EmptySet, FS_CardinalityType
    <3>4. Cardinality(c[q].children) = Cardinality(K) + Cardinality(L)
      BY <3>1, <3>2, <3>3
    <3>. QED BY <3>4 DEF K, L
  <2>8. /\ Cardinality(c[q].children \ Left(q)) \in Nat /\ Cardinality(Lost(q)) \in Nat
        /\ Cardinality(c[q].children) \in Nat
    BY <2>1, <2>2, <2>6, FS_CardinalityType
  <2> HIDE DEF Left, Lost
  <2>. QED BY <2>1, <2>4, <2>6, <2>7, <2>8
<1>4. /\ DOMAIN d = DOMAIN c \ gone
      /\ d = [q \in DOMAIN d |-> d[q]]
      /\ \A q \in DOMAIN d :
           d[q] = [c[q] EXCEPT !.children = @ \ Left(q), !.numChildren = @ - Cardinality(Lost(q))]
  BY DEF ClosedTree
<1>5. ASSUME NEW q \in DOMAIN d
      PROVE  /\ d[q] \in Node
             /\ d[q].children = c[q].children \ Left(q)
             /\ d[q].numChildren = c[q].numChildren - Cardinality(Lost(q))
             /\ d[q].cversion = c[q].cversion
             /\ d[q].owner = c[q].owner
             /\ d[q].acl_id = c[q].acl_id
             /\ d[q].mzxid = c[q].mzxid
             /\ d[q].pzxid = c[q].pzxid
  <2>1. q \in DOMAIN c /\ c[q] \in Node
    BY <1>4 DEF GoodTree, NodeOK
  <2>2. c[q].numChildren - Cardinality(Lost(q)) \in Nat
    BY <1>3, <2>1
  <2>3. c[q].children \ Left(q) \in SUBSET Names
    <3> HIDE DEF Left
    <3>. QED BY <2>1 DEF Node
  <2>4. d[q] = [c[q] EXCEPT !.children = c[q].children \ Left(q),
                            !.numChildren = c[q].numChildren - Cardinality(Lost(q))]
    <3> HIDE DEF d, Left, Lost
    <3>. QED BY <1>4, <2>1 DEF Node
  <2> HIDE DEF d, Left, Lost
  <2>. QED BY <2>1, <2>2, <2>3, <2>4 DEF Node
<1> HIDE DEF d
<1>6. IsFiniteSet(DOMAIN d)
  <2>1. DOMAIN d \in SUBSET DOMAIN c
    BY <1>4
  <2>. QED BY <2>1, FS_Subset DEF GoodTree
<1>7. ASSUME NEW q \in DOMAIN d, q # Root
      PROVE  Listed(d, q)
  <2>1. q \in DOMAIN c /\ q \notin gone /\ Listed(c, q) /\ q \in Seq(Names)
    BY <1>4, <1>7 DEF GoodTree, NodeOK
  <2>2. ParentPath(q) \in DOMAIN c /\ ParentPath(q) \notin gone
    BY <1>1, <2>1 DEF Listed, OwnedBy
  <2>3. ParentPath(q) \in DOMAIN d
    BY <1>4, <2>2
  <2>4. GetBaseName(q) \notin Left(ParentPath(q))
    <3> SUFFICES ASSUME NEW p \in gone, ParentPath(p) = ParentPath(q),
                        GetBaseName(p) = GetBaseName(q)
                 PROVE  FALSE
      OBVIOUS
    <3>1. p = q
      BY <1>2, <1>7, <2>1, PathSplit
    <3>. QED BY <2>1, <3>1
  <2> HIDE DEF Left, Lost
  <2>. QED BY <1>5, <2>1, <2>3, <2>4 DEF Listed
<1>8. ASSUME NEW q \in DOMAIN d
      PROVE  NodeOK(d, q)
  <2>1. q \in DOMAIN c /\ q \notin gone /\ NodeOK(c, q)
    BY <1>4 DEF GoodTree
  <2>2. ASSUME NEW n \in d[q].children PROVE Append(q, n) \in DOMAIN d
    <3>1. n \in c[q].children /\ n \notin Left(q) /\ n \in Names
      <4> HIDE DEF Left
      <4>. QED BY <1>5, <2>1, <2>2 DEF NodeOK, Node
    <3>2. Append(q, n) \in DOMAIN c
      BY <2>1, <3>1 DEF NodeOK
    <3>3. ParentPath(Append(q, n)) = q /\ GetBaseName(Append(q, n)) = n
      BY <2>1, <3>1, PathAppend DEF NodeOK
    <3>4. Append(q, n) \notin gone
      BY <3>1, <3>3
    <3>. QED BY <1>4, <3>2, <3>4
  <2> HIDE DEF Left, Lost
  <2>. QED BY <1>3, <1>5, <1>7, <2>1, <2>2 DEF NodeOK
<1>9. ASSUME NEW t \in SessionIds
      PROVE  [e EXCEPT ![s] = {}][t] = OwnedBy(d, t)
  <2>1. e[t] = OwnedBy(c, t) /\ [e EXCEPT ![s] = {}][t] = IF t = s THEN {} ELSE e[t]
    BY DEF GoodTree
  <2>2. OwnedBy(d, t) = OwnedBy(c, t) \ OwnedBy(c, s)
    BY <1>1, <1>4, <1>5 DEF OwnedBy
  <2>3. t # s => OwnedBy(c, t) \ OwnedBy(c, s) = OwnedBy(c, t)
    BY DEF OwnedBy
  <2>4. t = s => OwnedBy(c, t) \ OwnedBy(c, s) = {}
    OBVIOUS
  <2>. QED BY <2>1, <2>2, <2>3, <2>4
<1>10. [e EXCEPT ![s] = {}] = [t \in SessionIds |-> OwnedBy(d, t)]
  <2> DEFINE f == [e EXCEPT ![s] = {}]
  <2>1. f = [t \in SessionIds |-> f[t]]
    BY DEF GoodTree
  <2> HIDE DEF f
  <2>2. f = [t \in SessionIds |-> OwnedBy(d, t)]
    BY <1>9, <2>1 DEF f
  <2>. QED BY <2>2 DEF f
<1>. QED BY <1>4, <1>6, <1>8, <1>10 DEF GoodTree, d

-----------------------------------------------------------------------------
(* Undo actions restore what was there                                     *)

LEMMA AddedUndone ==
  ASSUME NEW c, NEW e, GoodTree(c, e),
         NEW path \in Seq(Names), path # Root, path \notin DOMAIN c,
         ParentPath(path) \in DOMAIN c, NEW node, NEW z
  PROVE  UnAdded(Added(c, path, node, z), path, c[ParentPath(path)].pzxid) = c
<1> DEFINE parent == ParentPath(path)
           name   == GetBaseName(path)
           d      == Added(c, path, node, z)
           u      == UnAdded(d, path, c[parent].pzxid)
<1>1. parent \in DOMAIN c /\ parent # path
  BY PathSplit
<1>2. name \notin c[parent].children /\ c[parent] \in Node
  BY NotListed DEF GoodTree, NodeOK
<1>3. /\ DOMAIN d = DOMAIN c \cup {path}
      /\ d[parent] = WithChild(c[parent], name, z)
      /\ \A q \in DOMAIN c : q # parent => d[q] = c[q]
  BY <1>1 DEF Added
<1>4. /\ DOMAIN u = DOMAIN c
      /\ u = [q \in DOMAIN u |-> u[q]]
      /\ u[parent] = Touch(d[parent], d[parent].children \ {name}, d[parent].cversion - 1,
                           d[parent].numChildren - 1, c[parent].pzxid)
      /\ \A q \in DOMAIN c : q # parent => u[q] = c[q]
  <2> HIDE DEF d
  <2>. QED BY <1>1, <1>3 DEF UnAdded, WithoutNewChild
<1>5. u[parent] = c[parent]
  <2> DEFINE n == c[parent]
             m == WithChild(n, name, z)
  <2>1. n \in Node /\ n.cversion \in Nat /\ n.numChildren \in Nat /\ name \notin n.children
    BY <1>2 DEF Node
  <2> HIDE DEF n
  <2>2. /\ m.children = n.children \cup {name} /\ m.cversion = n.cversion + 1
        /\ m.numChildren = n.numChildren + 1
    BY DEF WithChild, Touch
  <2>3. /\ m.children \ {name} = n.children /\ m.cversion - 1 = n.cversion
        /\ m.numChildren - 1 = n.numChildren
    <3> HIDE DEF m
    <3>. QED BY <2>1, <2>2
  <2>4. u[parent] = Touch(m, n.children, n.cversion, n.numChildren, n.pzxid)
    <3> HIDE DEF m, u, d, parent
    <3>. QED BY <1>3, <1>4, <2>3 DEF n, m
  <2>5. Touch(m, n.children, n.cversion, n.numChildren, n.pzxid) = n
    BY <2>1, TouchTwice DEF WithChild
  <2>. QED BY <2>4, <2>5 DEF n
<1> HIDE DEF u, parent
<1>6. u = c
  BY <1>4, <1>5 DEF GoodTree
<1>. QED BY <1>6 DEF u, d, parent

LEMMA DeletedUndone ==
  ASSUME NEW c, NEW e, GoodTree(c, e), NEW path \in DOMAIN c, path # Root, NEW z
  PROVE  UnDeleted(Deleted(c, path, z), path, c[path], c[ParentPath(path)].pzxid) = c
<1> DEFINE parent == ParentPath(path)
           name   == GetBaseName(path)
           d      == Deleted(c, path, z)
           u      == UnDeleted(d, path, c[path], c[parent].pzxid)
<1>1. path \in Seq(Names) /\ Listed(c, path)
  BY DEF GoodTree, NodeOK
<1>2. parent \in DOMAIN c /\ parent # path /\ name \in c[parent].children
  BY <1>1, PathSplit DEF Listed
<1>3. c[parent] \in Node
  BY <1>2 DEF GoodTree, NodeOK
<1>4. /\ DOMAIN d = DOMAIN c \ {path}
      /\ d[parent] = WithoutChild(c[parent], name, z)
      /\ \A q \in DOMAIN d : q # parent => d[q] = c[q]
  BY <1>2 DEF Deleted
<1>5. /\ DOMAIN u = DOMAIN c
      /\ u = [q \in DOMAIN u |-> u[q]]
      /\ u[parent] = Touch(d[parent], d[parent].children \cup {name}, d[parent].cversion,
                           d[parent].numChildren + 1, c[parent].pzxid)
      /\ \A q \in DOMAIN c : q # parent => u[q] = c[q]
  <2> HIDE DEF d
  <2>. QED BY <1>2, <1>4 DEF UnDeleted, WithChildAgain
<1>6. u[parent] = c[parent]
  <2> DEFINE n == c[parent]
             m == WithoutChild(n, name, z)
  <2>1. n \in Node /\ n.cversion \in Nat /\ n.numChildren \in Nat /\ name \in n.children
    BY <1>2, <1>3 DEF Node
  <2> HIDE DEF n
  <2>2. /\ m.children = n.children \ {name} /\ m.cversion = n.cversion
        /\ m.numChildren = n.numChildren - 1
    BY DEF WithoutChild, Touch
  <2>3. /\ m.children \cup {name} = n.children /\ m.cversion = n.cversion
        /\ m.numChildren + 1 = n.numChildren
    <3> HIDE DEF m
    <3>. QED BY <2>1, <2>2
  <2>4. u[parent] = Touch(m, n.children, n.cversion, n.numChildren, n.pzxid)
    <3> HIDE DEF m, u, d, parent
    <3>. QED BY <1>4, <1>5, <2>3 DEF n, m
  <2>5. Touch(m, n.children, n.cversion, n.numChildren, n.pzxid) = n
    BY <2>1, TouchTwice DEF WithoutChild
  <2>. QED BY <2>4, <2>5 DEF n
<1> HIDE DEF u, parent
<1>7. u = c
  BY <1>5, <1>6 DEF GoodTree
<1>. QED BY <1>7 DEF u, d, parent

-----------------------------------------------------------------------------
(* Usage of ACL numbers                                                    *)

AclOK(m) ==
  /\ m \in [num_to_acl : {m.num_to_acl}, usage_counter : {m.usage_counter},
            max_acl_id : Nat \ {0}]
  /\ m.usage_counter = [id \in DOMAIN m.usage_counter |-> m.usage_counter[id]]
  /\ DOMAIN m.num_to_acl \cup DOMAIN m.usage_counter \subseteq 1 .. m.max_acl_id - 1
  /\ \A id \in DOMAIN m.usage_counter : m.usage_counter[id] \in Nat \ {0}

UsageOf(m, id) == IF id \in DOMAIN m.usage_counter THEN m.usage_counter[id] ELSE 0

Users(c, id) == {path \in DOMAIN c : c[path].acl_id = id}

(* UsageCounted, with a number that is not counted as one counted zero     *)
(* times.                                                                  *)
Counted(c, m) ==
  \A id \in Nat \ {0} : Cardinality(Users(c, id)) <= UsageOf(m, id)

LEMMA UsageType ==
  ASSUME NEW m, AclOK(m), NEW id
  PROVE  UsageOf(m, id) \in Nat
  BY DEF AclOK, UsageOf

LEMMA AddUsageEffect ==
  ASSUME NEW m, AclOK(m), NEW id \in 0 .. m.max_acl_id - 1
  PROVE  /\ AclOK(AddUsage(m, id))
         /\ AddUsage(m, id).max_acl_id = m.max_acl_id
         /\ \A k : UsageOf(AddUsage(m, id), k)
                     = IF k = id /\ id # 0 THEN UsageOf(m, k) + 1 ELSE UsageOf(m, k)
<1>1. CASE id = 0
  BY <1>1 DEF AddUsage
<1>2. CASE id # 0
  <2> DEFINE u == m.usage_counter
             v == Put(u, id, 1 + IF id \in DOMAIN u THEN u[id] ELSE 0)
             n == AddUsage(m, id)
  <2>1. n = [m EXCEPT !.usage_counter = v]
    BY <1>2 DEF AddUsage
  <2>2. /\ n.usage_counter = v /\ n.num_to_acl = m.num_to_acl /\ n.max_acl_id = m.max_acl_id
        /\ n = [num_to_acl |-> m.num_to_acl, usage_counter |-> v, max_acl_id |-> m.max_acl_id]
    <3> HIDE DEF v, n
    <3>. QED BY <2>1 DEF AclOK
  <2>3. /\ DOMAIN v = DOMAIN u \cup {id}
        /\ v[id] = UsageOf(m, id) + 1
        /\ \A k \in DOMAIN u : k # id => v[k] = u[k]
        /\ v = [k \in DOMAIN v |-> v[k]]
    BY UsageType DEF Put, UsageOf
  <2>4. UsageOf(m, id) \in Nat
    BY UsageType
  <2> HIDE DEF v, n
  <2>5. AclOK(n)
    <3>1. n \in [num_to_acl : {n.num_to_acl}, usage_counter : {n.usage_counter},
                 max_acl_id : Nat \ {0}]
      BY <2>2 DEF AclOK
    <3>2. DOMAIN n.num_to_acl \cup DOMAIN n.usage_counter \subseteq 1 .. n.max_acl_id - 1
      BY <1>2, <2>2, <2>3 DEF AclOK
    <3>3. \A k \in DOMAIN v : v[k] \in Nat \ {0}
      BY <2>3, <2>4 DEF AclOK
    <3>. QED BY <2>2, <2>3, <3>1, <3>2, <3>3 DEF AclOK
  <2>6. ASSUME NEW k PROVE UsageOf(n, k) = IF k = id THEN UsageOf(m, k) + 1 ELSE UsageOf(m, k)
    BY <2>2, <2>3 DEF UsageOf
  <2>. QED BY <1>2, <2>2, <2>5, <2>6 DEF n
<1>. QED BY <1>1, <1>2

LEMMA RemoveUsageEffect ==
  ASSUME NEW m, AclOK(m), NEW id
  PROVE  /\ AclOK(RemoveUsage(m, id))
         /\ RemoveUsage(m, id).max_acl_id = m.max_acl_id
         /\ \A k : UsageOf(RemoveUsage(m, id), k)
                     = IF k = id /\ UsageOf(m, k) # 0 THEN UsageOf(m, k) - 1 ELSE UsageOf(m, k)
<1> DEFINE u == m.usage_counter
           n == RemoveUsage(m, id)
<1>1. CASE id \notin DOMAIN u
  BY <1>1 DEF RemoveUsage, UsageOf
<1>2. CASE id \in DOMAIN u /\ u[id] = 1
  <2> DEFINE a == Drop(m.num_to_acl, {id})
             v == Drop(u, {id})
  <2>1. n = [m EXCEPT !.num_to_acl = a, !.usage_counter = v]
    BY <1>2 DEF RemoveUsage
  <2>2. /\ n.usage_counter = v /\ n.num_to_acl = a /\ n.max_acl_id = m.max_acl_id
        /\ n = [num_to_acl |-> a, usage_counter |-> v, max_acl_id |-> m.max_acl_id]
    <3> HIDE DEF v, n, a
    <3>. QED BY <2>1 DEF AclOK
  <2>3. /\ DOMAIN v = DOMAIN u \ {id} /\ DOMAIN a = DOMAIN m.num_to_acl \ {id}
        /\ \A k \in DOMAIN v : v[k] = u[k]
        /\ v = [k \in DOMAIN v |-> v[k]]
    BY DEF Drop
  <2> HIDE DEF v, n, a
  <2>4. AclOK(n)
    <3>1. n \in [num_to_acl : {n.num_to_acl}, usage_counter : {n.usage_counter},
                 max_acl_id : Nat \ {0}]
      BY <2>2 DEF AclOK
    <3>. QED BY <2>2, <2>3, <3>1 DEF AclOK
  <2>5. ASSUME NEW k
        PROVE  UsageOf(n, k) = IF k = id /\ UsageOf(m, k) # 0 THEN UsageOf(m, k) - 1
                               ELSE UsageOf(m, k)
    BY <1>2, <2>2, <2>3 DEF UsageOf
  <2>. QED BY <2>2, <2>4, <2>5 DEF n
<1>3. CASE id \in DOMAIN u /\ u[id] # 1
  <2> DEFINE v == [u EXCEPT ![id] = @ - 1]
  <2>1. n = [m EXCEPT !.usage_counter = v]
    BY <1>3 DEF RemoveUsage, AclOK
  <2>2. /\ n.usage_counter = v /\ n.num_to_acl = m.num_to_acl /\ n.max_acl_id = m.max_acl_id
        /\ n = [num_to_acl |-> m.num_to_acl, usage_counter |-> v, max_acl_id |-> m.max_acl_id]
    <3> HIDE DEF v, n
    <3>. QED BY <2>1 DEF AclOK
  <2>3. /\ DOMAIN v = DOMAIN u
        /\ v[id] = u[id] - 1 /\ u[id] \in Nat /\ u[id] - 1 \in Nat \ {0}
        /\ \A k \in DOMAIN v : k # id => v[k] = u[k]
        /\ v = [k \in DOMAIN v |-> v[k]]
    BY <1>3 DEF AclOK
  <2> HIDE DEF v, n
  <2>4. AclOK(n)
    <3>1. n \in [num_to_acl : {n.num_to_acl}, usage_counter : {n.usage_counter},
                 max_acl_id : Nat \ {0}]
      BY <2>2 DEF AclOK
    <3>2. \A k \in DOMAIN v : v[k] \in Nat \ {0}
      BY <2>3 DEF AclOK
    <3>. QED BY <2>2, <2>3, <3>1, <3>2 DEF AclOK
  <2>5. ASSUME NEW k
        PROVE  UsageOf(n, k) = IF k = id /\ UsageOf(m, k) # 0 THEN UsageOf(m, k) - 1
                               ELSE UsageOf(m, k)
    BY <1>3, <2>2, <2>3 DEF UsageOf
  <2>. QED BY <2>2, <2>4, <2>5 DEF n
<1>. QED BY <1>1, <1>2, <1>3

LEMMA UseACLsEffect ==
  ASSUME NEW m, AclOK(m), NEW acls
  PROVE  LET id == ConvertACLs(m, acls)
             n  == UseACLs(m, acls)
         IN  /\ AclOK(n)
             /\ n.max_acl_id >= m.max_acl_id
             /\ id \in 0 .. n.max_acl_id - 1
             /\ \A k : UsageOf(n, k)
                         = IF k = id /\ id # 0 THEN UsageOf(m, k) + 1 ELSE UsageOf(m, k)
<1> DEFINE id    == ConvertACLs(m, acls)
           n     == UseACLs(m, acls)
           added == [m EXCEPT !.num_to_acl = Put(@, id, acls), !.max_acl_id = @ + 1]
<1>1. id \in 0 .. m.max_acl_id
  <2>1. \A k \in KnownACL(m, acls) : k \in 1 .. m.max_acl_id - 1
    BY DEF KnownACL, AclOK
  <2>2. m.max_acl_id \in Nat \ {0}
    BY DEF AclOK
  <2>. QED BY <2>1, <2>2 DEF ConvertACLs
<1> HIDE DEF id
<1>2. CASE id # m.max_acl_id
  <2>1. n = AddUsage(m, id) /\ id \in 0 .. m.max_acl_id - 1 /\ m.max_acl_id \in Nat
    BY <1>1, <1>2 DEF UseACLs, id, AclOK
  <2> HIDE DEF n
  <2>. QED BY <2>1, AddUsageEffect DEF n, id
<1>3. CASE id = m.max_acl_id
  <2> DEFINE a == Put(m.num_to_acl, id, acls)
  <2>1. n = AddUsage(added, id) /\ m.max_acl_id \in Nat \ {0}
    BY <1>3 DEF UseACLs, id, AclOK
  <2>2. added = [num_to_acl |-> a, usage_counter |-> m.usage_counter,
                 max_acl_id |-> m.max_acl_id + 1]
    <3>1. added = [m EXCEPT !.num_to_acl = a, !.max_acl_id = m.max_acl_id + 1]
      OBVIOUS
    <3> HIDE DEF a, added
    <3>. QED BY <3>1 DEF AclOK
  <2>3. DOMAIN a = DOMAIN m.num_to_acl \cup {id}
    BY DEF Put
  <2> HIDE DEF a
  <2>4. /\ added.num_to_acl = a /\ added.usage_counter = m.usage_counter
        /\ added.max_acl_id = m.max_acl_id + 1
    BY <2>2
  <2> HIDE DEF added
  <2>5. AclOK(added)
    <3>1. added \in [num_to_acl : {added.num_to_acl}, usage_counter : {added.usage_counter},
                     max_acl_id : Nat \ {0}]
      BY <2>1, <2>2, <2>4
    <3>2. DOMAIN a \cup DOMAIN m.usage_counter \subseteq 1 .. m.max_acl_id + 1 - 1
      BY <1>3, <2>1, <2>3 DEF AclOK
    <3>. QED BY <2>4, <3>1, <3>2 DEF AclOK
  <2>6. id \in 0 .. added.max_acl_id - 1
    BY <1>3, <2>1, <2>4
  <2>7. \A k : UsageOf(added, k) = UsageOf(m, k)
    BY <2>4 DEF UsageOf
  <2>8. /\ AclOK(n) /\ n.max_acl_id = added.max_acl_id
        /\ \A k : UsageOf(n, k)
                    = IF k = id /\ id # 0 THEN UsageOf(added, k) + 1 ELSE UsageOf(added, k)
    <3> HIDE DEF n
    <3>. QED BY <2>1, <2>5, <2>6, AddUsageEffect
  <2> HIDE DEF n
  <2>9. n.max_acl_id >= m.max_acl_id /\ id \in 0 .. n.max_acl_id - 1
    BY <1>3, <2>1, <2>4, <2>8
  <2>. QED BY <2>7, <2>8, <2>9 DEF n, id
<1>. QED BY <1>2, <1>3

GainsUser(c, d, id, p) ==
  \A k \in Nat \ {0} :
    Users(d, k) \subseteq IF k = id THEN Users(c, k) \cup {p} ELSE Users(c, k)

CountsOneMore(m, n, id) ==
  \A k : UsageOf(n, k) = IF k = id /\ id # 0 THEN UsageOf(m, k) + 1 ELSE UsageOf(m, k)

(* One node more has the number, which is counted once more.               *)
LEMMA CountedMore ==
  ASSUME NEW c, NEW d, NEW m, NEW n, NEW id, NEW p, IsFiniteSet(DOMAIN c),
         AclOK(m), Counted(c, m), GainsUser(c, d, id, p), CountsOneMore(m, n, id)
  PROVE  Counted(d, n)
<1> USE DEF GainsUser, CountsOneMore
<1> SUFFICES ASSUME NEW k \in Nat \ {0}
             PROVE  Cardinality(Users(d, k)) <= UsageOf(n, k)
  BY DEF Counted
<1>1. IsFiniteSet(Users(c, k))
  <2>1. Users(c, k) \in SUBSET DOMAIN c
    BY DEF Users
  <2>. QED BY <2>1, FS_Subset
<1>2. Cardinality(Users(c, k)) <= UsageOf(m, k) /\ UsageOf(m, k) \in Nat
  BY UsageType DEF Counted
<1>3. Cardinality(Users(c, k)) \in Nat
  BY <1>1, FS_CardinalityType
<1>4. CASE k = id
  <2>1. /\ IsFiniteSet(Users(c, k) \cup {p})
        /\ Cardinality(Users(c, k) \cup {p}) <= Cardinality(Users(c, k)) + 1
    <3>1. /\ IsFiniteSet(Users(c, k) \cup {p})
          /\ Cardinality(Users(c, k) \cup {p})
               = IF p \in Users(c, k) THEN Cardinality(Users(c, k))
                 ELSE Cardinality(Users(c, k)) + 1
      BY <1>1, FS_AddElement, Zenon
    <3>. QED BY <1>3, <3>1
  <2>2. Users(d, k) \in SUBSET (Users(c, k) \cup {p})
    BY <1>4
  <2>3. Cardinality(Users(d, k)) <= Cardinality(Users(c, k) \cup {p})
        /\ Cardinality(Users(d, k)) \in Nat /\ Cardinality(Users(c, k) \cup {p}) \in Nat
    BY <2>1, <2>2, FS_Subset, FS_CardinalityType
  <2>. QED BY <1>2, <1>3, <1>4, <2>1, <2>3
<1>5. CASE k # id
  <2>1. Users(d, k) \in SUBSET Users(c, k)
    BY <1>5
  <2>2. Cardinality(Users(d, k)) <= Cardinality(Users(c, k))
        /\ Cardinality(Users(d, k)) \in Nat
    BY <1>1, <2>1, FS_Subset, FS_CardinalityType
  <2>. QED BY <1>2, <1>3, <1>5, <2>2
<1>. QED BY <1>4, <1>5

(* One node less has the number, which is counted once less.               *)
LEMMA CountedLess ==
  ASSUME NEW c, NEW d, NEW m, NEW n, NEW id \in Nat, NEW p, IsFiniteSet(DOMAIN c),
         AclOK(m), Counted(c, m), p \in Users(c, id),
         \A k \in Nat \ {0} : Users(d, k) = Users(c, k) \ {p},
         \A k : UsageOf(n, k) = IF k = id /\ UsageOf(m, k) # 0 THEN UsageOf(m, k) - 1
                                ELSE UsageOf(m, k)
  PROVE  Counted(d, n)
<1> SUFFICES ASSUME NEW k \in Nat \ {0}
             PROVE  Cardinality(Users(d, k)) <= UsageOf(n, k)
  BY DEF Counted
<1>1. IsFiniteSet(Users(c, k))
  <2>1. Users(c, k) \in SUBSET DOMAIN c
    BY DEF Users
  <2>. QED BY <2>1, FS_Subset
<1>2. Cardinality(Users(c, k)) <= UsageOf(m, k) /\ UsageOf(m, k) \in Nat
  BY UsageType DEF Counted
<1>3. Cardinality(Users(c, k)) \in Nat
  BY <1>1, FS_CardinalityType
<1>4. /\ IsFiniteSet(Users(d, k))
      /\ Cardinality(Users(d, k)) = IF p \in Users(c, k) THEN Cardinality(Users(c, k)) - 1
                                    ELSE Cardinality(Users(c, k))
  BY <1>1, FS_RemoveElement
<1>5. Cardinality(Users(d, k)) \in Nat
  BY <1>4, FS_CardinalityType
<1>6. CASE k = id
  BY <1>2, <1>3, <1>4, <1>5, <1>6
<1>7. CASE k # id
  BY <1>2, <1>3, <1>4, <1>5, <1>7
<1>. QED BY <1>6, <1>7

LEMMA CountedStill ==
  ASSUME NEW c, NEW d, NEW m, IsFiniteSet(DOMAIN c), AclOK(m), Counted(c, m),
         \A k \in Nat \ {0} : Users(d, k) \subseteq Users(c, k)
  PROVE  Counted(d, m)
<1> SUFFICES ASSUME NEW k \in Nat \ {0}
             PROVE  Cardinality(Users(d, k)) <= UsageOf(m, k)
  BY DEF Counted
<1>1. IsFiniteSet(Users(c, k))
  <2>1. Users(c, k) \in SUBSET DOMAIN c
    BY DEF Users
  <2>. QED BY <2>1, FS_Subset
<1>2. Cardinality(Users(c, k)) <= UsageOf(m, k) /\ UsageOf(m, k) \in Nat
  BY UsageType DEF Counted
<1>3. Users(d, k) \in SUBSET Users(c, k)
  OBVIOUS
<1>4. /\ Cardinality(Users(d, k)) <= Cardinality(Users(c, k))
      /\ Cardinality(Users(d, k)) \in Nat /\ Cardinality(Users(c, k)) \in Nat
  BY <1>1, <1>3, FS_Subset, FS_CardinalityType
<1>. QED BY <1>2, <1>4

-----------------------------------------------------------------------------
(* Requests                                                                *)

(* A tree as it is before a request of session s that gets the zxid z.     *)
Before(s, z, owners) ==
  /\ GoodTree(container, ephemerals)
  /\ AclOK(acl_map)
  /\ Counted(container, acl_map)
  /\ Bounded(container, acl_map.max_acl_id - 1, z, owners)
  /\ s \in SessionIds \cap owners
  /\ z \in Nat

(* And after it.                                                           *)
After(z, owners) ==
  /\ GoodTree(container', ephemerals')
  /\ AclOK(acl_map')
  /\ acl_map'.max_acl_id >= acl_map.max_acl_id
  /\ Counted(container', acl_map')
  /\ Bounded(container', acl_map'.max_acl_id - 1, z, owners)

LEMMA CreateEffect ==
  ASSUME NEW s, NEW z, NEW owners, Before(s, z, owners), NEW req, IsRequest(req),
         req.op = "create", CreateError(s, req) = "ZOK", Create(s, req, z)
  PROVE  LET path  == PathCreated(req)
             owner == IF req.ephemeral THEN s ELSE NoOwner
             id    == ConvertACLs(acl_map, FixupACL(req.acls, session_and_auth[s]))
         IN  /\ path \in Seq(Names) /\ path # Root /\ path \notin DOMAIN container
             /\ ParentPath(path) = ParentPath(req.path)
             /\ ParentPath(path) \in DOMAIN container
             /\ container[ParentPath(path)].owner = NoOwner
             /\ GetBaseName(path)[2] \in Int
             /\ GetBaseName(path)[2] <= container[ParentPath(path)].cversion
             /\ container' = Added(container, path, NewNode(z, owner, id), z)
             /\ ephemerals' = AddedTo(ephemerals, path, owner)
             /\ acl_map' = UseACLs(acl_map, FixupACL(req.acls, session_and_auth[s]))
<1> DEFINE path   == PathCreated(req)
           parent == ParentPath(req.path)
           owner  == IF req.ephemeral THEN s ELSE NoOwner
           acls   == FixupACL(req.acls, session_and_auth[s])
           id     == ConvertACLs(acl_map, acls)
           node   == NewNode(z, owner, id)
           name   == GetBaseName(path)
<1>1. /\ parent \in DOMAIN container /\ container[parent].owner = NoOwner
      /\ path \notin DOMAIN container
  BY DEF CreateError, Exists
<1>2. /\ req.path \in Seq(Names) /\ req.sequential \in BOOLEAN /\ req.ephemeral \in BOOLEAN
      /\ GetBaseName(req.path) \in STRING \X {NoSeq}
  BY DEF IsRequest
<1>3. /\ parent \in Seq(Names) /\ container[parent] \in Node
      /\ container[parent].cversion \in Nat
  BY <1>1 DEF Before, GoodTree, NodeOK, Node
<1>4. /\ path \in Seq(Names) /\ path # Root /\ ParentPath(path) = parent
      /\ name[2] \in Int /\ name[2] <= container[parent].cversion
  <2>1. CASE req.sequential
    <3> DEFINE new == <<GetBaseName(req.path)[1], container[parent].cversion>>
    <3>1. path = Append(parent, new)
      BY <2>1 DEF PathCreated
    <3>2. GetBaseName(req.path) \in Names
      BY <1>2 DEF Names
    <3>3. new \in Names /\ new[2] = container[parent].cversion
      BY <1>3, <3>2 DEF Names
    <3> HIDE DEF new, path, parent
    <3>. QED BY <1>3, <3>1, <3>3, PathAppend
  <2>2. CASE ~req.sequential
    <3>1. path = req.path
      BY <2>2 DEF PathCreated
    <3>2. path # Root
      BY <1>1, <3>1, ParentOfRoot
    <3>. QED BY <1>2, <1>3, <3>1, <3>2 DEF NoSeq
  <2>. QED BY <1>2, <2>1, <2>2
<1>5. container' = Put(ExceptAdd(container, parent, name, z), path, node)
  BY DEF Create, ExceptAdd
<1>6. container = [q \in DOMAIN container |-> container[q]]
  BY DEF Before, GoodTree
<1> HIDE DEF path, node, name, parent
<1>7. container' = Put(Replaced(container, parent, WithChild(container[parent], name, z)),
                       path, node)
  <2>1. ExceptAdd(container, parent, name, z)
          = Replaced(container, parent, WithChild(container[parent], name, z))
    BY <1>1, <1>3, <1>6, ExceptAddIs
  <2>. QED BY <1>5, <2>1
<1>8. container' = Added(container, path, node, z)
  BY <1>1, <1>4, <1>7 DEF Put, Replaced, Added, name
<1>9. ephemerals' = AddedTo(ephemerals, path, owner)
  <2>1. /\ ephemerals = [t \in SessionIds |-> ephemerals[t]] /\ s \in SessionIds
        /\ NoOwner \notin SessionIds
    BY DEF Before, GoodTree, NoOwner, SessionIds
  <2>2. ephemerals' = IF req.ephemeral THEN [ephemerals EXCEPT ![s] = @ \cup {path}]
                      ELSE ephemerals
    BY DEF Create, path
  <2>3. CASE req.ephemeral
    BY <2>1, <2>2, <2>3 DEF AddedTo
  <2>4. CASE ~req.ephemeral
    BY <2>1, <2>2, <2>4 DEF AddedTo
  <2>. QED BY <2>3, <2>4
<1>10. acl_map' = UseACLs(acl_map, acls)
  BY DEF Create
<1>. QED BY <1>1, <1>4, <1>8, <1>9, <1>10 DEF path, node, name, parent

LEMMA CreateKeeps ==
  ASSUME NEW s, NEW z, NEW owners, Before(s, z, owners), NEW req, IsRequest(req),
         req.op = "create", CreateError(s, req) = "ZOK", Create(s, req, z)
  PROVE  After(z, owners)
<1> DEFINE path  == PathCreated(req)
           owner == IF req.ephemeral THEN s ELSE NoOwner
           acls  == FixupACL(req.acls, session_and_auth[s])
           id    == ConvertACLs(acl_map, acls)
           node  == NewNode(z, owner, id)
<1>1. /\ path \in Seq(Names) /\ path # Root /\ path \notin DOMAIN container
      /\ ParentPath(path) \in DOMAIN container
      /\ container[ParentPath(path)].owner = NoOwner
      /\ GetBaseName(path)[2] \in Int
      /\ GetBaseName(path)[2] <= container[ParentPath(path)].cversion
      /\ container' = Added(container, path, node, z)
      /\ ephemerals' = AddedTo(ephemerals, path, owner)
      /\ acl_map' = UseACLs(acl_map, acls)
  BY CreateEffect
<1>2. /\ GoodTree(container, ephemerals) /\ AclOK(acl_map) /\ Counted(container, acl_map)
      /\ s \in SessionIds \cap owners /\ z \in Nat
      /\ Bounded(container, acl_map.max_acl_id - 1, z, owners)
  BY DEF Before
<1>3. owner \in SessionIds \cup {NoOwner} /\ owner \in owners \cup {NoOwner}
  BY <1>2
<1> HIDE DEF acls, path, owner
<1>4. /\ AclOK(acl_map') /\ acl_map'.max_acl_id >= acl_map.max_acl_id
      /\ id \in 0 .. acl_map'.max_acl_id - 1
      /\ \A k : UsageOf(acl_map', k) = IF k = id /\ id # 0 THEN UsageOf(acl_map, k) + 1
                                       ELSE UsageOf(acl_map, k)
  BY <1>1, <1>2, UseACLsEffect
<1>5. acl_map'.max_acl_id \in Nat /\ acl_map.max_acl_id \in Nat /\ id \in Nat
  BY <1>2, <1>4 DEF AclOK
<1>6. /\ node.acl_id = id /\ node.mzxid = z /\ node.pzxid = z /\ node.owner = owner
  BY DEF NewNode
<1>7. GoodTree(container', ephemerals')
  <2> HIDE DEF id
  <2>. QED BY <1>1, <1>2, <1>3, <1>5, AddedGood
<1> HIDE DEF node, id
<1>8. /\ DOMAIN container' = DOMAIN container \cup {path}
      /\ container'[path] = node
      /\ \A q \in DOMAIN container :
           /\ container'[q].acl_id = container[q].acl_id
           /\ container'[q].mzxid = container[q].mzxid
           /\ container'[q].pzxid \in {container[q].pzxid, z}
           /\ container'[q].owner = container[q].owner
  BY <1>1 DEF Added, WithChild, Touch
<1>9. Bounded(container', acl_map'.max_acl_id - 1, z, owners)
  <2> SUFFICES ASSUME NEW q \in DOMAIN container'
               PROVE  /\ container'[q].acl_id \in 0 .. acl_map'.max_acl_id - 1
                      /\ container'[q].mzxid <= z /\ container'[q].pzxid <= z
                      /\ container'[q].owner \in owners \cup {NoOwner}
    BY DEF Bounded
  <2>1. CASE q = path
    BY <1>2, <1>3, <1>4, <1>6, <1>8, <2>1
  <2>2. CASE q # path
    <3>1. q \in DOMAIN container
      BY <1>8, <2>2
    <3>2. /\ container[q].acl_id \in 0 .. acl_map.max_acl_id - 1
          /\ container[q].mzxid <= z /\ container[q].pzxid <= z
          /\ container[q].owner \in owners \cup {NoOwner}
      BY <1>2, <3>1 DEF Bounded
    <3>. QED BY <1>2, <1>4, <1>5, <1>8, <3>1, <3>2
  <2>. QED BY <2>1, <2>2
<1>10. Counted(container', acl_map')
  <2>1. GainsUser(container, container', id, path)
    BY <1>6, <1>8 DEF Users, GainsUser
  <2>2. IsFiniteSet(DOMAIN container) /\ CountsOneMore(acl_map, acl_map', id)
    BY <1>2, <1>4 DEF GoodTree, CountsOneMore
  <2>. QED BY <1>2, <2>1, <2>2, CountedMore
<1>. QED BY <1>4, <1>7, <1>9, <1>10 DEF After

LEMMA RemoveEffect ==
  ASSUME NEW s, NEW z, NEW owners, Before(s, z, owners), NEW req,
         RemoveError(req) = "ZOK", Remove(req, z)
  PROVE  /\ req.path \in DOMAIN container
         /\ container[req.path].children = {}
         /\ container' = Deleted(container, req.path, z)
         /\ ephemerals' = TakenFrom(ephemerals, req.path, container[req.path].owner)
         /\ acl_map' = RemoveUsage(acl_map, container[req.path].acl_id)
<1> DEFINE path   == req.path
           parent == ParentPath(path)
           name   == GetBaseName(path)
           owner  == container[path].owner
<1>1. path \in DOMAIN container /\ container[path].children = {}
  BY DEF RemoveError, Exists
<1>2. /\ GoodTree(container, ephemerals) /\ NodeOK(container, path)
      /\ container = [q \in DOMAIN container |-> container[q]]
  BY <1>1 DEF Before, GoodTree
<1>3. parent \in DOMAIN container
  BY <1>1, <1>2, ParentOfRoot DEF NodeOK, Listed
<1>4. container[parent] \in Node
  BY <1>2, <1>3 DEF GoodTree, NodeOK
<1>5. container' = Drop(ExceptDelete(container, parent, name, z), {path})
  BY DEF Remove, ExceptDelete
<1>6. acl_map' = RemoveUsage(acl_map, container[path].acl_id)
  BY DEF Remove
<1>7. ephemerals' = IF owner = NoOwner THEN ephemerals
                    ELSE [ephemerals EXCEPT ![owner] = @ \ {path}]
  BY DEF Remove
<1> HIDE DEF path, parent, name, owner
<1>8. ExceptDelete(container, parent, name, z)
        = Replaced(container, parent, WithoutChild(container[parent], name, z))
  BY <1>2, <1>3, <1>4, ExceptDeleteIs
<1>9. container' = Deleted(container, path, z)
  BY <1>3, <1>5, <1>8 DEF Drop, Replaced, Deleted, parent, name
<1>10. ephemerals' = TakenFrom(ephemerals, path, owner)
  <2>1. /\ ephemerals = [t \in SessionIds |-> ephemerals[t]] /\ NoOwner \notin SessionIds
        /\ owner \in SessionIds \cup {NoOwner}
    BY <1>2 DEF GoodTree, NodeOK, Node, NoOwner, SessionIds, owner
  <2>2. CASE owner = NoOwner
    BY <1>7, <2>1, <2>2 DEF TakenFrom
  <2>3. CASE owner # NoOwner
    BY <1>7, <2>1, <2>3 DEF TakenFrom
  <2>. QED BY <2>2, <2>3
<1>. QED BY <1>1, <1>6, <1>9, <1>10 DEF path, owner

LEMMA RemoveKeeps ==
  ASSUME NEW s, NEW z, NEW owners, Before(s, z, owners), NEW req,
         RemoveError(req) = "ZOK", Remove(req, z)
  PROVE  After(z, owners)
<1> DEFINE path == req.path
           id   == container[path].acl_id
<1>1. /\ path \in DOMAIN container /\ container[path].children = {}
      /\ container' = Deleted(container, path, z)
      /\ ephemerals' = TakenFrom(ephemerals, path, container[path].owner)
      /\ acl_map' = RemoveUsage(acl_map, id)
  BY RemoveEffect
<1>2. /\ GoodTree(container, ephemerals) /\ AclOK(acl_map) /\ Counted(container, acl_map)
      /\ z \in Nat /\ Bounded(container, acl_map.max_acl_id - 1, z, owners)
  BY DEF Before
<1>3. id \in Nat /\ path \in Users(container, id)
  BY <1>1, <1>2 DEF GoodTree, NodeOK, Node, Users
<1> HIDE DEF path, id
<1>4. GoodTree(container', ephemerals')
  BY <1>1, <1>2, DeletedGood
<1>5. /\ AclOK(acl_map') /\ acl_map'.max_acl_id = acl_map.max_acl_id
      /\ \A k : UsageOf(acl_map', k)
                  = IF k = id /\ UsageOf(acl_map, k) # 0 THEN UsageOf(acl_map, k) - 1
                    ELSE UsageOf(acl_map, k)
  BY <1>1, <1>2, RemoveUsageEffect
<1>6. /\ DOMAIN container' = DOMAIN container \ {path}
      /\ \A q \in DOMAIN container' :
           /\ container'[q].acl_id = container[q].acl_id
           /\ container'[q].mzxid = container[q].mzxid
           /\ container'[q].pzxid \in {container[q].pzxid, z}
           /\ container'[q].owner = container[q].owner
  BY <1>1 DEF Deleted, WithoutChild, Touch
<1>7. Bounded(container', acl_map'.max_acl_id - 1, z, owners)
  <2> SUFFICES ASSUME NEW q \in DOMAIN container'
               PROVE  /\ container'[q].acl_id \in 0 .. acl_map'.max_acl_id - 1
                      /\ container'[q].mzxid <= z /\ container'[q].pzxid <= z
                      /\ container'[q].owner \in owners \cup {NoOwner}
    BY DEF Bounded
  <2>1. q \in DOMAIN container
    BY <1>6
  <2>2. /\ container[q].acl_id \in 0 .. acl_map.max_acl_id - 1
        /\ container[q].mzxid <= z /\ container[q].pzxid <= z
        /\ container[q].owner \in owners \cup {NoOwner}
    BY <1>2, <2>1 DEF Bounded
  <2>. QED BY <1>2, <1>5, <1>6, <2>2
<1>8. Counted(container', acl_map')
  <2>1. \A k \in Nat \ {0} : Users(container', k) = Users(container, k) \ {path}
    BY <1>6 DEF Users
  <2>2. IsFiniteSet(DOMAIN container)
    BY <1>2 DEF GoodTree
  <2>. QED BY <1>2, <1>3, <1>5, <2>1, <2>2, CountedLess
<1>9. acl_map'.max_acl_id >= acl_map.max_acl_id
  BY <1>2, <1>5 DEF AclOK
<1>. QED BY <1>4, <1>5, <1>7, <1>8, <1>9 DEF After

(* A node with new data, and one with a new ACL number.                    *)
WithData(node, z)  == [node EXCEPT !.version = @ + 1, !.mzxid = z]
WithAcl(node, id)  == [node EXCEPT !.acl_id = id, !.aversion = @ + 1]

LEMMA WithDataIs ==
  ASSUME NEW n \in Node, NEW z \in Nat
  PROVE  /\ WithData(n, z) \in Node
         /\ WithData(n, z).children = n.children /\ WithData(n, z).cversion = n.cversion
         /\ WithData(n, z).numChildren = n.numChildren /\ WithData(n, z).owner = n.owner
         /\ WithData(n, z).acl_id = n.acl_id /\ WithData(n, z).pzxid = n.pzxid
         /\ WithData(n, z).mzxid = z
<1> DEFINE m == WithData(n, z)
<1>1. m = [f \in DOMAIN n |-> m[f]]
  BY DEF WithData
<1>2. /\ m.children = n.children /\ m.cversion = n.cversion
      /\ m.numChildren = n.numChildren /\ m.pzxid = n.pzxid
      /\ m.version = n.version + 1 /\ m.aversion = n.aversion /\ m.mzxid = z
      /\ m.owner = n.owner /\ m.acl_id = n.acl_id
  BY NodeFields DEF WithData
<1> HIDE DEF m
<1>3. m = [version |-> n.version + 1, cversion |-> n.cversion, aversion |-> n.aversion,
           numChildren |-> n.numChildren, children |-> n.children, mzxid |-> z,
           pzxid |-> n.pzxid, owner |-> n.owner, acl_id |-> n.acl_id]
  BY <1>1, <1>2, NodeFields
<1>4. m \in Node
  BY <1>3 DEF Node
<1>. QED BY <1>2, <1>4 DEF m

LEMMA WithAclIs ==
  ASSUME NEW n \in Node, NEW id \in Nat
  PROVE  /\ WithAcl(n, id) \in Node
         /\ WithAcl(n, id).children = n.children /\ WithAcl(n, id).cversion = n.cversion
         /\ WithAcl(n, id).numChildren = n.numChildren /\ WithAcl(n, id).owner = n.owner
         /\ WithAcl(n, id).acl_id = id /\ WithAcl(n, id).pzxid = n.pzxid
         /\ WithAcl(n, id).mzxid = n.mzxid
<1> DEFINE m == WithAcl(n, id)
<1>1. m = [f \in DOMAIN n |-> m[f]]
  BY DEF WithAcl
<1>2. /\ m.children = n.children /\ m.cversion = n.cversion
      /\ m.numChildren = n.numChildren /\ m.pzxid = n.pzxid
      /\ m.version = n.version /\ m.aversion = n.aversion + 1 /\ m.mzxid = n.mzxid
      /\ m.owner = n.owner /\ m.acl_id = id
  BY NodeFields DEF WithAcl
<1> HIDE DEF m
<1>3. m = [version |-> n.version, cversion |-> n.cversion, aversion |-> n.aversion + 1,
           numChildren |-> n.numChildren, children |-> n.children, mzxid |-> n.mzxid,
           pzxid |-> n.pzxid, owner |-> n.owner, acl_id |-> id]
  BY <1>1, <1>2, NodeFields
<1>4. m \in Node
  BY <1>3 DEF Node
<1>. QED BY <1>2, <1>4 DEF m

LEMMA SetEffect ==
  ASSUME NEW s, NEW z, NEW owners, Before(s, z, owners), NEW req,
         VersionError(req) = "ZOK", Set(req, z)
  PROVE  /\ req.path \in DOMAIN container
         /\ container[req.path] \in Node
         /\ container' = Replaced(container, req.path, WithData(container[req.path], z))
         /\ ephemerals' = ephemerals
         /\ acl_map' = acl_map
<1> DEFINE path == req.path
<1>1. path \in DOMAIN container
  BY DEF VersionError, Exists
<1>2. container = [q \in DOMAIN container |-> container[q]] /\ container[path] \in Node
  BY <1>1 DEF Before, GoodTree, NodeOK
<1>3. container' = [container EXCEPT ![path].version = @ + 1, ![path].mzxid = z]
      /\ ephemerals' = ephemerals /\ acl_map' = acl_map
  BY DEF Set
<1> HIDE DEF path
<1>4. container' = Replaced(container, path, WithData(container[path], z))
  BY <1>1, <1>2, <1>3 DEF Replaced, WithData
<1>. QED BY <1>1, <1>2, <1>3, <1>4 DEF path

LEMMA SetKeeps ==
  ASSUME NEW s, NEW z, NEW owners, Before(s, z, owners), NEW req,
         VersionError(req) = "ZOK", Set(req, z)
  PROVE  After(z, owners)
<1> DEFINE path == req.path
           node == WithData(container[path], z)
<1>1. /\ path \in DOMAIN container /\ container' = Replaced(container, path, node)
      /\ container[path] \in Node /\ ephemerals' = ephemerals /\ acl_map' = acl_map
  BY SetEffect
<1>2. /\ GoodTree(container, ephemerals) /\ AclOK(acl_map) /\ Counted(container, acl_map)
      /\ z \in Nat /\ Bounded(container, acl_map.max_acl_id - 1, z, owners)
  BY DEF Before
<1>0. /\ node \in Node /\ node.children = container[path].children
      /\ node.cversion = container[path].cversion
      /\ node.numChildren = container[path].numChildren
      /\ node.owner = container[path].owner /\ node.acl_id = container[path].acl_id
      /\ node.pzxid = container[path].pzxid /\ node.mzxid = z
  BY <1>1, <1>2, WithDataIs
<1> HIDE DEF node, path
<1>3. GoodTree(container', ephemerals')
  BY <1>0, <1>1, <1>2, ReplacedGood
<1>4. /\ DOMAIN container' = DOMAIN container
      /\ \A q \in DOMAIN container :
           /\ container'[q].acl_id = container[q].acl_id
           /\ container'[q].owner = container[q].owner
           /\ container'[q].pzxid = container[q].pzxid
           /\ container'[q].mzxid \in {container[q].mzxid, z}
  BY <1>0, <1>1 DEF Replaced
<1>5. Bounded(container', acl_map'.max_acl_id - 1, z, owners)
  BY <1>1, <1>2, <1>4 DEF Bounded
<1>6. Counted(container', acl_map')
  <2>1. \A k \in Nat \ {0} : Users(container', k) \subseteq Users(container, k)
    BY <1>4 DEF Users
  <2>2. IsFiniteSet(DOMAIN container)
    BY <1>2 DEF GoodTree
  <2>3. Counted(container', acl_map)
    BY <1>2, <2>1, <2>2, CountedStill
  <2>. QED BY <1>1, <2>3
<1>7. acl_map'.max_acl_id >= acl_map.max_acl_id
  BY <1>1, <1>2 DEF AclOK
<1>. QED BY <1>1, <1>2, <1>3, <1>5, <1>6, <1>7 DEF After

LEMMA SetACLKeeps ==
  ASSUME NEW s, NEW z, NEW owners, Before(s, z, owners), NEW req,
         SetACLError(s, req) = "ZOK", SetACL(s, req)
  PROVE  After(z, owners)
<1> DEFINE path == req.path
           n    == container[path]
           acls == FixupACL(req.acls, session_and_auth[s])
           id   == ConvertACLs(acl_map, acls)
           node == WithAcl(n, id)
<1>1. path \in DOMAIN container
  BY DEF SetACLError, Exists
<1>2. /\ GoodTree(container, ephemerals) /\ AclOK(acl_map) /\ Counted(container, acl_map)
      /\ z \in Nat /\ Bounded(container, acl_map.max_acl_id - 1, z, owners)
  BY DEF Before
<1>3. /\ container = [q \in DOMAIN container |-> container[q]] /\ n \in Node
  BY <1>1, <1>2 DEF GoodTree, NodeOK
<1>4. /\ container' = [container EXCEPT ![path].acl_id = id, ![path].aversion = @ + 1]
      /\ ephemerals' = ephemerals /\ acl_map' = UseACLs(acl_map, acls)
  BY DEF SetACL
<1> HIDE DEF acls
<1>5. /\ AclOK(acl_map') /\ acl_map'.max_acl_id >= acl_map.max_acl_id
      /\ id \in 0 .. acl_map'.max_acl_id - 1
      /\ \A k : UsageOf(acl_map', k) = IF k = id /\ id # 0 THEN UsageOf(acl_map, k) + 1
                                       ELSE UsageOf(acl_map, k)
  BY <1>2, <1>4, UseACLsEffect
<1> HIDE DEF path, id
<1>6. container' = Replaced(container, path, node)
  BY <1>1, <1>3, <1>4 DEF Replaced, WithAcl
<1>7. acl_map'.max_acl_id \in Nat /\ acl_map.max_acl_id \in Nat /\ id \in Nat
  BY <1>2, <1>5 DEF AclOK
<1>8. /\ node \in Node /\ node.children = n.children /\ node.cversion = n.cversion
      /\ node.numChildren = n.numChildren /\ node.owner = n.owner
      /\ node.acl_id = id /\ node.pzxid = n.pzxid /\ node.mzxid = n.mzxid
  BY <1>3, <1>7, WithAclIs
<1> HIDE DEF node
<1>9. GoodTree(container', ephemerals')
  <2>1. GoodTree(Replaced(container, path, node), ephemerals)
    BY <1>1, <1>2, <1>8, ReplacedGood
  <2>. QED BY <1>4, <1>6, <2>1
<1>10. /\ DOMAIN container' = DOMAIN container
       /\ \A q \in DOMAIN container :
            /\ container'[q].acl_id = IF q = path THEN id ELSE container[q].acl_id
            /\ container'[q].owner = container[q].owner
            /\ container'[q].pzxid = container[q].pzxid
            /\ container'[q].mzxid = container[q].mzxid
  BY <1>1, <1>6, <1>8 DEF Replaced
<1>11. Bounded(container', acl_map'.max_acl_id - 1, z, owners)
  <2> SUFFICES ASSUME NEW q \in DOMAIN container'
               PROVE  /\ container'[q].acl_id \in 0 .. acl_map'.max_acl_id - 1
                      /\ container'[q].mzxid <= z /\ container'[q].pzxid <= z
                      /\ container'[q].owner \in owners \cup {NoOwner}
    BY DEF Bounded
  <2>1. /\ container[q].acl_id \in 0 .. acl_map.max_acl_id - 1
        /\ container[q].mzxid <= z /\ container[q].pzxid <= z
        /\ container[q].owner \in owners \cup {NoOwner}
    BY <1>2, <1>10 DEF Bounded
  <2>. QED BY <1>5, <1>7, <1>10, <2>1
<1>12. Counted(container', acl_map')
  <2>1. GainsUser(container, container', id, path)
    BY <1>10 DEF Users, GainsUser
  <2>2. IsFiniteSet(DOMAIN container) /\ CountsOneMore(acl_map, acl_map', id)
    BY <1>2, <1>5 DEF GoodTree, CountsOneMore
  <2>. QED BY <1>2, <2>1, <2>2, CountedMore
<1>. QED BY <1>5, <1>9, <1>11, <1>12 DEF After

(* Whatever a request does, it leaves a tree, and counts the ACL numbers   *)
(* that its nodes have.                                                    *)
LEMMA ApplyKeeps ==
  ASSUME NEW s, NEW z, NEW owners, Before(s, z, owners), NEW req, IsRequest(req),
         ErrorCode(s, req) = "ZOK", Apply(s, req, z)
  PROVE  After(z, owners)
<1>1. CASE req.op = "create" /\ Create(s, req, z)
  <2>1. CreateError(s, req) = "ZOK"
    BY <1>1 DEF ErrorCode
  <2>. QED BY <1>1, <2>1, CreateKeeps
<1>2. CASE req.op = "remove" /\ Remove(req, z)
  <2>1. RemoveError(req) = "ZOK"
    BY <1>2 DEF ErrorCode
  <2>. QED BY <1>2, <2>1, RemoveKeeps
<1>3. CASE req.op = "set" /\ Set(req, z)
  <2>1. VersionError(req) = "ZOK"
    BY <1>3 DEF ErrorCode
  <2>. QED BY <1>3, <2>1, SetKeeps
<1>4. CASE req.op = "setacl" /\ SetACL(s, req)
  <2>1. SetACLError(s, req) = "ZOK"
    BY <1>4 DEF ErrorCode
  <2>. QED BY <1>4, <2>1, SetACLKeeps
<1>5. CASE UNCHANGED <<container, ephemerals, acl_map>>
  <2>1. acl_map.max_acl_id >= acl_map.max_acl_id
    BY DEF Before, AclOK
  <2>. QED BY <1>5, <2>1 DEF Before, After
<1>. QED BY <1>1, <1>2, <1>3, <1>4, <1>5 DEF Apply

-----------------------------------------------------------------------------
(* Multi                                                                   *)

Undos ==
  [op : {"create"}, path : Seq(Names), session : SessionIds, pzxid : Nat, acl_id : Nat]
    \cup [op : {"remove"}, path : Seq(Names), node : Node, pzxid : Nat]
    \cup [op : {"set"}, path : Seq(Names), node : Node]
    \cup [op : {"none"}]

(* The undo action u takes the nodes c1 and ephemerals e1 to c0 and e0.    *)
UndoesCreate(u, c1, e1, c0, e0) ==
  /\ u.op = "create"
  /\ u.path \in DOMAIN c1 \ {Root}
  /\ c1[u.path].acl_id = u.acl_id
  /\ c0 = UnAdded(c1, u.path, u.pzxid)
  /\ e0 = [e1 EXCEPT ![u.session] = @ \ {u.path}]

UndoesRemove(u, c1, e1, c0, e0) ==
  /\ u.op = "remove"
  /\ u.path # Root
  /\ ParentPath(u.path) \in DOMAIN c1
  /\ c0 = UnDeleted(c1, u.path, u.node, u.pzxid)
  /\ e0 = IF u.node.owner = NoOwner THEN e1
          ELSE [e1 EXCEPT ![u.node.owner] = @ \cup {u.path}]

UndoesSet(u, c1, e1, c0, e0) ==
  /\ u.op = "set"
  /\ u.path \in DOMAIN c1
  /\ c1[u.path].acl_id = u.node.acl_id
  /\ c0 = Replaced(c1, u.path, u.node)
  /\ e0 = e1

Undoes(u, c1, e1, c0, e0) ==
  /\ u \in Undos
  /\ \/ UndoesCreate(u, c1, e1, c0, e0)
     \/ UndoesRemove(u, c1, e1, c0, e0)
     \/ UndoesSet(u, c1, e1, c0, e0)
     \/ u.op = "none" /\ c0 = c1 /\ e0 = e1

(* The undo action recorded for a request undoes it.                       *)
LEMMA CreateUndoes ==
  ASSUME NEW s, NEW z, NEW owners, Before(s, z, owners), NEW req, IsRequest(req),
         req.op = "create", CreateError(s, req) = "ZOK", Create(s, req, z)
  PROVE  Undoes(UndoOf(s, req), container', ephemerals', container, ephemerals)
<1> DEFINE path  == PathCreated(req)
           owner == IF req.ephemeral THEN s ELSE NoOwner
           acls  == FixupACL(req.acls, session_and_auth[s])
           id    == ConvertACLs(acl_map, acls)
           node  == NewNode(z, owner, id)
           old   == container[ParentPath(path)].pzxid
           u     == UndoOf(s, req)
<1>1. /\ path \in Seq(Names) /\ path # Root /\ path \notin DOMAIN container
      /\ ParentPath(path) = ParentPath(req.path)
      /\ ParentPath(path) \in DOMAIN container
      /\ container' = Added(container, path, node, z)
      /\ ephemerals' = AddedTo(ephemerals, path, owner)
  BY CreateEffect
<1>2. /\ GoodTree(container, ephemerals) /\ AclOK(acl_map) /\ s \in SessionIds
  BY DEF Before
<1>3. u = [op |-> "create", path |-> path, session |-> s, pzxid |-> old, acl_id |-> id]
  BY <1>1 DEF UndoOf
<1>4. old \in Nat
  BY <1>1, <1>2 DEF GoodTree, NodeOK, Node
<1>5. id \in Nat
  <2>1. id \in 0 .. UseACLs(acl_map, acls).max_acl_id - 1
    BY <1>2, UseACLsEffect
  <2>. QED BY <2>1
<1>6. owner \in {s, NoOwner} /\ NoOwner \notin SessionIds
  BY DEF NoOwner, SessionIds
<1>7. node.acl_id = id
  BY DEF NewNode
<1> HIDE DEF path, owner, id, old, node, acls
<1>8. u \in Undos
  BY <1>1, <1>2, <1>3, <1>4, <1>5 DEF Undos
<1>9. /\ u.op = "create" /\ u.path = path /\ u.session = s /\ u.pzxid = old /\ u.acl_id = id
  BY <1>3
<1> HIDE DEF u
<1>10. container = UnAdded(container', path, old)
  BY <1>1, <1>2, AddedUndone DEF old
<1>11. path \in DOMAIN container' \ {Root} /\ container'[path].acl_id = id
  BY <1>1, <1>7 DEF Added
<1>12. ephemerals = [ephemerals' EXCEPT ![s] = @ \ {path}]
  <2>1. /\ ephemerals = [t \in SessionIds |-> ephemerals[t]]
        /\ \A t \in SessionIds : path \notin ephemerals[t]
    BY <1>1, <1>2 DEF GoodTree, OwnedBy
  <2>2. ephemerals' = [t \in SessionIds |-> ephemerals'[t]]
    BY <1>1 DEF AddedTo
  <2>3. ASSUME NEW t \in SessionIds
        PROVE  [ephemerals' EXCEPT ![s] = @ \ {path}][t] = ephemerals[t]
    <3>1. ephemerals'[t] = IF t = owner THEN ephemerals[t] \cup {path} ELSE ephemerals[t]
      BY <1>1 DEF AddedTo
    <3>2. [ephemerals' EXCEPT ![s] = @ \ {path}][t]
            = IF t = s THEN ephemerals'[t] \ {path} ELSE ephemerals'[t]
      BY <1>2, <2>2
    <3>. QED BY <1>2, <1>6, <2>1, <3>1, <3>2
  <2>4. [ephemerals' EXCEPT ![s] = @ \ {path}]
          = [t \in SessionIds |-> [ephemerals' EXCEPT ![s] = @ \ {path}][t]]
    BY <2>2
  <2>. QED BY <2>1, <2>3, <2>4
<1>. QED BY <1>8, <1>9, <1>10, <1>11, <1>12 DEF Undoes, UndoesCreate, u

LEMMA RemoveUndoes ==
  ASSUME NEW s, NEW z, NEW owners, Before(s, z, owners), NEW req,
         req.op = "remove", req.path # Root, RemoveError(req) = "ZOK", Remove(req, z)
  PROVE  Undoes(UndoOf(s, req), container', ephemerals', container, ephemerals)
<1> DEFINE path  == req.path
           node  == container[path]
           owner == node.owner
           old   == container[ParentPath(path)].pzxid
           u     == UndoOf(s, req)
<1>1. /\ path \in DOMAIN container /\ path # Root
      /\ container' = Deleted(container, path, z)
      /\ ephemerals' = TakenFrom(ephemerals, path, owner)
  BY RemoveEffect
<1>2. GoodTree(container, ephemerals)
  BY DEF Before
<1>3. u = [op |-> "remove", path |-> path, node |-> node, pzxid |-> old]
  BY DEF UndoOf
<1>4. /\ path \in Seq(Names) /\ node \in Node /\ Listed(container, path)
      /\ ParentPath(path) # path
  BY <1>1, <1>2, PathSplit DEF GoodTree, NodeOK
<1>5. ParentPath(path) \in DOMAIN container /\ old \in Nat
  BY <1>2, <1>4 DEF GoodTree, NodeOK, Node, Listed
<1>6. owner \in SessionIds \cup {NoOwner} /\ NoOwner \notin SessionIds
  BY <1>4 DEF Node, NoOwner, SessionIds
<1> HIDE DEF path, node
<1>7. u \in Undos
  <2> HIDE DEF old
  <2>. QED BY <1>3, <1>4, <1>5 DEF Undos
<1>8. u.op = "remove" /\ u.path = path /\ u.node = node /\ u.pzxid = old
  <2> HIDE DEF old
  <2>. QED BY <1>3
<1> HIDE DEF u
<1>9. container = UnDeleted(container', path, node, old)
  BY <1>1, <1>2, DeletedUndone DEF node
<1>10. ParentPath(path) \in DOMAIN container'
  BY <1>1, <1>4, <1>5 DEF Deleted
<1> HIDE DEF old, owner
<1>11. ephemerals = IF owner = NoOwner THEN ephemerals'
                    ELSE [ephemerals' EXCEPT ![owner] = @ \cup {path}]
  <2>1. /\ ephemerals = [t \in SessionIds |-> ephemerals[t]]
        /\ \A t \in SessionIds : path \in ephemerals[t] <=> t = owner
    BY <1>1, <1>2 DEF GoodTree, OwnedBy, owner, node
  <2>2. /\ ephemerals' = [t \in SessionIds |-> ephemerals'[t]]
        /\ \A t \in SessionIds :
             ephemerals'[t] = IF t = owner THEN ephemerals[t] \ {path} ELSE ephemerals[t]
    BY <1>1 DEF TakenFrom
  <2>3. CASE owner = NoOwner
    BY <1>6, <2>1, <2>2, <2>3
  <2>4. CASE owner # NoOwner
    <3> DEFINE f == [ephemerals' EXCEPT ![owner] = @ \cup {path}]
    <3>1. /\ f = [t \in SessionIds |-> f[t]]
          /\ \A t \in SessionIds :
               f[t] = IF t = owner THEN ephemerals'[t] \cup {path} ELSE ephemerals'[t]
      BY <1>6, <2>2, <2>4
    <3> HIDE DEF f
    <3>2. \A t \in SessionIds : f[t] = ephemerals[t]
      BY <2>1, <2>2, <3>1
    <3>3. f = ephemerals
      BY <2>1, <3>1, <3>2
    <3>. QED BY <2>4, <3>3 DEF f
  <2>. QED BY <2>3, <2>4
<1>. QED BY <1>1, <1>7, <1>8, <1>9, <1>10, <1>11 DEF Undoes, UndoesRemove, u, owner

LEMMA SetUndoes ==
  ASSUME NEW s, NEW z, NEW owners, Before(s, z, owners), NEW req, IsRequest(req),
         req.op = "set", VersionError(req) = "ZOK", Set(req, z)
  PROVE  Undoes(UndoOf(s, req), container', ephemerals', container, ephemerals)
<1> DEFINE path == req.path
           node == container[path]
           u    == UndoOf(s, req)
<1>1. /\ path \in DOMAIN container /\ node \in Node
      /\ container' = Replaced(container, path, WithData(node, z))
      /\ ephemerals' = ephemerals
  BY SetEffect
<1>2. u = [op |-> "set", path |-> path, node |-> node]
  BY DEF UndoOf
<1>3. /\ container = [q \in DOMAIN container |-> container[q]] /\ z \in Nat
  BY DEF Before, GoodTree
<1>4. path \in Seq(Names)
  BY DEF IsRequest
<1> HIDE DEF path
<1>5. container = Replaced(container', path, node)
  BY <1>1, <1>3 DEF Replaced
<1> HIDE DEF node
<1>6. u \in Undos /\ u.op = "set" /\ u.path = path /\ u.node = node
  BY <1>1, <1>2, <1>4 DEF Undos
<1>7. path \in DOMAIN container' /\ container'[path].acl_id = node.acl_id
  BY <1>1, <1>3, WithDataIs DEF Replaced
<1> HIDE DEF u
<1>. QED BY <1>1, <1>5, <1>6, <1>7 DEF Undoes, UndoesSet, u

LEMMA ApplyUndoes ==
  ASSUME NEW s, NEW z, NEW owners, Before(s, z, owners), NEW req, IsRequest(req),
         req.op \in MultiOps, req.op = "remove" => req.path # Root,
         ErrorCode(s, req) = "ZOK", Apply(s, req, z)
  PROVE  Undoes(UndoOf(s, req), container', ephemerals', container, ephemerals)
<1>1. CASE req.op = "create"
  <2>1. CreateError(s, req) = "ZOK" /\ Create(s, req, z)
    BY <1>1 DEF ErrorCode, Apply
  <2>. QED BY <1>1, <2>1, CreateUndoes
<1>2. CASE req.op = "remove"
  <2>1. RemoveError(req) = "ZOK" /\ Remove(req, z)
    BY <1>2 DEF ErrorCode, Apply
  <2>. QED BY <1>2, <2>1, RemoveUndoes
<1>3. CASE req.op = "set"
  <2>1. VersionError(req) = "ZOK" /\ Set(req, z)
    BY <1>3 DEF ErrorCode, Apply
  <2>. QED BY <1>3, <2>1, SetUndoes
<1>4. CASE req.op = "check"
  <2>1. container' = container /\ ephemerals' = ephemerals
    BY <1>4 DEF Apply
  <2>2. UndoOf(s, req) = [op |-> "none"]
    BY <1>4 DEF UndoOf
  <2>3. UndoOf(s, req) \in Undos /\ UndoOf(s, req).op = "none"
    BY <2>2 DEF Undos
  <2>. QED BY <2>1, <2>3 DEF Undoes
<1>. QED BY <1>1, <1>2, <1>3, <1>4 DEF MultiOps

(* Undo does what the undo action says.                                    *)
LEMMA UndoCreateIs ==
  ASSUME NEW u, GoodTree(container, ephemerals), u.path \in DOMAIN container \ {Root},
         UndoCreate(u)
  PROVE  /\ container' = UnAdded(container, u.path, u.pzxid)
         /\ ephemerals' = [ephemerals EXCEPT ![u.session] = @ \ {u.path}]
         /\ acl_map' = RemoveUsage(acl_map, u.acl_id)
<1> DEFINE path   == u.path
           parent == ParentPath(path)
           name   == GetBaseName(path)
           rest   == Drop(container, {path})
<1>1. /\ container' = ExceptUnAdd(rest, parent, name, u.pzxid)
      /\ ephemerals' = [ephemerals EXCEPT ![u.session] = @ \ {path}]
      /\ acl_map' = RemoveUsage(acl_map, u.acl_id)
  BY DEF UndoCreate, ExceptUnAdd
<1>2. path \in Seq(Names) /\ path # Root /\ Listed(container, path)
  BY DEF GoodTree, NodeOK
<1>3. parent \in DOMAIN container /\ parent # path
  BY <1>2, PathSplit DEF Listed
<1>4. container[parent] \in Node
  BY <1>3 DEF GoodTree, NodeOK
<1> HIDE DEF parent, path, name
<1>5. /\ DOMAIN rest = DOMAIN container \ {path}
      /\ rest = [q \in DOMAIN rest |-> rest[q]]
      /\ \A q \in DOMAIN rest : rest[q] = container[q]
  BY DEF Drop
<1> HIDE DEF rest
<1>6. parent \in DOMAIN rest /\ rest[parent] \in Node /\ rest[parent] = container[parent]
  BY <1>3, <1>4, <1>5
<1>7. container' = Replaced(rest, parent, WithoutNewChild(rest[parent], name, u.pzxid))
  BY <1>1, <1>5, <1>6, ExceptUnAddIs
<1>8. container' = UnAdded(container, path, u.pzxid)
  <2> DEFINE t == WithoutNewChild(container[parent], name, u.pzxid)
  <2>1. container' = Replaced(rest, parent, t)
    BY <1>6, <1>7
  <2>2. UnAdded(container, path, u.pzxid)
          = [q \in DOMAIN container \ {path} |-> IF q = parent THEN t ELSE container[q]]
    BY DEF UnAdded, parent, name
  <2> HIDE DEF t
  <2>. QED BY <1>5, <2>1, <2>2 DEF Replaced
<1>. QED BY <1>1, <1>8 DEF path

LEMMA UndoRemoveIs ==
  ASSUME NEW u, GoodTree(container, ephemerals), u.path \in Seq(Names) \ {Root},
         ParentPath(u.path) \in DOMAIN container, UndoRemove(u)
  PROVE  /\ container' = UnDeleted(container, u.path, u.node, u.pzxid)
         /\ ephemerals' = IF u.node.owner = NoOwner THEN ephemerals
                          ELSE [ephemerals EXCEPT ![u.node.owner] = @ \cup {u.path}]
         /\ acl_map' = AddUsage(acl_map, u.node.acl_id)
<1> DEFINE path     == u.path
           parent   == ParentPath(path)
           name     == GetBaseName(path)
           restored == Put(container, path, u.node)
<1>1. /\ container' = ExceptUnDelete(restored, parent, name, u.pzxid)
      /\ ephemerals' = IF u.node.owner = NoOwner THEN ephemerals
                       ELSE [ephemerals EXCEPT ![u.node.owner] = @ \cup {path}]
      /\ acl_map' = AddUsage(acl_map, u.node.acl_id)
  BY DEF UndoRemove, ExceptUnDelete
<1>2. parent \in DOMAIN container /\ parent # path
  BY PathSplit
<1>3. container[parent] \in Node
  BY <1>2 DEF GoodTree, NodeOK
<1> HIDE DEF parent, path, name
<1>4. /\ DOMAIN restored = DOMAIN container \cup {path}
      /\ restored = [q \in DOMAIN restored |-> restored[q]]
      /\ \A q \in DOMAIN restored : restored[q] = IF q = path THEN u.node ELSE container[q]
  BY DEF Put
<1> HIDE DEF restored
<1>5. /\ parent \in DOMAIN restored /\ restored[parent] \in Node
      /\ restored[parent] = container[parent]
  BY <1>2, <1>3, <1>4
<1>6. container' = Replaced(restored, parent, WithChildAgain(restored[parent], name, u.pzxid))
  <2>1. ExceptUnDelete(restored, parent, name, u.pzxid)
          = Replaced(restored, parent, WithChildAgain(restored[parent], name, u.pzxid))
    BY <1>4, <1>5, ExceptUnDeleteIs
  <2>. QED BY <1>1, <2>1
<1>7. container' = UnDeleted(container, path, u.node, u.pzxid)
  <2> DEFINE t == WithChildAgain(container[parent], name, u.pzxid)
  <2>1. container' = Replaced(restored, parent, t)
    BY <1>5, <1>6
  <2>2. UnDeleted(container, path, u.node, u.pzxid)
          = [q \in DOMAIN container \cup {path} |->
               IF q = path THEN u.node ELSE IF q = parent THEN t ELSE container[q]]
    BY <1>2 DEF UnDeleted, parent, name
  <2> HIDE DEF t
  <2>. QED BY <1>2, <1>4, <2>1, <2>2 DEF Replaced
<1>. QED BY <1>1, <1>7 DEF path

LEMMA UndoKeeps ==
  ASSUME NEW u, NEW c0, NEW e0, GoodTree(container, ephemerals), GoodTree(c0, e0),
         Undoes(u, container, ephemerals, c0, e0), Undo(u),
         AclOK(acl_map), Counted(container, acl_map),
         \A path \in DOMAIN c0 : c0[path].acl_id \in 0 .. acl_map.max_acl_id - 1
  PROVE  /\ container' = c0 /\ ephemerals' = e0
         /\ AclOK(acl_map') /\ acl_map'.max_acl_id = acl_map.max_acl_id
         /\ Counted(container', acl_map')
<1>1. u \in Undos /\ IsFiniteSet(DOMAIN container)
  BY DEF Undoes, GoodTree
<1>2. CASE u.op = "create"
  <2>1. UndoesCreate(u, container, ephemerals, c0, e0) /\ UndoCreate(u)
    BY <1>2 DEF Undoes, Undo, UndoesCreate, UndoesRemove, UndoesSet
  <2>2. /\ u.path \in DOMAIN container \ {Root} /\ container[u.path].acl_id = u.acl_id
        /\ c0 = UnAdded(container, u.path, u.pzxid)
        /\ e0 = [ephemerals EXCEPT ![u.session] = @ \ {u.path}]
    BY <2>1 DEF UndoesCreate
  <2>3. /\ container' = c0 /\ ephemerals' = e0
        /\ acl_map' = RemoveUsage(acl_map, u.acl_id)
    BY <2>1, <2>2, UndoCreateIs
  <2>4. /\ AclOK(acl_map') /\ acl_map'.max_acl_id = acl_map.max_acl_id
        /\ \A k : UsageOf(acl_map', k)
                    = IF k = u.acl_id /\ UsageOf(acl_map, k) # 0 THEN UsageOf(acl_map, k) - 1
                      ELSE UsageOf(acl_map, k)
    BY <2>3, RemoveUsageEffect
  <2>5. u.acl_id \in Nat /\ u.path \in Users(container, u.acl_id)
    BY <2>2 DEF GoodTree, NodeOK, Node, Users
  <2>6. /\ DOMAIN c0 = DOMAIN container \ {u.path}
        /\ \A q \in DOMAIN c0 : c0[q].acl_id = container[q].acl_id
    BY <2>2 DEF UnAdded, WithoutNewChild, Touch
  <2>7. \A k \in Nat \ {0} : Users(c0, k) = Users(container, k) \ {u.path}
    BY <2>6 DEF Users
  <2>8. Counted(c0, acl_map')
    BY <1>1, <2>4, <2>5, <2>7, CountedLess
  <2>. QED BY <2>3, <2>4, <2>8
<1>3. CASE u.op = "remove"
  <2>1. UndoesRemove(u, container, ephemerals, c0, e0) /\ UndoRemove(u)
    BY <1>3 DEF Undoes, Undo, UndoesCreate, UndoesRemove, UndoesSet
  <2>2. /\ u.path # Root /\ ParentPath(u.path) \in DOMAIN container
        /\ c0 = UnDeleted(container, u.path, u.node, u.pzxid)
        /\ e0 = IF u.node.owner = NoOwner THEN ephemerals
                ELSE [ephemerals EXCEPT ![u.node.owner] = @ \cup {u.path}]
    BY <2>1 DEF UndoesRemove
  <2>3. u.path \in Seq(Names)
    BY <1>1, <1>3 DEF Undos
  <2>4. /\ container' = c0 /\ ephemerals' = e0
        /\ acl_map' = AddUsage(acl_map, u.node.acl_id)
    BY <2>1, <2>2, <2>3, UndoRemoveIs
  <2>5. /\ DOMAIN c0 = DOMAIN container \cup {u.path}
        /\ c0[u.path] = u.node
        /\ \A q \in DOMAIN container : q # u.path => c0[q].acl_id = container[q].acl_id
    BY <2>2 DEF UnDeleted, WithChildAgain, Touch
  <2>6. u.node.acl_id \in 0 .. acl_map.max_acl_id - 1
    BY <2>5
  <2>7. /\ AclOK(acl_map') /\ acl_map'.max_acl_id = acl_map.max_acl_id
        /\ CountsOneMore(acl_map, acl_map', u.node.acl_id)
    BY <2>4, <2>6, AddUsageEffect DEF CountsOneMore
  <2>8. GainsUser(container, c0, u.node.acl_id, u.path)
    BY <2>5 DEF GainsUser, Users
  <2>9. Counted(c0, acl_map')
    BY <1>1, <2>7, <2>8, CountedMore
  <2>. QED BY <2>4, <2>7, <2>9
<1>4. CASE u.op = "set"
  <2>1. UndoesSet(u, container, ephemerals, c0, e0) /\ UndoSet(u)
    BY <1>4 DEF Undoes, Undo, UndoesCreate, UndoesRemove, UndoesSet
  <2>2. /\ u.path \in DOMAIN container /\ container[u.path].acl_id = u.node.acl_id
        /\ c0 = Replaced(container, u.path, u.node) /\ e0 = ephemerals
    BY <2>1 DEF UndoesSet
  <2>3. container' = c0 /\ ephemerals' = e0 /\ acl_map' = acl_map
    BY <2>1, <2>2 DEF UndoSet, Put, Replaced
  <2>4. \A k \in Nat \ {0} : Users(c0, k) \subseteq Users(container, k)
    BY <2>2 DEF Users, Replaced
  <2>5. Counted(c0, acl_map)
    BY <1>1, <2>4, CountedStill
  <2>. QED BY <2>3, <2>5
<1>5. CASE u.op = "none"
  <2>1. c0 = container /\ e0 = ephemerals
    BY <1>5 DEF Undoes, UndoesCreate, UndoesRemove, UndoesSet
  <2>2. UNCHANGED <<container, ephemerals, acl_map>>
    BY <1>5 DEF Undo
  <2>. QED BY <2>1, <2>2
<1>6. u.op \in {"create", "remove", "set", "none"}
  BY <1>1 DEF Undos
<1>. QED BY <1>2, <1>3, <1>4, <1>5, <1>6

-----------------------------------------------------------------------------
(* The inductive invariant                                                 *)

(* The trees a Multi has gone through and can go back through: the undo    *)
(* action at i takes the tree at i + 1 to the one at i.                    *)
GoodHistory(h, undos, ids, z, owners) ==
  /\ \A i \in 1 .. Len(undos) + 1 :
       /\ h[i] = <<h[i][1], h[i][2]>>
       /\ GoodTree(h[i][1], h[i][2])
       /\ Bounded(h[i][1], ids, z, owners)
  /\ \A i \in 1 .. Len(undos) :
       Undoes(undos[i], h[i + 1][1], h[i + 1][2], h[i][1], h[i][2])

SessionsOK ==
  /\ session_id_counter \in 1 .. MaxSessions + 1
  /\ sessions \subseteq 1 .. session_id_counter - 1
  /\ session_and_auth \in [SessionIds -> SUBSET AuthIds]
  /\ zxid \in Nat

TreeOK ==
  /\ GoodTree(container, ephemerals)
  /\ AclOK(acl_map)
  /\ Counted(container, acl_map)

StampsOK ==
  /\ Bounded(container, acl_map.max_acl_id - 1, zxid, sessions)
  /\ \A path \in DOMAIN container \ {Root} :
       container[path].mzxid < zxid /\ container[path].pzxid < zxid

MultiRecord(m) ==
  /\ m \in [at : {"running", "undoing"}, session : sessions, requests : Multis,
            zxid : 0 .. zxid, undo_actions : Seq(Undos), before : {m.before}]
  /\ Len(m.undo_actions) <= Len(m.requests)

(* The history starts with the tree the Multi has found, and ends with the *)
(* tree of now.                                                            *)
Undoable(m, h) ==
  /\ GoodHistory(h, m.undo_actions, acl_map.max_acl_id - 1, m.zxid, sessions)
  /\ h[1] = m.before
  /\ h[Len(m.undo_actions) + 1] = <<container, ephemerals>>

TreeInv ==
  /\ SessionsOK
  /\ TreeOK
  /\ multi = Idle => StampsOK
  /\ multi # Idle => MultiRecord(multi) /\ \E h : Undoable(multi, h)

LEMMA BoundedMore ==
  ASSUME NEW c, NEW i \in Int, NEW j \in Int, i <= j, NEW z \in Int, NEW w \in Int, z <= w,
         NEW owners, NEW others, owners \subseteq others,
         NEW e, GoodTree(c, e), Bounded(c, i, z, owners)
  PROVE  Bounded(c, j, w, others)
<1> SUFFICES ASSUME NEW path \in DOMAIN c
             PROVE  /\ c[path].acl_id \in 0 .. j
                    /\ c[path].mzxid <= w
                    /\ c[path].pzxid <= w
                    /\ c[path].owner \in others \cup {NoOwner}
  BY DEF Bounded
<1>1. /\ c[path].acl_id \in 0 .. i /\ c[path].mzxid <= z /\ c[path].pzxid <= z
      /\ c[path].owner \in owners \cup {NoOwner}
  BY DEF Bounded
<1>2. c[path].mzxid \in Nat /\ c[path].pzxid \in Nat
  BY DEF GoodTree, NodeOK, Node
<1>. QED BY <1>1, <1>2

LEMMA SessionsAreIds ==
  ASSUME SessionsOK
  PROVE  sessions \subseteq SessionIds
  BY TreeAssumption DEF SessionsOK, SessionIds

(* The tree of a Multi is the last of its history.                         *)
LEMMA MultiBounded ==
  ASSUME TreeInv, multi # Idle
  PROVE  Bounded(container, acl_map.max_acl_id - 1, multi.zxid, sessions)
<1>1. PICK h : Undoable(multi, h)
  BY DEF TreeInv
<1>2. Len(multi.undo_actions) \in Nat
  BY DEF TreeInv, MultiRecord
<1> DEFINE n == Len(multi.undo_actions) + 1
<1>3. n \in 1 .. n
  BY <1>2
<1>4. Bounded(h[n][1], acl_map.max_acl_id - 1, multi.zxid, sessions)
  BY <1>1, <1>3 DEF Undoable, GoodHistory
<1>5. h[n][1] = container
  BY <1>1 DEF Undoable
<1>. QED BY <1>4, <1>5

-----------------------------------------------------------------------------
(* One lemma per action                                                    *)

LEMMA InitTree ==
  ASSUME Init
  PROVE  TreeInv
<1>1. SessionsOK
  BY TreeAssumption DEF Init, SessionsOK
<1> DEFINE node == NewNode(0, NoOwner, 0)
<1>2. /\ DOMAIN container = {Root} /\ container[Root] = node
      /\ container = [path \in DOMAIN container |-> container[path]]
  BY DEF Init
<1>3. node \in Node /\ node.children = {} /\ node.numChildren = 0 /\ node.owner = NoOwner
      /\ node.acl_id = 0 /\ node.mzxid = 0 /\ node.pzxid = 0
  BY DEF NewNode, Node, SessionIds, NoOwner
<1> HIDE DEF node
<1>4. GoodTree(container, ephemerals)
  <2>1. IsFiniteSet({Root}) /\ IsFiniteSet({}) /\ Cardinality({}) = 0
    BY FS_Singleton, FS_EmptySet
  <2>2. NodeOK(container, Root)
    BY <1>2, <1>3, <2>1 DEF NodeOK, Root
  <2>3. \A s \in SessionIds : OwnedBy(container, s) = {}
    BY <1>2, <1>3, TreeAssumption DEF OwnedBy, SessionIds, NoOwner
  <2>4. ephemerals = [s \in SessionIds |-> OwnedBy(container, s)]
    BY <2>3 DEF Init
  <2>. QED BY <1>2, <2>1, <2>2, <2>4 DEF GoodTree
<1>5. AclOK(acl_map) /\ acl_map.max_acl_id = 1
  BY DEF Init, AclOK
<1>6. Counted(container, acl_map)
  <2> SUFFICES ASSUME NEW id \in Nat \ {0}
               PROVE  Cardinality(Users(container, id)) <= UsageOf(acl_map, id)
    BY DEF Counted
  <2>1. Users(container, id) = {}
    BY <1>2, <1>3 DEF Users
  <2>2. UsageOf(acl_map, id) \in Nat
    BY <1>5, UsageType
  <2>. QED BY <2>1, <2>2, FS_EmptySet
<1>7. StampsOK
  BY <1>2, <1>3, <1>5 DEF StampsOK, Bounded, Init
<1>8. multi = Idle
  BY DEF Init
<1>. QED BY <1>1, <1>4, <1>5, <1>6, <1>7, <1>8 DEF TreeInv, TreeOK

(* What a step leaves alone.                                               *)
LEMMA TreeOKStutter ==
  ASSUME TreeOK, UNCHANGED <<container, ephemerals, acl_map>>
  PROVE  TreeOK'
  BY DEF TreeOK

(* A larger zxid, and more sessions.                                       *)
LEMMA StampsLater ==
  ASSUME TreeInv, multi = Idle, UNCHANGED <<container, acl_map>>,
         zxid' \in Nat, zxid' >= zxid, sessions \subseteq sessions'
  PROVE  StampsOK'
<1>1. StampsOK /\ zxid \in Nat /\ GoodTree(container, ephemerals) /\ acl_map.max_acl_id \in Nat
  BY DEF TreeInv, SessionsOK, TreeOK, AclOK
<1>2. Bounded(container, acl_map.max_acl_id - 1, zxid', sessions')
  BY <1>1, BoundedMore DEF StampsOK
<1>3. ASSUME NEW path \in DOMAIN container \ {Root}
      PROVE  container[path].mzxid < zxid' /\ container[path].pzxid < zxid'
  <2>1. container[path].mzxid < zxid /\ container[path].pzxid < zxid
    BY <1>1, <1>3 DEF StampsOK
  <2>2. container[path].mzxid \in Nat /\ container[path].pzxid \in Nat
    BY <1>1, <1>3 DEF GoodTree, NodeOK, Node
  <2>. QED BY <1>1, <2>1, <2>2
<1>. QED BY <1>2, <1>3 DEF StampsOK

(* Refuse and Fail take a zxid and change nothing else.                    *)
LEMMA NothingDoneTree ==
  ASSUME TreeInv, multi = Idle, zxid' = zxid + 1,
         UNCHANGED <<container, ephemerals, session_id_counter, sessions,
                     session_and_auth, acl_map, multi>>
  PROVE  TreeInv'
<1>1. zxid \in Nat /\ zxid' \in Nat /\ zxid' >= zxid
  BY DEF TreeInv, SessionsOK
<1>2. SessionsOK'
  BY <1>1 DEF TreeInv, SessionsOK
<1>3. TreeOK'
  BY TreeOKStutter DEF TreeInv
<1>4. StampsOK'
  BY <1>1, StampsLater
<1>5. multi' = Idle
  OBVIOUS
<1>. QED BY <1>2, <1>3, <1>4, <1>5 DEF TreeInv

LEMMA AuthTree ==
  ASSUME TreeInv, NEW s \in SessionIds, NEW id \in AuthIds, Auth(s, id)
  PROVE  TreeInv'
<1>1. /\ multi = Idle /\ multi' = Idle /\ zxid' = zxid /\ sessions' = sessions
      /\ UNCHANGED <<container, ephemerals, acl_map, session_id_counter>>
      /\ session_and_auth' = [session_and_auth EXCEPT ![s] = @ \cup {id}]
  BY DEF Auth
<1>2. SessionsOK'
  BY <1>1 DEF TreeInv, SessionsOK
<1>3. TreeOK'
  BY <1>1, TreeOKStutter DEF TreeInv
<1>4. StampsOK'
  <2>1. zxid' \in Nat /\ zxid' >= zxid
    BY <1>1 DEF TreeInv, SessionsOK
  <2>. QED BY <1>1, <2>1, StampsLater
<1>. QED BY <1>1, <1>2, <1>3, <1>4 DEF TreeInv

LEMMA NewSessionTree ==
  ASSUME TreeInv, NewSession
  PROVE  TreeInv'
<1>1. /\ session_id_counter <= MaxSessions
      /\ sessions' = sessions \cup {session_id_counter}
      /\ session_id_counter' = session_id_counter + 1
      /\ zxid' = zxid + 1
      /\ UNCHANGED <<container, ephemerals, session_and_auth, acl_map, multi>>
  BY DEF NewSession
<1>2. zxid \in Nat /\ zxid' \in Nat /\ zxid' >= zxid /\ sessions \subseteq sessions'
  BY <1>1 DEF TreeInv, SessionsOK
<1>3. SessionsOK'
  BY <1>1, <1>2, TreeAssumption DEF TreeInv, SessionsOK
<1>4. TreeOK'
  BY <1>1, TreeOKStutter DEF TreeInv
<1>5. multi = Idle => StampsOK'
  BY <1>1, <1>2, StampsLater
<1>6. ASSUME multi # Idle
      PROVE  MultiRecord(multi)' /\ (\E h : Undoable(multi, h))'
  <2>1. MultiRecord(multi)
    BY <1>6 DEF TreeInv
  <2>2. MultiRecord(multi)'
    BY <1>1, <1>2, <2>1 DEF MultiRecord
  <2>3. PICK h : Undoable(multi, h)
    BY <1>6 DEF TreeInv
  <2> DEFINE ids == acl_map.max_acl_id - 1
             z   == multi.zxid
  <2>4. ids \in Int /\ z \in Int /\ Len(multi.undo_actions) \in Nat
    BY <1>2, <2>1 DEF TreeInv, TreeOK, AclOK, MultiRecord
  <2> HIDE DEF ids, z
  <2>5. ASSUME NEW i \in 1 .. Len(multi.undo_actions) + 1
        PROVE  GoodTree(h[i][1], h[i][2]) /\ Bounded(h[i][1], ids, z, sessions')
    <3>1. GoodTree(h[i][1], h[i][2]) /\ Bounded(h[i][1], ids, z, sessions)
      BY <2>3, <2>5 DEF Undoable, GoodHistory, ids, z
    <3>2. ids <= ids /\ z <= z
      BY <2>4
    <3>. QED BY <1>2, <2>4, <3>1, <3>2, BoundedMore
  <2>6. GoodHistory(h, multi.undo_actions, ids, z, sessions')
    BY <2>3, <2>5 DEF Undoable, GoodHistory
  <2>7. Undoable(multi, h)'
    BY <1>1, <2>3, <2>6 DEF Undoable, ids, z
  <2>. QED BY <2>2, <2>7
<1>7. multi' = multi
  BY <1>1
<1>. QED BY <1>3, <1>4, <1>5, <1>6, <1>7 DEF TreeInv

LEMMA ProcessTree ==
  ASSUME TreeInv, NEW s \in SessionIds, NEW req \in Requests, Process(s, req)
  PROVE  TreeInv'
<1>1. /\ multi = Idle /\ s \in sessions /\ ErrorCode(s, req) = "ZOK" /\ Apply(s, req, zxid)
      /\ zxid' = zxid + 1
      /\ UNCHANGED <<session_id_counter, sessions, session_and_auth, multi>>
  BY DEF Process, Serving
<1>2. IsRequest(req) /\ zxid \in Nat /\ zxid' \in Nat
  BY <1>1, RequestAssumption DEF TreeInv, SessionsOK
<1>3. Before(s, zxid, sessions)
  BY <1>1, <1>2 DEF Before, TreeInv, TreeOK, StampsOK
<1>4. After(zxid, sessions)
  BY <1>1, <1>2, <1>3, ApplyKeeps
<1>5. SessionsOK'
  BY <1>1, <1>2 DEF TreeInv, SessionsOK
<1>6. TreeOK'
  BY <1>4 DEF After, TreeOK
<1>7. StampsOK'
  <2>1. /\ GoodTree(container', ephemerals')
        /\ Bounded(container', acl_map'.max_acl_id - 1, zxid, sessions)
        /\ acl_map'.max_acl_id \in Nat
    BY <1>4 DEF After, AclOK
  <2>2. Bounded(container', acl_map'.max_acl_id - 1, zxid', sessions')
    <3> DEFINE ids == acl_map'.max_acl_id - 1
    <3>1. ids \in Int /\ ids <= ids /\ zxid <= zxid' /\ sessions \subseteq sessions'
      BY <1>1, <1>2, <2>1
    <3> HIDE DEF ids
    <3>2. Bounded(container', ids, zxid', sessions')
      BY <1>2, <2>1, <3>1, BoundedMore DEF ids
    <3>. QED BY <3>2 DEF ids
  <2>3. ASSUME NEW path \in DOMAIN container'
        PROVE  container'[path].mzxid < zxid' /\ container'[path].pzxid < zxid'
    <3>1. container'[path].mzxid <= zxid /\ container'[path].pzxid <= zxid
      BY <2>1, <2>3 DEF Bounded
    <3>2. container'[path].mzxid \in Nat /\ container'[path].pzxid \in Nat
      BY <2>1, <2>3 DEF GoodTree, NodeOK, Node
    <3>. QED BY <1>1, <1>2, <3>1, <3>2
  <2>. QED BY <2>2, <2>3 DEF StampsOK
<1>8. multi' = Idle
  BY <1>1
<1>. QED BY <1>5, <1>6, <1>7, <1>8 DEF TreeInv

(* Closing takes nodes away and leaves stamps and ACL numbers.             *)
LEMMA ClosedFields ==
  ASSUME NEW c, NEW e, GoodTree(c, e), NEW gone
  PROVE  /\ DOMAIN ClosedTree(c, gone) = DOMAIN c \ gone
         /\ \A q \in DOMAIN c \ gone :
              /\ ClosedTree(c, gone)[q].acl_id = c[q].acl_id
              /\ ClosedTree(c, gone)[q].mzxid = c[q].mzxid
              /\ ClosedTree(c, gone)[q].pzxid = c[q].pzxid
              /\ ClosedTree(c, gone)[q].owner = c[q].owner
<1>1. DOMAIN ClosedTree(c, gone) = DOMAIN c \ gone
  BY DEF ClosedTree
<1>2. ASSUME NEW q \in DOMAIN c \ gone
      PROVE  /\ ClosedTree(c, gone)[q].acl_id = c[q].acl_id
             /\ ClosedTree(c, gone)[q].mzxid = c[q].mzxid
             /\ ClosedTree(c, gone)[q].pzxid = c[q].pzxid
             /\ ClosedTree(c, gone)[q].owner = c[q].owner
  <2> DEFINE k == Cardinality({p \in gone : ParentPath(p) = q})
             l == {GetBaseName(p) : p \in {r \in gone : ParentPath(r) = q}}
             n == c[q]
  <2>1. ClosedTree(c, gone)[q] = [n EXCEPT !.children = @ \ l, !.numChildren = @ - k]
    BY <1>2 DEF ClosedTree
  <2> HIDE DEF k, l, n
  <2>2. n \in Node
    BY DEF GoodTree, NodeOK, n
  <2>. QED BY <2>1, <2>2 DEF Node, n
<1>. QED BY <1>1, <1>2

LEMMA CloseTree ==
  ASSUME TreeInv, NEW s \in SessionIds, Close(s)
  PROVE  TreeInv'
<1>1. /\ multi = Idle /\ multi' = Idle
      /\ container' = WithoutNodes(ephemerals[s])
      /\ ephemerals' = [ephemerals EXCEPT ![s] = {}]
      /\ sessions' = sessions \ {s}
      /\ session_and_auth' = [session_and_auth EXCEPT ![s] = {}]
      /\ zxid' = zxid + 1
      /\ UNCHANGED <<session_id_counter, acl_map>>
  BY DEF Close
<1> DEFINE gone == ephemerals[s]
<1>2. container' = ClosedTree(container, gone)
  BY <1>1 DEF WithoutNodes, ClosedTree
<1>3. /\ GoodTree(container, ephemerals) /\ AclOK(acl_map) /\ Counted(container, acl_map)
      /\ StampsOK /\ zxid \in Nat /\ IsFiniteSet(DOMAIN container)
  BY <1>1 DEF TreeInv, TreeOK, SessionsOK, GoodTree
<1>4. GoodTree(container', ephemerals')
  BY <1>1, <1>2, <1>3, ClosedGood, ZenonT(30)
<1>5. /\ DOMAIN container' = DOMAIN container \ gone
      /\ \A q \in DOMAIN container' :
           /\ container'[q].acl_id = container[q].acl_id
           /\ container'[q].mzxid = container[q].mzxid
           /\ container'[q].pzxid = container[q].pzxid
           /\ container'[q].owner = container[q].owner
  <2> HIDE DEF gone
  <2>1. /\ DOMAIN ClosedTree(container, gone) = DOMAIN container \ gone
        /\ \A q \in DOMAIN container \ gone :
             /\ ClosedTree(container, gone)[q].acl_id = container[q].acl_id
             /\ ClosedTree(container, gone)[q].mzxid = container[q].mzxid
             /\ ClosedTree(container, gone)[q].pzxid = container[q].pzxid
             /\ ClosedTree(container, gone)[q].owner = container[q].owner
    BY <1>3, ClosedFields, Zenon
  <2>. QED BY <1>2, <2>1, Zenon
<1>6. TreeOK'
  <2>1. \A k \in Nat \ {0} : Users(container', k) \subseteq Users(container, k)
    BY <1>5 DEF Users
  <2>2. Counted(container', acl_map)
    BY <1>3, <2>1, CountedStill
  <2>. QED BY <1>1, <1>3, <1>4, <2>2 DEF TreeOK
<1>7. SessionsOK'
  <2>1. zxid' \in Nat
    BY <1>1, <1>3
  <2>2. session_and_auth' \in [SessionIds -> SUBSET AuthIds]
    BY <1>1 DEF TreeInv, SessionsOK
  <2>3. sessions' \subseteq 1 .. session_id_counter' - 1
    BY <1>1 DEF TreeInv, SessionsOK
  <2>. QED BY <1>1, <2>1, <2>2, <2>3 DEF TreeInv, SessionsOK
<1>8. StampsOK'
  <2>1. ASSUME NEW q \in DOMAIN container'
        PROVE  /\ container'[q].acl_id \in 0 .. acl_map.max_acl_id - 1
               /\ container'[q].mzxid <= zxid' /\ container'[q].pzxid <= zxid'
               /\ container'[q].owner \in sessions' \cup {NoOwner}
               /\ q # Root => container'[q].mzxid < zxid' /\ container'[q].pzxid < zxid'
    <3>1. /\ container[q].acl_id \in 0 .. acl_map.max_acl_id - 1
          /\ container[q].mzxid <= zxid /\ container[q].pzxid <= zxid
          /\ container[q].owner \in sessions \cup {NoOwner}
      BY <1>3, <1>5, <2>1 DEF StampsOK, Bounded
    <3>2. container[q].mzxid \in Nat /\ container[q].pzxid \in Nat
      BY <1>3, <1>5, <2>1 DEF GoodTree, NodeOK, Node
    <3>3. container[q].owner # s
      <4>1. gone = OwnedBy(container, s)
        BY <1>3 DEF GoodTree
      <4>. QED BY <1>5, <2>1, <4>1 DEF OwnedBy
    <3>4. /\ container'[q].acl_id = container[q].acl_id
          /\ container'[q].mzxid = container[q].mzxid
          /\ container'[q].pzxid = container[q].pzxid
          /\ container'[q].owner = container[q].owner
      BY <1>5, <2>1
    <3>5. container[q].mzxid < zxid' /\ container[q].pzxid < zxid'
      BY <1>1, <1>3, <3>1, <3>2
    <3>6. container[q].mzxid <= zxid' /\ container[q].pzxid <= zxid'
      BY <1>1, <1>3, <3>1, <3>2
    <3>7. container[q].owner \in sessions' \cup {NoOwner}
      BY <1>1, <3>1, <3>3
    <3>. QED BY <3>1, <3>4, <3>5, <3>6, <3>7
  <2>2. acl_map' = acl_map
    BY <1>1
  <2>. QED BY <2>1, <2>2 DEF StampsOK, Bounded
<1>. QED BY <1>1, <1>6, <1>7, <1>8 DEF TreeInv

LEMMA MultiStartTree ==
  ASSUME TreeInv, NEW s \in SessionIds, NEW reqs \in Multis, MultiStart(s, reqs)
  PROVE  TreeInv'
<1> DEFINE start == [at |-> "running", session |-> s, requests |-> reqs, zxid |-> zxid,
                     undo_actions |-> <<>>, before |-> <<container, ephemerals>>]
<1>1. /\ multi = Idle /\ s \in sessions /\ multi' = start
      /\ UNCHANGED <<container, ephemerals, session_id_counter, sessions,
                     session_and_auth, acl_map, zxid>>
  BY DEF MultiStart, Serving
<1>2. SessionsOK'
  BY <1>1 DEF TreeInv, SessionsOK
<1>3. TreeOK'
  BY <1>1, TreeOKStutter DEF TreeInv
<1>4. /\ multi'.at = "running" /\ multi'.undo_actions = <<>> /\ multi'.zxid = zxid
      /\ multi'.requests = reqs /\ multi'.before = <<container, ephemerals>>
  BY <1>1
<1>5. MultiRecord(multi)'
  <2>1. Len(reqs) \in Nat
    BY RequestAssumption
  <2>2. zxid \in 0 .. zxid
    BY DEF TreeInv, SessionsOK
  <2>3. <<>> \in Seq(Undos) /\ Len(<<>>) <= Len(reqs)
    BY <2>1
  <2>4. start \in [at : {"running", "undoing"}, session : sessions, requests : Multis,
                   zxid : 0 .. zxid, undo_actions : Seq(Undos), before : {start.before}]
    BY <1>1, <2>2, <2>3
  <2>5. MultiRecord(start)
    BY <2>3, <2>4 DEF MultiRecord
  <2>6. sessions' = sessions /\ zxid' = zxid
    BY <1>1
  <2> HIDE DEF start
  <2>. QED BY <1>1, <2>5, <2>6 DEF MultiRecord
<1>6. (\E h : Undoable(multi, h))'
  <2>0. PICK h : h = [i \in {1} |-> <<container, ephemerals>>]
    OBVIOUS
  <2>1. Len(multi'.undo_actions) = 0
    BY <1>4
  <2>2. h[1] = <<container, ephemerals>> /\ h[1][1] = container /\ h[1][2] = ephemerals
    BY <2>0
  <2>3. GoodTree(container, ephemerals)
    BY DEF TreeInv, TreeOK
  <2>4. Bounded(container, acl_map.max_acl_id - 1, zxid, sessions)
    BY <1>1 DEF TreeInv, StampsOK
  <2>5. GoodHistory(h, multi'.undo_actions, acl_map.max_acl_id - 1, zxid, sessions)
    BY <2>1, <2>2, <2>3, <2>4 DEF GoodHistory
  <2>6. h[Len(multi'.undo_actions) + 1] = h[1]
    BY <2>1
  <2>7. Undoable(multi, h)'
    <3>1. acl_map' = acl_map /\ sessions' = sessions
          /\ container' = container /\ ephemerals' = ephemerals
      BY <1>1
    <3>2. GoodHistory(h, multi'.undo_actions, acl_map'.max_acl_id - 1, multi'.zxid, sessions')
      BY <1>4, <2>5, <3>1
    <3>3. h[1] = multi'.before /\ h[Len(multi'.undo_actions) + 1] = <<container', ephemerals'>>
      BY <1>4, <2>2, <2>6, <3>1
    <3> HIDE DEF start
    <3>. QED BY <3>2, <3>3 DEF Undoable
  <2>. QED BY <2>7
<1>7. multi' # Idle
  BY <1>4 DEF Idle
<1>. QED BY <1>2, <1>3, <1>5, <1>6, <1>7 DEF TreeInv

LEMMA MultiIsBusy ==
  ASSUME TreeInv, multi.at \in {"running", "undoing"}
  PROVE  /\ multi # Idle /\ MultiRecord(multi) /\ multi.zxid \in Nat
         /\ Len(multi.undo_actions) \in Nat /\ multi.session \in SessionIds \cap sessions
         /\ multi.requests \in Multis
<1>1. multi # Idle
  BY DEF Idle
<1>2. MultiRecord(multi)
  BY <1>1 DEF TreeInv
<1>3. sessions \subseteq SessionIds /\ zxid \in Nat
  BY SessionsAreIds DEF TreeInv, SessionsOK
<1>. QED BY <1>1, <1>2, <1>3 DEF MultiRecord

LEMMA MultiFailTree ==
  ASSUME TreeInv, MultiFail
  PROVE  TreeInv'
<1>1. /\ multi.at = "running"
      /\ multi' = [multi EXCEPT !.at = "undoing"]
      /\ UNCHANGED <<container, ephemerals, session_id_counter, sessions,
                     session_and_auth, acl_map, zxid>>
  BY DEF MultiFail, MultiRunning
<1>2. multi # Idle /\ MultiRecord(multi)
  BY <1>1, MultiIsBusy
<1>3. /\ multi'.at = "undoing" /\ multi'.undo_actions = multi.undo_actions
      /\ multi'.zxid = multi.zxid /\ multi'.before = multi.before
      /\ multi'.requests = multi.requests /\ multi'.session = multi.session
  BY <1>1, <1>2 DEF MultiRecord
<1>4. MultiRecord(multi)'
  BY <1>1, <1>2, <1>3 DEF MultiRecord
<1>5. PICK h : Undoable(multi, h)
  BY <1>2 DEF TreeInv
<1>6. Undoable(multi, h)'
  BY <1>1, <1>3, <1>5 DEF Undoable
<1>7. SessionsOK'
  BY <1>1 DEF TreeInv, SessionsOK
<1>8. TreeOK'
  BY <1>1, TreeOKStutter DEF TreeInv
<1>9. multi' # Idle
  BY <1>3 DEF Idle
<1>. QED BY <1>4, <1>6, <1>7, <1>8, <1>9 DEF TreeInv

LEMMA MultiEndTree ==
  ASSUME TreeInv, MultiEnd
  PROVE  TreeInv'
<1>1. /\ multi.at \in {"running", "undoing"} /\ multi' = Idle /\ zxid' = zxid + 1
      /\ UNCHANGED <<container, ephemerals, session_id_counter, sessions,
                     session_and_auth, acl_map>>
  BY DEF MultiEnd, MultiDone
<1>2. multi # Idle /\ MultiRecord(multi) /\ multi.zxid \in Nat
  BY <1>1, MultiIsBusy
<1>3. zxid \in Nat /\ multi.zxid <= zxid /\ zxid' \in Nat
  BY <1>1, <1>2 DEF TreeInv, SessionsOK, MultiRecord
<1>4. SessionsOK'
  BY <1>1, <1>3 DEF TreeInv, SessionsOK
<1>5. TreeOK'
  BY <1>1, TreeOKStutter DEF TreeInv
<1>6. Bounded(container, acl_map.max_acl_id - 1, multi.zxid, sessions)
  BY <1>2, MultiBounded
<1>7. GoodTree(container, ephemerals) /\ acl_map.max_acl_id \in Nat
  BY DEF TreeInv, TreeOK, AclOK
<1>8. StampsOK'
  <2> DEFINE ids == acl_map.max_acl_id - 1
  <2>1. ids \in Int /\ ids <= ids /\ multi.zxid <= zxid'
    BY <1>1, <1>2, <1>3, <1>7
  <2>2. Bounded(container, ids, zxid', sessions)
    <3> HIDE DEF ids
    <3>1. Bounded(container, ids, multi.zxid, sessions)
      BY <1>6 DEF ids
    <3>. QED BY <1>2, <1>3, <1>7, <2>1, <3>1, BoundedMore
  <2>3. ASSUME NEW path \in DOMAIN container
        PROVE  container[path].mzxid < zxid' /\ container[path].pzxid < zxid'
    <3>1. container[path].mzxid <= multi.zxid /\ container[path].pzxid <= multi.zxid
      BY <1>6, <2>3 DEF Bounded
    <3>2. container[path].mzxid \in Nat /\ container[path].pzxid \in Nat
      BY <1>7, <2>3 DEF GoodTree, NodeOK, Node
    <3>. QED BY <1>1, <1>2, <1>3, <3>1, <3>2
  <2>. QED BY <1>1, <2>2, <2>3 DEF StampsOK
<1>. QED BY <1>1, <1>4, <1>5, <1>8 DEF TreeInv

(* A request of a Multi adds its tree to the history, and its undo action  *)
(* leads back.                                                             *)
LEMMA HistoryGrows ==
  ASSUME NEW h, NEW undos \in Seq(Undos), NEW ids \in Int, NEW more \in Int, ids <= more,
         NEW z \in Int, NEW owners, GoodHistory(h, undos, ids, z, owners),
         NEW c, NEW e, GoodTree(c, e), Bounded(c, more, z, owners), NEW u \in Undos,
         Undoes(u, c, e, h[Len(undos) + 1][1], h[Len(undos) + 1][2]),
         NEW g, g = [i \in 1 .. Len(undos) + 2 |-> IF i = Len(undos) + 2 THEN <<c, e>> ELSE h[i]]
  PROVE  /\ GoodHistory(g, Append(undos, u), more, z, owners)
         /\ g[1] = h[1]
         /\ g[Len(Append(undos, u)) + 1] = <<c, e>>
<1> DEFINE n == Len(undos)
           v == Append(undos, u)
<1>1. n \in Nat /\ Len(v) = n + 1
  OBVIOUS
<1>2. v[n + 1] = u /\ \A i \in 1 .. n : v[i] = undos[i]
  BY <1>1, AppendProperties
<1>3. g[n + 2] = <<c, e>> /\ \A i \in 1 .. n + 1 : g[i] = h[i]
  BY <1>1
<1> HIDE DEF n, v
<1>4. /\ \A i \in 1 .. n + 1 : /\ h[i] = <<h[i][1], h[i][2]>>
                              /\ GoodTree(h[i][1], h[i][2])
                              /\ Bounded(h[i][1], ids, z, owners)
      /\ \A i \in 1 .. n : Undoes(undos[i], h[i + 1][1], h[i + 1][2], h[i][1], h[i][2])
      /\ Undoes(u, c, e, h[n + 1][1], h[n + 1][2])
  BY DEF GoodHistory, n
<1>5. ASSUME NEW i \in 1 .. n + 2
      PROVE  /\ g[i] = <<g[i][1], g[i][2]>>
             /\ GoodTree(g[i][1], g[i][2]) /\ Bounded(g[i][1], more, z, owners)
  <2>1. CASE i = n + 2
    <3>1. g[i] = <<c, e>>
      BY <1>3, <2>1
    <3>2. <<c, e>>[1] = c /\ <<c, e>>[2] = e
      OBVIOUS
    <3>3. g[i][1] = c /\ g[i][2] = e
      BY <3>1, <3>2, Zenon
    <3>. QED BY <3>1, <3>3, Zenon
  <2>2. CASE i \in 1 .. n + 1
    <3>1. /\ g[i] = h[i] /\ h[i] = <<h[i][1], h[i][2]>>
          /\ GoodTree(h[i][1], h[i][2]) /\ Bounded(h[i][1], ids, z, owners)
      BY <1>3, <1>4, <2>2
    <3>2. z <= z
      OBVIOUS
    <3>3. Bounded(h[i][1], more, z, owners)
      BY <3>1, <3>2, BoundedMore
    <3>. QED BY <3>1, <3>3, Zenon
  <2>3. i = n + 2 \/ i \in 1 .. n + 1
    BY <1>1
  <2>. QED BY <2>1, <2>2, <2>3, Zenon
<1>6. ASSUME NEW i \in 1 .. n + 1
      PROVE  Undoes(v[i], g[i + 1][1], g[i + 1][2], g[i][1], g[i][2])
  <2>1. g[i] = h[i]
    BY <1>3
  <2>2. CASE i = n + 1
    <3>1. i + 1 = n + 2 /\ v[i] = u
      BY <1>1, <1>2, <2>2
    <3>2. g[i + 1][1] = c /\ g[i + 1][2] = e
      BY <1>3, <3>1
    <3>. QED BY <1>4, <2>1, <2>2, <3>1, <3>2
  <2>3. CASE i \in 1 .. n
    <3>1. i + 1 \in 1 .. n + 1 /\ v[i] = undos[i]
      BY <1>1, <1>2, <2>3
    <3>2. g[i + 1] = h[i + 1]
      BY <1>3, <3>1
    <3>. QED BY <1>4, <2>1, <2>3, <3>1, <3>2
  <2>. QED BY <1>1, <2>2, <2>3
<1>7. Len(v) + 1 = n + 2 /\ 1 \in 1 .. n + 1
  BY <1>1
<1>8. GoodHistory(g, v, more, z, owners)
  BY <1>1, <1>5, <1>6, <1>7 DEF GoodHistory
<1>9. g[1] = h[1] /\ g[Len(v) + 1] = <<c, e>>
  BY <1>3, <1>7
<1>. QED BY <1>8, <1>9 DEF v

LEMMA MultiStepTree ==
  ASSUME TreeInv, MultiStep
  PROVE  TreeInv'
<1> DEFINE s     == multi.session
           undos == multi.undo_actions
           n     == Len(undos)
           req   == MultiRequest
           z     == multi.zxid
           u     == UndoOf(s, req)
<1>1. /\ multi.at = "running" /\ n < Len(multi.requests)
      /\ ErrorCode(s, req) = "ZOK" /\ Apply(s, req, z)
      /\ multi' = [multi EXCEPT !.undo_actions = Append(@, u)]
      /\ UNCHANGED <<session_id_counter, sessions, session_and_auth, zxid>>
  BY DEF MultiStep, MultiRunning
<1>2. /\ multi # Idle /\ MultiRecord(multi) /\ z \in Nat /\ n \in Nat
      /\ s \in SessionIds \cap sessions /\ multi.requests \in Multis
  BY <1>1, MultiIsBusy
<1>3. IsRequest(req) /\ req.op \in MultiOps /\ (req.op = "remove" => req.path # Root)
  <2>1. Len(multi.requests) \in Nat
    BY <1>2, RequestAssumption
  <2>2. n + 1 \in 1 .. Len(multi.requests)
    BY <1>1, <1>2, <2>1
  <2>3. req = multi.requests[n + 1]
    BY DEF MultiRequest
  <2> HIDE DEF n, req
  <2>. QED BY <1>2, <2>2, <2>3, RequestAssumption
<1>4. Before(s, z, sessions)
  <2>1. Bounded(container, acl_map.max_acl_id - 1, z, sessions)
    BY <1>2, MultiBounded
  <2>. QED BY <1>2, <2>1 DEF Before, TreeInv, TreeOK
<1> HIDE DEF req
<1>5. After(z, sessions)
  BY <1>1, <1>3, <1>4, ApplyKeeps
<1>6. Undoes(u, container', ephemerals', container, ephemerals)
  BY <1>1, <1>3, <1>4, ApplyUndoes
<1>7. u \in Undos
  BY <1>6 DEF Undoes
<1>8. PICK h : Undoable(multi, h)
  BY <1>2 DEF TreeInv
<1> HIDE DEF u
<1>9. /\ multi'.at = "running" /\ multi'.undo_actions = Append(undos, u)
      /\ multi'.zxid = z /\ multi'.before = multi.before
      /\ multi'.requests = multi.requests /\ multi'.session = s
      /\ multi' \in [at : {"running", "undoing"}, session : sessions, requests : Multis,
                     zxid : 0 .. zxid, undo_actions : Seq(Undos), before : {multi'.before}]
  <2>1. undos \in Seq(Undos)
    BY <1>2 DEF MultiRecord
  <2>2. Append(undos, u) \in Seq(Undos)
    BY <1>7, <2>1
  <2>. QED BY <1>1, <1>2, <2>2 DEF MultiRecord
<1>10. MultiRecord(multi)'
  <2>1. undos \in Seq(Undos) /\ Len(multi.requests) \in Nat
    BY <1>2, RequestAssumption DEF MultiRecord
  <2>2. Len(multi'.undo_actions) <= Len(multi'.requests)
    BY <1>1, <1>2, <1>7, <1>9, <2>1
  <2>3. sessions' = sessions /\ zxid' = zxid
    BY <1>1
  <2>. QED BY <1>9, <2>2, <2>3 DEF MultiRecord
<1>11. (\E g : Undoable(multi, g))'
  <2> DEFINE ids  == acl_map.max_acl_id - 1
             more == acl_map'.max_acl_id - 1
  <2>1. PICK g : g = [i \in 1 .. Len(undos) + 2 |->
                        IF i = Len(undos) + 2 THEN <<container', ephemerals'>> ELSE h[i]]
    OBVIOUS
  <2>2. ids \in Int /\ more \in Int /\ ids <= more
    BY <1>5 DEF After, AclOK, TreeInv, TreeOK
  <2>3. h[n + 1] = <<container, ephemerals>> /\ h[1] = multi.before
    BY <1>8 DEF Undoable
  <2>4. h[n + 1][1] = container /\ h[n + 1][2] = ephemerals
    BY <2>3
  <2>5. GoodHistory(h, undos, ids, z, sessions)
    BY <1>8 DEF Undoable
  <2>6. /\ GoodTree(container', ephemerals') /\ Bounded(container', more, z, sessions)
        /\ Undoes(u, container', ephemerals', h[n + 1][1], h[n + 1][2])
    BY <1>5, <1>6, <2>4 DEF After
  <2>7. undos \in Seq(Undos) /\ z \in Int
    BY <1>2 DEF MultiRecord
  <2> HIDE DEF ids, more, z, undos
  <2>8. /\ GoodHistory(g, Append(undos, u), more, z, sessions)
        /\ g[1] = h[1]
        /\ g[Len(Append(undos, u)) + 1] = <<container', ephemerals'>>
    BY <1>7, <2>1, <2>2, <2>5, <2>6, <2>7, HistoryGrows
  <2>9. sessions' = sessions
    BY <1>1
  <2>10. Undoable(multi, g)'
    BY <1>9, <2>3, <2>8, <2>9 DEF Undoable, more
  <2>. QED BY <2>10
<1>12. SessionsOK'
  BY <1>1 DEF TreeInv, SessionsOK
<1>13. TreeOK'
  BY <1>5 DEF After, TreeOK
<1>14. multi' # Idle
  BY <1>9 DEF Idle
<1>. QED BY <1>10, <1>11, <1>12, <1>13, <1>14 DEF TreeInv

(* The last undo action ends the history one tree earlier.                 *)
LEMMA HistoryShrinks ==
  ASSUME NEW h, NEW undos \in Seq(Undos), undos # <<>>, NEW ids, NEW z, NEW owners,
         GoodHistory(h, undos, ids, z, owners),
         NEW v, v = SubSeq(undos, 1, Len(undos) - 1)
  PROVE  /\ v \in Seq(Undos) /\ Len(v) = Len(undos) - 1 /\ Len(v) \in Nat
         /\ GoodHistory(h, v, ids, z, owners)
<1>1. Len(undos) \in Nat \ {0}
  BY EmptySeq
<1>2. PICK n \in Nat : Len(undos) = n + 1
  BY <1>1
<1>3. Len(undos) - 1 = n
  BY <1>2
<1>4. v = SubSeq(undos, 1, n)
  BY <1>3
<1>5. v \in Seq(Undos) /\ Len(v) = n /\ \A i \in 1 .. n : v[i] = undos[i]
  BY <1>2, <1>4
<1>6. /\ \A i \in 1 .. n + 1 : /\ h[i] = <<h[i][1], h[i][2]>>
                              /\ GoodTree(h[i][1], h[i][2])
                              /\ Bounded(h[i][1], ids, z, owners)
      /\ \A i \in 1 .. n : Undoes(undos[i], h[i + 1][1], h[i + 1][2], h[i][1], h[i][2])
  <2>1. 1 .. n + 1 \subseteq 1 .. Len(undos) + 1 /\ 1 .. n \subseteq 1 .. Len(undos)
    BY <1>2
  <2>. QED BY <2>1 DEF GoodHistory
<1>7. GoodHistory(h, v, ids, z, owners)
  BY <1>5, <1>6 DEF GoodHistory
<1>. QED BY <1>3, <1>5, <1>7

LEMMA MultiUndoTree ==
  ASSUME TreeInv, MultiUndo
  PROVE  TreeInv'
<1> DEFINE undos == multi.undo_actions
           n     == Len(undos)
           u     == undos[n]
           z     == multi.zxid
           v     == SubSeq(undos, 1, n - 1)
           ids   == acl_map.max_acl_id - 1
<1>1. /\ multi.at = "undoing" /\ undos # <<>> /\ Undo(u)
      /\ multi' = [multi EXCEPT !.undo_actions = v]
      /\ UNCHANGED <<session_id_counter, sessions, session_and_auth, zxid>>
  BY DEF MultiUndo
<1>2. /\ multi # Idle /\ MultiRecord(multi) /\ z \in Nat /\ n \in Nat
      /\ multi.requests \in Multis
  BY <1>1, MultiIsBusy
<1>3. PICK h : Undoable(multi, h)
  BY <1>2 DEF TreeInv
<1>4. /\ GoodHistory(h, undos, ids, z, sessions) /\ h[1] = multi.before
      /\ h[n + 1] = <<container, ephemerals>>
  BY <1>3 DEF Undoable
<1>5. undos \in Seq(Undos) /\ Len(undos) <= Len(multi.requests)
  BY <1>2 DEF MultiRecord
<1> HIDE DEF v, ids
<1>6. v \in Seq(Undos) /\ Len(v) = n - 1 /\ Len(v) \in Nat
      /\ GoodHistory(h, v, ids, z, sessions)
  BY <1>1, <1>4, <1>5, HistoryShrinks DEF v
<1>7. n \in 1 .. n /\ n \in 1 .. n + 1
  BY <1>2, <1>6
<1>8. h[n + 1][1] = container /\ h[n + 1][2] = ephemerals
  BY <1>4
<1> DEFINE c0 == h[n][1]
           e0 == h[n][2]
<1>9. /\ GoodTree(c0, e0) /\ Bounded(c0, ids, z, sessions)
      /\ Undoes(u, container, ephemerals, c0, e0) /\ h[n] = <<c0, e0>>
  <2> HIDE DEF n
  <2>1. Undoes(undos[n], h[n + 1][1], h[n + 1][2], h[n][1], h[n][2])
    BY <1>4, <1>7 DEF GoodHistory, n
  <2>2. /\ GoodTree(h[n][1], h[n][2]) /\ Bounded(h[n][1], ids, z, sessions)
        /\ h[n] = <<h[n][1], h[n][2]>>
    BY <1>4, <1>7 DEF GoodHistory, n
  <2>. QED BY <1>8, <2>1, <2>2
<1> HIDE DEF c0, e0, u
<1>10. /\ container' = c0 /\ ephemerals' = e0
       /\ AclOK(acl_map') /\ acl_map'.max_acl_id = acl_map.max_acl_id
       /\ Counted(container', acl_map')
  <2>1. \A path \in DOMAIN c0 : c0[path].acl_id \in 0 .. acl_map.max_acl_id - 1
    BY <1>9 DEF Bounded, ids
  <2>. QED BY <1>1, <1>9, <2>1, UndoKeeps DEF TreeInv, TreeOK
<1>11. TreeOK'
  BY <1>9, <1>10 DEF TreeOK
<1>12. SessionsOK'
  BY <1>1 DEF TreeInv, SessionsOK
<1>13. /\ multi'.at = "undoing" /\ multi'.undo_actions = v
       /\ multi'.zxid = z /\ multi'.before = multi.before
       /\ multi'.requests = multi.requests
       /\ multi' \in [at : {"running", "undoing"}, session : sessions, requests : Multis,
                      zxid : 0 .. zxid, undo_actions : Seq(Undos), before : {multi'.before}]
  BY <1>1, <1>2, <1>6 DEF MultiRecord
<1>14. MultiRecord(multi)'
  <2>1. Len(multi.requests) \in Nat
    BY <1>2, RequestAssumption
  <2>2. Len(multi'.undo_actions) <= Len(multi'.requests)
    BY <1>2, <1>5, <1>6, <1>13, <2>1
  <2>3. sessions' = sessions /\ zxid' = zxid
    BY <1>1
  <2>. QED BY <1>13, <2>2, <2>3 DEF MultiRecord
<1>15. Undoable(multi, h)'
  <2>1. Len(v) + 1 = n
    BY <1>2, <1>6
  <2>2. h[Len(v) + 1] = <<container', ephemerals'>>
    BY <1>9, <1>10, <2>1
  <2>3. acl_map'.max_acl_id - 1 = ids /\ sessions' = sessions
    BY <1>1, <1>10 DEF ids
  <2>. QED BY <1>4, <1>6, <1>13, <2>2, <2>3 DEF Undoable
<1>16. multi' # Idle
  BY <1>13 DEF Idle
<1>. QED BY <1>11, <1>12, <1>14, <1>15, <1>16 DEF TreeInv

LEMMA StutterTree ==
  ASSUME TreeInv, UNCHANGED treeVars
  PROVE  TreeInv'
<1>1. /\ container' = container /\ ephemerals' = ephemerals /\ acl_map' = acl_map
      /\ session_id_counter' = session_id_counter /\ sessions' = sessions
      /\ session_and_auth' = session_and_auth /\ zxid' = zxid /\ multi' = multi
  BY DEF treeVars
<1>2. SessionsOK' /\ TreeOK'
  BY <1>1 DEF TreeInv, SessionsOK, TreeOK
<1>3. multi = Idle => StampsOK'
  BY <1>1 DEF TreeInv, StampsOK
<1>4. ASSUME multi # Idle
      PROVE  MultiRecord(multi)' /\ (\E h : Undoable(multi, h))'
  <2>1. PICK h : Undoable(multi, h)
    BY <1>4 DEF TreeInv
  <2>2. Undoable(multi, h)'
    BY <1>1, <2>1 DEF Undoable
  <2>3. MultiRecord(multi)'
    BY <1>1, <1>4 DEF TreeInv, MultiRecord
  <2>. QED BY <2>2, <2>3
<1>. QED BY <1>1, <1>2, <1>3, <1>4 DEF TreeInv

LEMMA NextTree ==
  ASSUME TreeInv, [Next]_treeVars
  PROVE  TreeInv'
<1>1. ASSUME NEW s \in SessionIds, Session(s)
      PROVE  TreeInv'
  <2>1. CASE Close(s)
    BY <2>1, CloseTree
  <2>2. ASSUME NEW id \in AuthIds, Auth(s, id)
        PROVE  TreeInv'
    BY <2>2, AuthTree
  <2>3. ASSUME NEW reqs, Refuse(s, reqs)
        PROVE  TreeInv'
    BY <2>3, NothingDoneTree DEF Refuse, Serving
  <2>4. ASSUME NEW req \in Requests, Fail(s, req)
        PROVE  TreeInv'
    BY <2>4, NothingDoneTree DEF Fail, Serving
  <2>5. ASSUME NEW req \in Requests, Process(s, req)
        PROVE  TreeInv'
    BY <2>5, ProcessTree
  <2>6. ASSUME NEW reqs \in Multis, MultiStart(s, reqs)
        PROVE  TreeInv'
    BY <2>6, MultiStartTree
  <2>. QED BY <1>1, <2>1, <2>2, <2>3, <2>4, <2>5, <2>6 DEF Session
<1>. QED BY <1>1, NewSessionTree, MultiStepTree, MultiFailTree, MultiUndoTree, MultiEndTree,
            StutterTree DEF Next

(* TreeInv holds in every state the store reaches, in the middle of a      *)
(* Multi and of its undo actions too.                                      *)
THEOREM TreeInvAlways == Spec => []TreeInv
<1>1. Init => TreeInv
  BY InitTree
<1>2. TreeInv /\ [Next]_treeVars => TreeInv'
  BY NextTree
<1>. QED BY <1>1, <1>2, PTL DEF Spec

-----------------------------------------------------------------------------
(* What follows from it                                                    *)

LEMMA TreeInvType ==
  ASSUME TreeInv
  PROVE  TypeOK
<1>1. \A path \in DOMAIN container : path \in Seq(Names) /\ container[path] \in Node
  BY DEF TreeInv, TreeOK, GoodTree, NodeOK
<1>2. \A s \in SessionIds : ephemerals[s] \subseteq DOMAIN container
  BY DEF TreeInv, TreeOK, GoodTree, OwnedBy
<1>3. /\ DOMAIN acl_map.num_to_acl \cup DOMAIN acl_map.usage_counter
           \subseteq 1 .. acl_map.max_acl_id - 1
      /\ \A id \in DOMAIN acl_map.usage_counter : acl_map.usage_counter[id] \in Nat \ {0}
  BY DEF TreeInv, TreeOK, AclOK
<1>4. multi # Idle => /\ multi.session \in sessions
                      /\ multi.requests \in Multis
                      /\ multi.zxid \in 0 .. zxid
  BY DEF TreeInv, MultiRecord
<1>. QED BY <1>1, <1>2, <1>3, <1>4 DEF TypeOK, TreeInv, SessionsOK

LEMMA TreeInvConsistent ==
  ASSUME TreeInv
  PROVE  TreeConsistent
<1>1. \A path \in DOMAIN container : NodeOK(container, path)
  BY DEF TreeInv, TreeOK, GoodTree
<1>. QED BY <1>1 DEF TreeConsistent, NodeOK, Listed, Exists

LEMMA TreeInvOwned ==
  ASSUME TreeInv
  PROVE  EphemeralsOwned
<1>1. \A s \in SessionIds :
        ephemerals[s] = {path \in DOMAIN container : container[path].owner = s}
  BY DEF TreeInv, TreeOK, GoodTree, OwnedBy
<1>2. \A path \in DOMAIN container : container[path].owner \in sessions \cup {NoOwner}
  <2>1. CASE multi = Idle
    BY <2>1 DEF TreeInv, StampsOK, Bounded
  <2>2. CASE multi # Idle
    BY <2>2, MultiBounded DEF Bounded
  <2>. QED BY <2>1, <2>2
<1>. QED BY <1>1, <1>2 DEF EphemeralsOwned

LEMMA TreeInvFresh ==
  ASSUME TreeInv
  PROVE  SequenceNumbersFresh
<1>1. \A path \in DOMAIN container : NodeOK(container, path)
  BY DEF TreeInv, TreeOK, GoodTree
<1>. QED BY <1>1 DEF SequenceNumbersFresh, NodeOK, Listed

LEMMA TreeInvCounted ==
  ASSUME TreeInv
  PROVE  UsageCounted
<1> SUFFICES ASSUME NEW p \in DOMAIN container, container[p].acl_id # 0
             PROVE  LET id == container[p].acl_id IN
                    /\ id \in DOMAIN acl_map.usage_counter
                    /\ Cardinality({path \in DOMAIN container : container[path].acl_id = id})
                         <= acl_map.usage_counter[id]
  BY DEF UsageCounted
<1> DEFINE id == container[p].acl_id
<1>1. id \in Nat \ {0}
  BY DEF TreeInv, TreeOK, GoodTree, NodeOK, Node
<1>2. Cardinality(Users(container, id)) <= UsageOf(acl_map, id)
  BY <1>1 DEF TreeInv, TreeOK, Counted
<1>3. IsFiniteSet(Users(container, id)) /\ p \in Users(container, id)
  <2>1. Users(container, id) \in SUBSET DOMAIN container /\ p \in Users(container, id)
    BY DEF Users
  <2>. QED BY <2>1, FS_Subset DEF TreeInv, TreeOK, GoodTree
<1>4. Cardinality(Users(container, id)) \in Nat \ {0}
  BY <1>3, FS_CardinalityType, FS_EmptySet
<1>5. UsageOf(acl_map, id) \in Nat
  BY UsageType DEF TreeInv, TreeOK
<1>6. UsageOf(acl_map, id) # 0
  BY <1>2, <1>4, <1>5
<1>7. id \in DOMAIN acl_map.usage_counter /\ UsageOf(acl_map, id) = acl_map.usage_counter[id]
  BY <1>6 DEF UsageOf
<1>. QED BY <1>2, <1>7 DEF Users

(* The types hold: what a session is recorded to own exists when Close     *)
(* looks it up, no ACL number is above the last one given out, and the     *)
(* session of a Multi has not been closed.                                 *)
THEOREM DataTreeTypeCorrect == Spec => []TypeOK
<1>1. TreeInv => TypeOK
  BY TreeInvType
<1>. QED BY <1>1, TreeInvAlways, PTL

(* The nodes are a tree at every moment, whatever requests and Multis      *)
(* clients send, while a Multi runs and while it is undone: parents exist, *)
(* list their children, are not ephemeral, and count them right.           *)
THEOREM TreeConsistentHolds == Spec => []TreeConsistent
<1>1. TreeInv => TreeConsistent
  BY TreeInvConsistent
<1>. QED BY <1>1, TreeInvAlways, PTL

(* Ephemeral nodes are exactly what their sessions are recorded to own,    *)
(* and outlive no session: Close removes all nodes of its session, and a   *)
(* Multi that is undone gives a removed one back to its owner.             *)
THEOREM EphemeralsOwnedHolds == Spec => []EphemeralsOwned
<1>1. TreeInv => EphemeralsOwned
  BY TreeInvOwned
<1>. QED BY <1>1, TreeInvAlways, PTL

(* A sequential node never gets a number that a child of its parent still  *)
(* has, although undoing a create takes the parent's cversion back.        *)
THEOREM SequenceNumbersFreshHolds == Spec => []SequenceNumbersFresh
<1>1. TreeInv => SequenceNumbersFresh
  BY TreeInvFresh
<1>. QED BY <1>1, TreeInvAlways, PTL

(* Between requests no node has a stamp that a later request will be given *)
(* as its zxid, though new sessions take zxids in the middle of a Multi.   *)
THEOREM StampsBelowZxidHolds == Spec => []StampsBelowZxid
<1>1. TreeInv => StampsBelowZxid
  BY DEF TreeInv, StampsOK, StampsBelowZxid
<1>. QED BY <1>1, TreeInvAlways, PTL

(* Every use of an ACL number by a node is counted, through creates,       *)
(* removals, changes of ACLs, closed sessions and undone Multis: the       *)
(* removeUsage of one node never drops the number of another.              *)
THEOREM UsageCountedHolds == Spec => []UsageCounted
<1>1. TreeInv => UsageCounted
  BY TreeInvCounted
<1>. QED BY <1>1, TreeInvAlways, PTL

(* A Multi of any length that fails at any of its requests leaves nodes    *)
(* and ephemeral nodes as it has found them, versions and stamps included. *)
THEOREM MultiAtomicHolds == Spec => MultiAtomic
<1>1. TreeInv /\ [Next]_treeVars
        => [multi.at = "undoing" /\ multi' = Idle =>
              multi.before = <<container', ephemerals'>>]_treeVars
  <2> SUFFICES ASSUME TreeInv, Next, multi.at = "undoing", multi' = Idle
               PROVE  multi.before = <<container', ephemerals'>>
    OBVIOUS
  <2>1. multi # Idle /\ MultiRecord(multi)
    BY MultiIsBusy
  <2>2. MultiEnd
    <3>1. ~NewSession
      BY <2>1 DEF NewSession
    <3>2. ASSUME NEW s \in SessionIds PROVE ~Session(s)
      BY <2>1 DEF Session, Close, Auth, Refuse, Fail, Process, MultiStart, Serving
    <3>3. ~MultiStep /\ ~MultiFail
      BY DEF MultiStep, MultiFail, MultiRunning
    <3>4. ~MultiUndo
      <4> SUFFICES ASSUME MultiUndo PROVE FALSE
        OBVIOUS
      <4>1. multi'.at = "undoing"
        BY <2>1 DEF MultiUndo, MultiRecord
      <4>. QED BY <4>1 DEF Idle
    <3>. QED BY <3>1, <3>2, <3>3, <3>4 DEF Next
  <2>3. multi.undo_actions = <<>> /\ container' = container /\ ephemerals' = ephemerals
    BY <2>2 DEF MultiEnd, MultiDone
  <2>4. PICK h : Undoable(multi, h)
    BY <2>1 DEF TreeInv
  <2>5. h[1] = multi.before /\ h[1] = <<container, ephemerals>>
    BY <2>3, <2>4 DEF Undoable
  <2>. QED BY <2>3, <2>5
<1>. QED BY <1>1, TreeInvAlways, PTL DEF Spec, MultiAtomic
=============================================================================
