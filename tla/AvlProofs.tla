------------------------------ MODULE AvlProofs ------------------------------
(***************************************************************************)
(* What the threaded AVL trees keep, for any trees, keys and values, until *)
(* a call fails: the shape and the order, the thread, the sizes, and that  *)
(* each node is in one tree; and that the trees implement maps.            *)
(*                                                                         *)
(* Tree(g, K, S, r) is the shape: the keys K in one tree with the root r,  *)
(* S[n] those in the subtree of n. First what each write, rotation and     *)
(* descent does to it; then the calls; then the invariant Grove, that each *)
(* tree t is such a tree of keys K[t] of its own, is threaded and counted. *)
(* Heights are of no account: a rotation that nobody needs keeps all this. *)
(***************************************************************************)
EXTENDS AvlTreeProperties, PowersOfTwo

-----------------------------------------------------------------------------
(* Heaps, and what the writes to them do.                                  *)

Links == Nodes \cup {Null}
AllValues == {Null} \cup UNION {ValuesOf[k] : k \in Nodes}
Node == [val : AllValues, cld : [{L, R} -> Links], dir : [{L, R} -> Links],
         par : Links, height : Nat \ {0}, sz : Nat \ {0}]
Calls == {<<>>} \cup ({"insert", "erase", "split"} \X Trees \X Nodes)
                \cup ({"join"} \X Trees \X Trees \X Trees)
Heaps == [node : [Nodes -> Node], root : [Trees -> Links], live : SUBSET Nodes,
          fault : {"none", "assertion", "null", "endless"}, failed : Calls]

Par(g, n) == g.node[n].par
Dir(g, n, i) == g.node[n].dir[i]
Val(g, n) == g.node[n].val

\* A pair of links, as in the model.
LEMMA PairOfLinks == ASSUME NEW x \in Links, NEW y \in Links PROVE <<x, y>> \in [{L,R} -> Links]
BY DEF L, R

\* A new node is one.
LEMMA FreshNode == NewNode \in Node
<1>1. NewNode.cld \in [{L,R} -> Links] /\ NewNode.dir \in [{L,R} -> Links]
  BY PairOfLinks DEF NewNode, Links
<1> QED BY <1>1 DEF Node, NewNode, AllValues, Links

\* Heaps that differ in their nodes only.
SameButNodes(g, g2) ==
    g2.root = g.root /\ g2.live = g.live /\ g2.fault = g.fault /\ g2.failed = g.failed

\* A heap with other nodes.
LEMMA NewNodes ==
    ASSUME NEW g \in Heaps, NEW f \in [Nodes -> Node]
    PROVE  /\ [g EXCEPT !.node = f] \in Heaps /\ [g EXCEPT !.node = f].node = f
           /\ SameButNodes(g, [g EXCEPT !.node = f])
BY DEF Heaps, SameButNodes

\* What a heap is made of.
LEMMA NodeTypes ==
    ASSUME NEW g \in Heaps
    PROVE  /\ g.node \in [Nodes -> Node] /\ g.root \in [Trees -> Links] /\ g.live \subseteq Nodes
           /\ \A n \in Nodes : Par(g, n) \in Links /\ Val(g, n) \in AllValues /\ g.node[n].sz \in Nat \ {0}
                 /\ g.node[n].height \in Nat \ {0}
           /\ \A n \in Nodes, i \in {L, R} : child(g, n, i) \in Links /\ Dir(g, n, i) \in Links
           /\ \A n \in Links : sz(g, n) \in Nat /\ height(g, n) \in Nat
BY DEF Heaps, Node, Par, Dir, Val, child, sz, height, Links

\* The links of g2 are those of g.
SameLinks(g, g2) ==
    \A m \in Nodes : /\ Par(g2, m) = Par(g, m) /\ Val(g2, m) = Val(g, m)
                     /\ \A i \in {L, R} : child(g2, m, i) = child(g, m, i) /\ Dir(g2, m, i) = Dir(g, m, i)

\* g with o in place of the node n.
WithNode(g, n, o) == [g EXCEPT !.node = [g.node EXCEPT ![n] = o]]

\* What writing one node does.
LEMMA Replaced ==
    ASSUME NEW g \in Heaps, NEW n \in Nodes, NEW o \in Node, NEW g2, g2 = WithNode(g, n, o)
    PROVE  /\ g2 \in Heaps /\ SameButNodes(g, g2) /\ g2.node[n] = o
           /\ \A m \in Nodes \ {n} : g2.node[m] = g.node[m]
<1>1. [g.node EXCEPT ![n] = o] \in [Nodes -> Node]
  BY NodeTypes
<1> QED BY <1>1, NewNodes, NodeTypes DEF WithNode

Updated(g, g2, n) ==
    /\ g2 \in Heaps /\ SameButNodes(g, g2) /\ SameLinks(g, g2)
    /\ \A m \in Nodes \ {n} : g2.node[m] = g.node[m]
    /\ g2.node[n].sz = sz(g, child(g, n, L)) + sz(g, child(g, n, R)) + 1

\* update writes the height and the size of n, and nothing else.
LEMMA UpdateSets ==
    ASSUME NEW g \in Heaps, NEW n \in Nodes
    PROVE  Updated(g, update(g, n), n)
<1> DEFINE g2 == update(g, n)
           x == Larger(height(g, child(g, n, L)), height(g, child(g, n, R))) + 1
           y == sz(g, child(g, n, L)) + sz(g, child(g, n, R)) + 1
           o == [g.node[n] EXCEPT !.height = x, !.sz = y]
<1>1. x \in Nat \ {0} /\ y \in Nat \ {0}
  BY NodeTypes DEF Larger, L, R
<1>2. g2 = [g EXCEPT !.node[n].height = x, !.node[n].sz = y]
    BY DEF update, x, y
<1>6. y = sz(g, child(g, n, L)) + sz(g, child(g, n, R)) + 1
  OBVIOUS
<1> HIDE DEF x, y
<1>3. g2 = WithNode(g, n, o)
  BY <1>2 DEF WithNode, Heaps, Node
<1>4. g.node[n] \in Node
  BY NodeTypes
<1>5. /\ o \in Node /\ o.sz = y /\ o.par = g.node[n].par /\ o.val = g.node[n].val
      /\ o.cld = g.node[n].cld /\ o.dir = g.node[n].dir
  BY <1>1, <1>4 DEF Node
<1> HIDE DEF o
<1>7. /\ g2 \in Heaps /\ SameButNodes(g, g2) /\ g2.node[n] = o
      /\ \A m \in Nodes \ {n} : g2.node[m] = g.node[m]
  BY <1>3, <1>5, Replaced
<1>8. SameLinks(g, g2)
  BY <1>5, <1>7 DEF SameLinks, Par, Val, Dir, child
<1> QED BY <1>5, <1>6, <1>7, <1>8 DEF Updated

ParIsSet(g, g2, n, p) ==
    /\ g2 \in Heaps /\ SameButNodes(g, g2)
    /\ \A m \in Nodes :
          /\ g2.node[m].cld = g.node[m].cld /\ g2.node[m].dir = g.node[m].dir
          /\ g2.node[m].val = g.node[m].val /\ g2.node[m].sz = g.node[m].sz
          /\ g2.node[m].height = g.node[m].height
          /\ Par(g2, m) = IF m = n THEN p ELSE Par(g, m)
    /\ \A m \in Nodes \ {n} : g2.node[m] = g.node[m]

\* What setting a parent writes.
LEMMA SetParSets ==
    ASSUME NEW g \in Heaps, NEW n \in Links, NEW p \in Links
    PROVE  ParIsSet(g, SetPar(g, n, p), n, p)
<1> DEFINE g2 == SetPar(g, n, p)
<1>0. g2 = SetPar(g, n, p)
  OBVIOUS
<1> HIDE DEF g2
<1> SUFFICES ParIsSet(g, g2, n, p)
  BY <1>0
<1>1. CASE n = Null
  BY <1>0, <1>1, KeysArePositive DEF SetPar, SameButNodes, Par, ParIsSet
<1>2. CASE n # Null
  <2> DEFINE o == [g.node[n] EXCEPT !.par = p]
  <2>1. n \in Nodes
    BY <1>2 DEF Links
  <2>2. g2 = WithNode(g, n, o)
    BY <1>0, <1>2, <2>1 DEF WithNode, SetPar, Heaps, Node
  <2>3. g.node[n] \in Node
    BY <2>1, NodeTypes
  <2>4. /\ o \in Node /\ o.sz = g.node[n].sz /\ o.par = p /\ o.val = g.node[n].val
        /\ o.cld = g.node[n].cld /\ o.dir = g.node[n].dir /\ o.height = g.node[n].height
    BY <2>3 DEF Node
  <2> HIDE DEF o
  <2>5. /\ g2 \in Heaps /\ SameButNodes(g, g2) /\ g2.node[n] = o
        /\ \A m \in Nodes \ {n} : g2.node[m] = g.node[m]
    BY <2>1, <2>2, <2>4, Replaced
    <2> QED BY <2>4, <2>5 DEF Par, ParIsSet
<1> QED BY <1>1, <1>2

DirIsSet(g, g2, n, i, d) ==
    /\ g2 \in Heaps /\ SameButNodes(g, g2)
    /\ \A m \in Nodes :
          /\ g2.node[m].cld = g.node[m].cld /\ g2.node[m].par = g.node[m].par
          /\ g2.node[m].val = g.node[m].val /\ g2.node[m].sz = g.node[m].sz
          /\ g2.node[m].height = g.node[m].height
          /\ \A j \in {L, R} : Dir(g2, m, j) = IF m = n /\ j = i THEN d ELSE Dir(g, m, j)
    /\ \A m \in Nodes \ {n} : g2.node[m] = g.node[m]

\* What setting a link of the thread writes.
LEMMA SetDirSets ==
    ASSUME NEW g \in Heaps, NEW n \in Links, NEW i \in {L, R}, NEW d \in Links
    PROVE  DirIsSet(g, SetDir(g, n, i, d), n, i, d)
<1> DEFINE g2 == SetDir(g, n, i, d)
<1>0. g2 = SetDir(g, n, i, d)
  OBVIOUS
<1> HIDE DEF g2
<1> SUFFICES DirIsSet(g, g2, n, i, d)
  BY <1>0
<1>1. CASE n = Null
  BY <1>0, <1>1, KeysArePositive DEF SetDir, SameButNodes, Dir, DirIsSet
<1>2. CASE n # Null
  <2> DEFINE o == [g.node[n] EXCEPT !.dir[i] = d]
  <2>1. n \in Nodes
    BY <1>2 DEF Links
  <2>2. g2 = WithNode(g, n, o)
    BY <1>0, <1>2, <2>1 DEF WithNode, SetDir, Heaps, Node
  <2>3. g.node[n] \in Node
    BY <2>1, NodeTypes
  <2>4. /\ o \in Node /\ o.sz = g.node[n].sz /\ o.par = g.node[n].par /\ o.val = g.node[n].val
        /\ o.cld = g.node[n].cld /\ o.height = g.node[n].height
        /\ \A j \in {L, R} : o.dir[j] = IF j = i THEN d ELSE g.node[n].dir[j]
    BY <2>3 DEF Node
  <2> HIDE DEF o
  <2>5. /\ g2 \in Heaps /\ SameButNodes(g, g2) /\ g2.node[n] = o
        /\ \A m \in Nodes \ {n} : g2.node[m] = g.node[m]
    BY <2>1, <2>2, <2>4, Replaced
    <2> QED BY <2>4, <2>5 DEF Dir, DirIsSet
<1> QED BY <1>1, <1>2

\* The size of m is that of its children and itself.
Counted(g, m) == g.node[m].sz = sz(g, child(g, m, L)) + sz(g, child(g, m, R)) + 1

\* The two sides.
LEMMA Sides == L # R /\ \A i \in {L, R} : Other(i) \in {L, R} /\ Other(i) # i /\ Other(Other(i)) = i
BY DEF L, R, Other

\* An assertion that is checked leaves the heap, or a fault.
LEMMA CheckedSets ==
    ASSUME NEW g \in Heaps, NEW P \in BOOLEAN, NEW g2, g2 = Checked(g, P)
    PROVE  /\ g2 \in Heaps
           /\ g2.fault = "none" => g2 = g /\ P
           /\ g2.node = g.node /\ g2.root = g.root /\ g2.live = g.live /\ g2.failed = g.failed
           /\ g.fault # "none" => g2.fault # "none"
BY DEF Checked, Fail, Heaps

\* A fault, and the heap as it was.
LEMMA FailSets ==
    ASSUME NEW g \in Heaps, NEW why \in {"assertion", "null", "endless"}, NEW g2, g2 = Fail(g, why)
    PROVE  /\ g2 \in Heaps /\ g2.fault # "none"
           /\ g2.node = g.node /\ g2.root = g.root /\ g2.live = g.live /\ g2.failed = g.failed
BY DEF Fail, Heaps

TurnsTo(g, g2, a, b, i) ==
    /\ g2 \in Heaps /\ SameButNodes(g, g2)
    /\ \A m \in Nodes :
          /\ g2.node[m].sz = g.node[m].sz /\ Val(g2, m) = Val(g, m)
          /\ \A j \in {L, R} :
                /\ Dir(g2, m, j) = Dir(g, m, j)
                /\ child(g2, m, j) = IF m = a /\ j = Other(i) THEN child(g, b, i)
                                     ELSE IF m = b /\ j = i THEN a ELSE child(g, m, j)
          /\ Par(g2, m) = IF m = child(g, b, i) THEN a ELSE IF m = a THEN b
                          ELSE IF m = b THEN Par(g, a) ELSE Par(g, m)
    /\ \A m \in Nodes \ {a, b, child(g, b, i)} : g2.node[m] = g.node[m]

\* The links that a rotation writes in a and b and in the child that changes sides.
LEMMA TurnedSets ==
    ASSUME NEW g \in Heaps, NEW a \in Nodes, NEW b \in Nodes, a # b, NEW i \in {L, R}
    PROVE  TurnsTo(g, Turned(g, a, b, i), a, b, i)
<1> DEFINE g2 == Turned(g, a, b, i)
<1> DEFINE y == child(g, b, i)
           oa == [g.node[a] EXCEPT !.cld[Other(i)] = y, !.par = b]
           ob == [g.node[b] EXCEPT !.cld[i] = a, !.par = g.node[a].par]
           ga == WithNode(g, a, oa)
           gb == WithNode(ga, b, ob)
<1>1. y \in Links /\ Par(g, a) \in Links /\ Other(i) \in {L, R} /\ g.node[a] \in Node /\ g.node[b] \in Node
  BY NodeTypes, Sides
<1>2. /\ oa \in Node /\ oa.val = g.node[a].val /\ oa.sz = g.node[a].sz /\ oa.dir = g.node[a].dir
      /\ oa.par = b /\ \A j \in {L, R} : oa.cld[j] = IF j = Other(i) THEN y ELSE g.node[a].cld[j]
  <2> HIDE DEF y
  <2> QED BY <1>1 DEF Node, Par, Links
<1>3. /\ ob \in Node /\ ob.val = g.node[b].val /\ ob.sz = g.node[b].sz /\ ob.dir = g.node[b].dir
      /\ ob.par = g.node[a].par /\ \A j \in {L, R} : ob.cld[j] = IF j = i THEN a ELSE g.node[b].cld[j]
  BY <1>1 DEF Node, Par, Links
<1>4. g2 = SetPar(gb, y, a)
  <2>1. gb = [g EXCEPT !.node[a].cld[Other(i)] = y, !.node[b].cld[i] = a,
                         !.node[b].par = g.node[a].par, !.node[a].par = b]
    <3> HIDE DEF y
    <3> DEFINE oj == Other(i)
               F1 == [g.node EXCEPT ![a].cld[oj] = y]
               F2 == [F1 EXCEPT ![b].cld[i] = a]
               F3 == [F2 EXCEPT ![b].par = g.node[a].par]
               F4 == [F3 EXCEPT ![a].par = b]
    <3>1. [g EXCEPT !.node[a].cld[Other(i)] = y, !.node[b].cld[i] = a,
                         !.node[b].par = g.node[a].par, !.node[a].par = b] = [g EXCEPT !.node = F4]
      BY <1>1 DEF Heaps
    <3>2. F4 = [[g.node EXCEPT ![a] = oa] EXCEPT ![b] = ob]
      <4> DEFINE o1 == [g.node[a] EXCEPT !.cld[oj] = y]
                 N == g.node
      <4>1. N \in [Nodes -> Node] /\ N = g.node
        BY NodeTypes
      <4>2. F1 = [N EXCEPT ![a] = o1]
        BY <4>1
      <4>3. oa = [o1 EXCEPT !.par = b]
        BY <1>1 DEF Node
      <4> HIDE DEF o1, N, oa
      <4>4. F3 = [[N EXCEPT ![a] = o1] EXCEPT ![b] = ob]
        <5> HIDE DEF F1
        <5>1. F1[b] = N[b] /\ DOMAIN F1 = Nodes
          BY <4>1, <4>2
        <5>2. F3 = [F1 EXCEPT ![b] = ob]
          BY <5>1, <4>1, <1>1 DEF Node
        <5> QED BY <5>2, <4>2
      <4> HIDE DEF ob, F3
      <4>5. DOMAIN F3 = Nodes /\ F3[a] = o1
        BY <4>1, <4>4
      <4>6. F4 = [F3 EXCEPT ![a] = oa]
        BY <4>3, <4>5
      <4>7. F4 = [[[N EXCEPT ![a] = o1] EXCEPT ![b] = ob] EXCEPT ![a] = oa]
        BY <4>4, <4>6
      <4> HIDE DEF F4
      <4>8. F4 = [[N EXCEPT ![a] = oa] EXCEPT ![b] = ob]
        BY <4>7, <4>1
      <4> QED BY <4>8, <4>1
    <3> HIDE DEF F4, oa, ob
    <3>3. gb = [g EXCEPT !.node = [[g.node EXCEPT ![a] = oa] EXCEPT ![b] = ob]]
      BY DEF Heaps, WithNode
    <3> QED BY <3>1, <3>2, <3>3
  <2> QED BY <2>1 DEF Turned
<1> HIDE DEF oa, ob, y
<1>5. /\ ga \in Heaps /\ SameButNodes(g, ga) /\ ga.node[a] = oa
      /\ \A m \in Nodes \ {a} : ga.node[m] = g.node[m]
  BY <1>2, Replaced
<1> HIDE DEF ga
<1>6. /\ gb \in Heaps /\ SameButNodes(ga, gb) /\ gb.node[b] = ob
      /\ \A m \in Nodes \ {b} : gb.node[m] = ga.node[m]
  BY <1>3, <1>5, Replaced
<1> HIDE DEF gb
<1>7. a \in Links
  BY DEF Links
<1> HIDE DEF g2
<1>8. /\ g2 \in Heaps /\ SameButNodes(gb, g2)
      /\ \A m \in Nodes :
            /\ g2.node[m].cld = gb.node[m].cld /\ g2.node[m].dir = gb.node[m].dir
            /\ g2.node[m].val = gb.node[m].val /\ g2.node[m].sz = gb.node[m].sz
            /\ g2.node[m].height = gb.node[m].height
            /\ Par(g2, m) = IF m = y THEN a ELSE Par(gb, m)
      /\ \A m \in Nodes \ {y} : g2.node[m] = gb.node[m]
  <2>1. gb \in Heaps /\ y \in Links
    BY <1>1, <1>6
  <2>2. ParIsSet(gb, g2, y, a)
    BY <2>1, <1>4, <1>7, SetParSets
  <2> QED BY <2>2 DEF ParIsSet
<1>9. SameButNodes(g, g2)
  BY <1>5, <1>6, <1>8 DEF SameButNodes
<1>10. y = child(g, b, i)
  BY DEF y
<1>11. ASSUME NEW m \in Nodes
       PROVE /\ g2.node[m].sz = g.node[m].sz /\ Val(g2, m) = Val(g, m)
             /\ \A j \in {L, R} :
                   /\ Dir(g2, m, j) = Dir(g, m, j)
                   /\ child(g2, m, j) = IF m = a /\ j = Other(i) THEN y
                                        ELSE IF m = b /\ j = i THEN a ELSE child(g, m, j)
             /\ Par(g2, m) = IF m = y THEN a ELSE IF m = a THEN b
                             ELSE IF m = b THEN Par(g, a) ELSE Par(g, m)
  <2>1. CASE m = a
    BY <2>1, <1>2, <1>5, <1>6, <1>8 DEF Val, Dir, child, Par
  <2>2. CASE m = b
    BY <2>2, <1>3, <1>5, <1>6, <1>8 DEF Val, Dir, child, Par
  <2>3. CASE m # a /\ m # b
    BY <2>3, <1>5, <1>6, <1>8 DEF Val, Dir, child, Par
  <2> QED BY <2>1, <2>2, <2>3
<1>12. \A m \in Nodes \ {a, b, y} : g2.node[m] = g.node[m]
  BY <1>5, <1>6, <1>8
<1> QED BY <1>8, <1>9, <1>10, <1>11, <1>12 DEF TurnsTo, g2

HangsTo(g, g2, t, p, a, b, s) ==
    /\ g2 \in Heaps /\ g2.live = g.live /\ g2.fault = g.fault /\ g2.failed = g.failed
    /\ g2.root = IF p = Null THEN [g.root EXCEPT ![t] = b] ELSE g.root
    /\ \A m \in Nodes :
          /\ g2.node[m].sz = g.node[m].sz /\ Val(g2, m) = Val(g, m) /\ Par(g2, m) = Par(g, m)
          /\ \A j \in {L, R} :
                /\ Dir(g2, m, j) = Dir(g, m, j)
                /\ child(g2, m, j) = IF m = p /\ j = s THEN b ELSE child(g, m, j)
    /\ \A m \in Nodes \ {p} : g2.node[m] = g.node[m]

\* The link from above that a rotation writes.
LEMMA HungSets ==
    ASSUME NEW g \in Heaps, NEW t \in Trees, NEW p \in Links, NEW a \in Nodes, NEW b \in Nodes, NEW i \in {L, R},
           NEW s, s = (IF p # Null /\ child(g, p, Other(i)) = a THEN Other(i) ELSE i)
    PROVE  HangsTo(g, Hung(g, t, p, a, b, i), t, p, a, b, s)
<1> DEFINE g2 == Hung(g, t, p, a, b, i)
<1>3. g2 = Hung(g, t, p, a, b, i)
  OBVIOUS
<1> HIDE DEF g2
<1> SUFFICES HangsTo(g, g2, t, p, a, b, s)
  BY <1>3
<1>0. b \in Links
  BY DEF Links
<1>1. CASE p = Null
  <2>1. g2 = [g EXCEPT !.root[t] = b]
    BY <1>1, <1>3 DEF Hung
  <2>2. /\ g2 \in Heaps /\ g2.node = g.node /\ g2.live = g.live /\ g2.fault = g.fault /\ g2.failed = g.failed
        /\ g2.root = [g.root EXCEPT ![t] = b]
    BY <2>1, <1>0 DEF Heaps
  <2>3. p \notin Nodes
    BY <1>1, KeysArePositive
  <2> QED BY <2>2, <2>3, <1>1 DEF HangsTo, Val, Par, Dir, child
<1>2. CASE p # Null
  <2> DEFINE o == [g.node[p] EXCEPT !.cld[s] = b]
  <2>1. p \in Nodes /\ s \in {L, R}
    BY <1>2, Sides DEF Links
  <2>2. g2 = WithNode(g, p, o)
    <3>1. g2 = [g EXCEPT !.node[p].cld[s] = b]
      BY <1>2, <1>3 DEF Hung
    <3> QED BY <3>1, <2>1 DEF WithNode, Heaps, Node
  <2>3. g.node[p] \in Node
    BY <2>1, NodeTypes
  <2>4. /\ o \in Node /\ o.val = g.node[p].val /\ o.sz = g.node[p].sz /\ o.dir = g.node[p].dir
        /\ o.par = g.node[p].par /\ \A j \in {L, R} : o.cld[j] = IF j = s THEN b ELSE g.node[p].cld[j]
    BY <2>1, <2>3, <1>0 DEF Node
  <2> HIDE DEF o
  <2>5. /\ g2 \in Heaps /\ SameButNodes(g, g2) /\ g2.node[p] = o
        /\ \A m \in Nodes \ {p} : g2.node[m] = g.node[m]
    BY <2>1, <2>2, <2>4, Replaced
  <2> QED BY <1>2, <2>4, <2>5 DEF HangsTo, SameButNodes, Val, Par, Dir, child
<1> QED BY <1>1, <1>2

\* What a rotation of a to the side i finds: the child b that takes its place,
\* b's child y that changes sides, the parent p, whose child on side s is a.
Corner(g, a, i, b, y, p, s) ==
    /\ b = child(g, a, Other(i)) /\ y = child(g, b, i) /\ p = Par(g, a)
    /\ s = (IF p # Null /\ child(g, p, Other(i)) = a THEN Other(i) ELSE i)

\* What a rotation does to the links and the sizes.
RotatesTo(g, g2, t, a, i, b, y, p, s) ==
    /\ b \in Nodes /\ (g2.fault = "none" => g.fault = "none")
    /\ g2 \in Heaps /\ g2.live = g.live /\ g2.failed = g.failed
    /\ g2.root = IF p = Null THEN [g.root EXCEPT ![t] = b] ELSE g.root
    /\ \A m \in Nodes :
          /\ Val(g2, m) = Val(g, m)
          /\ \A j \in {L, R} :
                /\ Dir(g2, m, j) = Dir(g, m, j)
                /\ child(g2, m, j) = IF m = a /\ j = Other(i) THEN y
                                     ELSE IF m = b /\ j = i THEN a
                                     ELSE IF m = p /\ j = s THEN b ELSE child(g, m, j)
          /\ Par(g2, m) = IF m = y THEN a ELSE IF m = a THEN b
                          ELSE IF m = b THEN p ELSE Par(g, m)
    /\ \A m \in Nodes \ {a, b} : g2.node[m].sz = g.node[m].sz
    /\ \A m \in Nodes \ {a, b, y, p} : g2.node[m] = g.node[m]
    /\ {y, child(g, a, i), child(g, b, Other(i))} \cap {a, b} = {} =>
          /\ g2.node[a].sz = sz(g, child(g, a, i)) + sz(g, y) + 1
          /\ g2.node[b].sz = g2.node[a].sz + sz(g, child(g, b, Other(i))) + 1

Spin(g, t, a, b, i) == update(update(Hung(Turned(g, a, b, i), t, Par(g, a), a, b, i), a), b)

\* All that a rotation writes.
LEMMA SpinSets ==
    ASSUME NEW g \in Heaps, NEW t \in Trees, NEW a \in Nodes, NEW i \in {L, R}, NEW b \in Nodes,
           NEW y, NEW p, NEW s, Corner(g, a, i, b, y, p, s), a # b, p # a, p # b
    PROVE  RotatesTo(g, Spin(g, t, a, b, i), t, a, i, b, y, p, s)
<1> DEFINE g2 == Spin(g, t, a, b, i)
           g3 == Turned(g, a, b, i)
           g4 == Hung(g3, t, p, a, b, i)
           g5 == update(g4, a)
           g6 == update(g5, b)
<1>20. g2 = g6
  BY DEF Spin, Corner
<1>00. b \in Nodes
  OBVIOUS
<1>21. g3 = Turned(g, a, b, i)
  OBVIOUS
<1>22. g4 = Hung(g3, t, p, a, b, i)
  OBVIOUS
<1>23. g5 = update(g4, a)
  OBVIOUS
<1>24. g6 = update(g5, b)
  OBVIOUS
<1>25. g2 = Spin(g, t, a, b, i)
  OBVIOUS
<1> HIDE DEF g2, g3, g4, g5, g6
<1> SUFFICES RotatesTo(g, g2, t, a, i, b, y, p, s)
  BY <1>25
<1>2. p \in Links /\ y \in Links /\ Other(i) \in {L, R} /\ Other(i) # i
  BY <1>00, NodeTypes, Sides DEF Corner
<1>26. y = child(g, b, i) /\ p = Par(g, a)
  BY DEF Corner
<1>3. TurnsTo(g, g3, a, b, i)
  BY <1>21, <1>00, TurnedSets
<1>4. s = (IF p # Null /\ child(g3, p, Other(i)) = a THEN Other(i) ELSE i)
  BY <1>2, <1>3 DEF TurnsTo, Links, Corner
<1>5. HangsTo(g3, g4, t, p, a, b, s)
  <2>1. g3 \in Heaps
    BY <1>3 DEF TurnsTo
  <2> QED BY <1>22, <1>00, <1>2, <1>4, <2>1, HungSets
<1>6. Updated(g4, g5, a)
  BY <1>23, <1>5, UpdateSets DEF HangsTo
<1>7. Updated(g5, g2, b)
  <2>1. g5 \in Heaps
    BY <1>6 DEF Updated
  <2>2. Updated(g5, g6, b)
    BY <1>24, <1>00, <2>1, UpdateSets
  <2> QED BY <1>20, <2>2
<1>8. /\ g2.live = g.live /\ g2.failed = g.failed
      /\ g2.root = IF p = Null THEN [g.root EXCEPT ![t] = b] ELSE g.root
  BY <1>3, <1>5, <1>6, <1>7 DEF TurnsTo, HangsTo, Updated, SameButNodes
<1>9. ASSUME NEW m \in Nodes
      PROVE  /\ Val(g2, m) = Val(g, m)
             /\ \A j \in {L, R} :
                   /\ Dir(g2, m, j) = Dir(g, m, j)
                   /\ child(g2, m, j) = IF m = a /\ j = Other(i) THEN y
                                        ELSE IF m = b /\ j = i THEN a
                                        ELSE IF m = p /\ j = s THEN b ELSE child(g, m, j)
             /\ Par(g2, m) = IF m = y THEN a ELSE IF m = a THEN b
                             ELSE IF m = b THEN p ELSE Par(g, m)
  <2>1. Val(g2, m) = Val(g, m) /\ \A j \in {L, R} : Dir(g2, m, j) = Dir(g, m, j)
    BY <1>3, <1>5, <1>6, <1>7 DEF TurnsTo, HangsTo, Updated, SameLinks
  <2>2. \A j \in {L, R} : child(g2, m, j) = child(g4, m, j)
    BY <1>6, <1>7 DEF Updated, SameLinks
  <2>3. Par(g2, m) = Par(g3, m)
    BY <1>5, <1>6, <1>7 DEF HangsTo, Updated, SameLinks
  <2> QED BY <2>1, <2>2, <2>3, <1>3, <1>5, <1>26 DEF TurnsTo, HangsTo
<1>10. \A m \in Nodes \ {a, b} : g2.node[m].sz = g.node[m].sz
  BY <1>3, <1>5, <1>6, <1>7 DEF TurnsTo, HangsTo, Updated
<1>11. \A m \in Nodes \ {a, b, y, p} : g2.node[m] = g.node[m]
  BY <1>3, <1>5, <1>6, <1>7, <1>26 DEF TurnsTo, HangsTo, Updated
<1>12. ASSUME {y, child(g, a, i), child(g, b, Other(i))} \cap {a, b} = {}
       PROVE  /\ g2.node[a].sz = sz(g, child(g, a, i)) + sz(g, y) + 1
              /\ g2.node[b].sz = g2.node[a].sz + sz(g, child(g, b, Other(i))) + 1
  <2>1. i = L \/ i = R
    OBVIOUS
  <2>2. child(g, a, i) \in Links /\ child(g, b, Other(i)) \in Links
    BY <1>00, <1>2, NodeTypes
  <2>3. child(g4, a, i) = child(g, a, i) /\ child(g4, a, Other(i)) = y
    BY <1>2, <1>3, <1>5, <1>26 DEF TurnsTo, HangsTo
  <2>4. \A m \in Links \ {a, b} : sz(g4, m) = sz(g, m) /\ sz(g5, m) = sz(g, m)
    BY <1>3, <1>5, <1>6 DEF TurnsTo, HangsTo, Updated, sz, Links
  <2>5. g5.node[a].sz = sz(g4, child(g4, a, i)) + sz(g4, child(g4, a, Other(i))) + 1
    <3>1. sz(g4, child(g4, a, L)) \in Nat /\ sz(g4, child(g4, a, R)) \in Nat
      BY <1>5, NodeTypes DEF HangsTo
    <3> QED BY <3>1, <1>6, <2>1 DEF Updated, Other, L, R
  <2>6. g2.node[a].sz = g5.node[a].sz
    BY <1>7 DEF Updated
  <2>7. child(g5, b, i) = a /\ child(g5, b, Other(i)) = child(g, b, Other(i))
    BY <1>00, <1>2, <1>3, <1>5, <1>6, <1>26 DEF TurnsTo, HangsTo, Updated, SameLinks
  <2>8. g2.node[b].sz = sz(g5, child(g5, b, i)) + sz(g5, child(g5, b, Other(i))) + 1
    <3>1. sz(g5, child(g5, b, L)) \in Nat /\ sz(g5, child(g5, b, R)) \in Nat
      BY <1>00, <1>6, NodeTypes DEF Updated
    <3> QED BY <3>1, <1>7, <2>1 DEF Updated, Other, L, R
  <2>9. sz(g5, a) = g5.node[a].sz
    BY KeysArePositive DEF sz
  <2> QED BY <1>2, <1>12, <2>2, <2>3, <2>4, <2>5, <2>6, <2>7, <2>8, <2>9
<1>13. g2 \in Heaps
  BY <1>7 DEF Updated
<1>14. g2.fault = g.fault
  BY <1>3, <1>5, <1>6, <1>7 DEF TurnsTo, HangsTo, Updated, SameButNodes
<1> QED BY <1>00, <1>14, <1>13, <1>8, <1>9, <1>10, <1>11, <1>12 DEF RotatesTo

\* The assertions of a rotation write nothing.
LEMMA KnownSets ==
    ASSUME NEW g \in Heaps, NEW a, NEW b
    PROVE  /\ BalancesKnown(g, a, b) \in Heaps
           /\ BalancesKnown(g, a, b).node = g.node /\ BalancesKnown(g, a, b).root = g.root
           /\ BalancesKnown(g, a, b).live = g.live /\ BalancesKnown(g, a, b).failed = g.failed
           /\ BalancesKnown(g, a, b).fault = "none" => g.fault = "none"
<1> DEFINE P == \A n \in {a, b} : balance(g, n) = real_balance(g, n)
<1>1. P \in BOOLEAN
  OBVIOUS
<1>2. BalancesKnown(g, a, b) = Checked(g, P)
  BY DEF BalancesKnown
<1> HIDE DEF P
<1> QED BY <1>1, <1>2, CheckedSets

\* A rotation with its assertions.
LEMMA RotateSets ==
    ASSUME NEW g \in Heaps, NEW t \in Trees, NEW a \in Nodes, NEW i \in {L, R}, NEW b \in Nodes,
           NEW y, NEW p, NEW s, Corner(g, a, i, b, y, p, s), a # b, p # a, p # b
    PROVE  RotatesTo(g, Rotate(g, t, a, i), t, a, i, b, y, p, s)
<1> DEFINE g0 == BalancesKnown(g, a, b)
           g1 == Spin(g0, t, a, b, i)
           g2 == BalancesKnown(g1, a, b)
<1>1. Rotate(g, t, a, i) = g2
  <2>1. child(g, a, Other(i)) = b /\ b # Null
    BY KeysArePositive DEF Corner
  <2>2. g.node[a].par = Par(g0, a)
    BY KnownSets DEF Par
  <2> QED BY <2>1, <2>2 DEF Rotate, Spin
<1>2. /\ g0 \in Heaps /\ g0.node = g.node /\ g0.root = g.root /\ g0.live = g.live /\ g0.failed = g.failed
      /\ g0.fault = "none" => g.fault = "none"
  BY KnownSets
<1> HIDE DEF g0
<1>3. Corner(g0, a, i, b, y, p, s)
  BY <1>2 DEF Corner, Par, child
<1>4. RotatesTo(g0, g1, t, a, i, b, y, p, s)
  BY <1>2, <1>3, SpinSets
<1> HIDE DEF g1
<1>5. g1 \in Heaps
  BY <1>4 DEF RotatesTo
<1>6. /\ g2 \in Heaps /\ g2.node = g1.node /\ g2.root = g1.root /\ g2.live = g1.live /\ g2.failed = g1.failed
      /\ g2.fault = "none" => g1.fault = "none"
  BY <1>5, KnownSets
<1> HIDE DEF g2
<1>7. RotatesTo(g0, g2, t, a, i, b, y, p, s)
  <2>1. \A m \in Nodes : /\ Val(g2, m) = Val(g1, m) /\ Par(g2, m) = Par(g1, m) /\ g2.node[m] = g1.node[m]
                          /\ \A j \in {L, R} : Dir(g2, m, j) = Dir(g1, m, j) /\ child(g2, m, j) = child(g1, m, j)
    BY <1>6 DEF Val, Dir, child, Par
  <2>2. g2.node[a].sz = g1.node[a].sz /\ g2.node[b].sz = g1.node[b].sz
    BY <1>6
  <2>3. \A m \in Nodes : g2.node[m].sz = g1.node[m].sz
    BY <1>6
  <2> QED BY <2>1, <2>2, <2>3, <1>4, <1>6 DEF RotatesTo
<1>8. RotatesTo(g, g2, t, a, i, b, y, p, s)
  <2>1. \A m \in Nodes : /\ Val(g0, m) = Val(g, m) /\ Par(g0, m) = Par(g, m) /\ g0.node[m] = g.node[m]
                          /\ \A j \in {L, R} : Dir(g0, m, j) = Dir(g, m, j) /\ child(g0, m, j) = child(g, m, j)
    BY <1>2 DEF Val, Dir, child, Par
  <2>2. \A m : sz(g0, m) = sz(g, m)
    BY <1>2 DEF sz
  <2>3. \A m \in Nodes : g0.node[m].sz = g.node[m].sz
    BY <1>2
  <2>4. Other(i) \in {L, R}
    BY Sides
  <2> QED BY <2>1, <2>2, <2>3, <2>4, <1>2, <1>7 DEF RotatesTo
<1> QED BY <1>1, <1>8

-----------------------------------------------------------------------------
(* The shape of a tree: S[n] are the keys below n.                         *)

\* k lies on the side i of n.
On(i, k, n) == IF i = L THEN k < n ELSE n < k

\* On is a strict order of the keys, in either direction.
LEMMA Orders ==
    ASSUME NEW i \in {L, R}
    PROVE  /\ \A x \in Nodes : ~On(i, x, x)
           /\ \A x, y \in Nodes : /\ x # y => On(i, x, y) \/ On(Other(i), x, y)
                                  /\ On(i, x, y) <=> On(Other(i), y, x)
                                  /\ ~(On(i, x, y) /\ On(Other(i), x, y))
           /\ \A x, y, z \in Nodes : On(i, x, y) /\ On(i, y, z) => On(i, x, z)
<1>1. \A x \in Nodes : x \in Nat
  BY KeysArePositive
<1>2. CASE i = L
  BY <1>1, <1>2 DEF On, L, R, Other
<1>3. CASE i = R
  BY <1>1, <1>3 DEF On, L, R, Other
<1> QED BY <1>2, <1>3

\* The shape of a tree that holds the keys K and has the root r. S[n] is the
\* set of the keys below n, n included.
Spans(K, S) == K \subseteq Nodes /\ S \in [K -> SUBSET K] /\ \A n \in K : n \in S[n]
Nested(K, S) == \A n \in K : \A m \in S[n] : S[m] \subseteq S[n]
Apart(K, S) == \A m \in K : \A x, z \in S[m] : \A w \in K \ S[m] : \A j \in {L, R} : On(j, w, x) => On(j, w, z)
RootedAt(g, K, S, r) == IF K = {} THEN r = Null ELSE r \in K /\ S[r] = K /\ Par(g, r) = Null
Kid(g, K, S, n, i) ==
    IF child(g, n, i) = Null THEN \A k \in S[n] : ~On(i, k, n)
    ELSE /\ child(g, n, i) \in K /\ Par(g, child(g, n, i)) = n
         /\ S[child(g, n, i)] = {k \in S[n] : On(i, k, n)}
Kids(g, K, S) == \A n \in K, i \in {L, R} : Kid(g, K, S, n, i)
Parents(g, K, r) == \A n \in K \ {r} : Par(g, n) \in K /\ \E i \in {L, R} : child(g, Par(g, n), i) = n
Upward(g, K, S) == \A n \in K : \A m \in S[n] \ {n} : Par(g, m) \in S[n]

Tree(g, K, S, r) ==
    /\ Spans(K, S) /\ Nested(K, S) /\ Apart(K, S)
    /\ RootedAt(g, K, S, r) /\ Kids(g, K, S) /\ Parents(g, K, r) /\ Upward(g, K, S)

\* A child heads the keys on its side.
LEMMA KidIs ==
    ASSUME NEW g, NEW K, NEW S, NEW r, Tree(g, K, S, r), NEW n \in K, NEW i \in {L, R},
           child(g, n, i) # Null
    PROVE  /\ child(g, n, i) \in K /\ Par(g, child(g, n, i)) = n
           /\ S[child(g, n, i)] = {k \in S[n] : On(i, k, n)}
BY DEF Tree, Kids, Kid

\* A side with no child has no keys.
LEMMA NoKid ==
    ASSUME NEW g, NEW K, NEW S, NEW r, Tree(g, K, S, r), NEW n \in K, NEW i \in {L, R},
           child(g, n, i) = Null, NEW k \in S[n]
    PROVE  ~On(i, k, n)
BY DEF Tree, Kids, Kid

\* What the shape of a tree says of its nodes.
LEMMA InTree ==
    ASSUME NEW g, NEW K, NEW S, NEW r, Tree(g, K, S, r)
    PROVE  /\ K \subseteq Nodes /\ Null \notin K
           /\ \A n \in K : n \in S[n] /\ S[n] \subseteq K
           /\ \A n \in K : \A m \in S[n] : S[m] \subseteq S[n] /\ (m # n => Par(g, m) \in S[n])
           /\ \A n \in K : Par(g, n) = Null <=> n = r
           /\ K # {} => r \in K /\ S[r] = K
<1>1. /\ K \subseteq Nodes /\ Null \notin K
      /\ \A n \in K : n \in S[n] /\ S[n] \subseteq K
  BY KeysArePositive DEF Tree, Spans
<1>2. \A n \in K : \A m \in S[n] : S[m] \subseteq S[n] /\ (m # n => Par(g, m) \in S[n])
  BY DEF Tree, Nested, Upward
<1>3. K # {} => r \in K /\ S[r] = K /\ Par(g, r) = Null
  BY DEF Tree, RootedAt
<1>4. \A n \in K \ {r} : Par(g, n) \in K
  BY DEF Tree, Parents
<1> QED BY <1>1, <1>2, <1>3, <1>4

\* Two nodes below each other are one.
LEMMA Above ==
    ASSUME NEW g, NEW K, NEW S, NEW r, Tree(g, K, S, r), NEW n \in K, NEW m \in S[n], n \in S[m]
    PROVE  m = n
<1> SUFFICES ASSUME m # n PROVE FALSE
  OBVIOUS
<1>1. n \in Nodes /\ m \in Nodes /\ m \in K
  BY InTree
<1>2. PICK i \in {L, R} : On(i, m, n)
  BY <1>1, Orders, Sides
<1>3. child(g, n, i) # Null
  BY <1>2, NoKid
<1> DEFINE c == child(g, n, i)
<1>4. c \in K /\ S[c] = {k \in S[n] : On(i, k, n)}
  BY <1>3, KidIs
<1>5. m \in S[c]
  BY <1>2, <1>4
<1>6. S[m] \subseteq S[c]
  BY <1>4, <1>5, InTree
<1>7. n \notin S[c]
  BY <1>1, <1>4, Orders
<1> QED BY <1>6, <1>7

\* The nodes around a rotation, as the tree has them.
CornerIn(g, K, S, r, a, i, b, y, p, s) ==
    /\ a \in K /\ b \in K /\ a # b /\ On(i, a, b) /\ Par(g, b) = a
    /\ child(g, a, Other(i)) = b /\ child(g, b, i) = y
    /\ \A k \in K : k \in S[b] <=> k \in S[a] /\ On(Other(i), k, a)
    /\ y # Null => y \in K /\ Par(g, y) = b /\ y # a /\ y # b
    /\ p = Par(g, a) /\ p # a /\ p # b /\ (p = Null <=> a = r)
    /\ p # Null => p \in K /\ child(g, p, s) = a
    /\ s \in {L, R}
    /\ {y, child(g, a, i), child(g, b, Other(i))} \cap {a, b} = {}

\* The nodes around a rotation.
LEMMA Corners ==
    ASSUME NEW g, NEW K, NEW S, NEW r, Tree(g, K, S, r), NEW a \in K, NEW i \in {L, R},
           NEW b, NEW y, NEW p, NEW s, Corner(g, a, i, b, y, p, s), b # Null
    PROVE  CornerIn(g, K, S, r, a, i, b, y, p, s)
<1>1. Other(i) \in {L, R} /\ Other(i) # i /\ Other(Other(i)) = i
  BY Sides
<1>2. /\ b = child(g, a, Other(i)) /\ y = child(g, b, i) /\ p = Par(g, a)
      /\ s = (IF p # Null /\ child(g, p, Other(i)) = a THEN Other(i) ELSE i)
  BY DEF Corner
<1>3. K \subseteq Nodes /\ Null \notin K
  BY InTree
<1>4. b \in K /\ Par(g, b) = a /\ S[b] = {k \in S[a] : On(Other(i), k, a)}
  BY <1>1, <1>2, KidIs
<1>5. a \in S[a] /\ b \in S[b] /\ S[a] \subseteq K /\ S[b] \subseteq K
  BY <1>4, InTree
<1>6. On(Other(i), b, a) /\ b \in S[a]
  BY <1>4, <1>5
<1>7. On(i, a, b) /\ a # b
  BY <1>1, <1>3, <1>4, <1>6, Orders
<1>8. \A k \in K : k \in S[b] <=> k \in S[a] /\ On(Other(i), k, a)
  BY <1>4, <1>5
<1>9. ASSUME NEW n \in K, NEW j \in {L, R}, child(g, n, j) # Null
      PROVE  On(j, child(g, n, j), n) /\ child(g, n, j) # n /\ child(g, n, j) \in S[n]
  <2>1. child(g, n, j) \in K /\ S[child(g, n, j)] = {k \in S[n] : On(j, k, n)}
    BY <1>9, KidIs
  <2>2. child(g, n, j) \in S[child(g, n, j)]
    BY <2>1, InTree
  <2> QED BY <2>1, <2>2, <1>3, Orders
<1>10. y # Null => y \in K /\ Par(g, y) = b /\ y # b /\ y \in S[b]
  BY <1>2, <1>4, <1>9, KidIs
<1>11. y # Null => On(Other(i), y, a) /\ y # a
  BY <1>1, <1>3, <1>8, <1>10, Orders
<1>12. {y, child(g, a, i), child(g, b, Other(i))} \cap {a, b} = {}
  <2>1. child(g, a, i) # a /\ child(g, a, i) # b
    <3>1. CASE child(g, a, i) = Null
      BY <3>1, <1>3, <1>4
    <3>2. CASE child(g, a, i) # Null
      BY <3>2, <1>1, <1>3, <1>4, <1>6, <1>9, Orders
    <3> QED BY <3>1, <3>2
  <2>2. child(g, b, Other(i)) # b /\ child(g, b, Other(i)) # a
    <3>1. CASE child(g, b, Other(i)) = Null
      BY <3>1, <1>3, <1>4
    <3>2. CASE child(g, b, Other(i)) # Null
      BY <3>2, <1>1, <1>3, <1>4, <1>7, <1>9, Orders
    <3> QED BY <3>1, <3>2
  <2>3. y # a /\ y # b
    BY <1>3, <1>4, <1>10, <1>11
  <2> QED BY <2>1, <2>2, <2>3
<1>13. p = Null <=> a = r
  BY <1>2, InTree
<1>14. ASSUME p # Null
       PROVE  p \in K /\ child(g, p, s) = a /\ p # a /\ p # b
  <2>1. p \in K /\ \E j \in {L, R} : child(g, p, j) = a
    BY <1>2, <1>13, <1>14 DEF Tree, Parents
  <2>2. child(g, p, s) = a
    BY <1>2, <1>14, <2>1 DEF Other, L, R
  <2>3. a # p
    BY <2>1, <1>3, <1>9
  <2>4. p # b
    <3>1. SUFFICES ASSUME p = b PROVE FALSE
      OBVIOUS
    <3>2. a \in S[b]
      BY <2>1, <1>3, <1>9, <3>1
    <3> QED BY <3>2, <1>3, <1>8, <1>1, Orders
  <2> QED BY <2>1, <2>2, <2>3, <2>4
<1>15. p # a /\ p # b
  BY <1>3, <1>4, <1>14
<1>16. s \in {L, R}
  BY <1>1, <1>2
<1> QED BY <1>2, <1>4, <1>7, <1>8, <1>10, <1>11, <1>12, <1>13, <1>14, <1>15, <1>16 DEF CornerIn

Spun(K, S, a, b, i) == [m \in K |-> IF m = b THEN S[a] ELSE IF m = a THEN {k \in S[a] : On(i, k, b)} ELSE S[m]]

Spins(g, K, S, S2, a, b, i, y) ==
    /\ Spans(K, S2) /\ Nested(K, S2) /\ Apart(K, S2)
    /\ S2[b] = S[a] /\ S2[a] = {k \in S[a] : On(i, k, b)} /\ \A m \in K \ {a, b} : S2[m] = S[m]
    \* What was below a lies on one side of it, or below y.
    /\ \A m \in S2[a] \ {a} : \/ child(g, a, i) # Null /\ m \in S[child(g, a, i)]
                              \/ y # Null /\ m \in S[y]

\* The subtrees after a rotation are subtrees.
LEMMA SpunSpans ==
    ASSUME NEW g, NEW K, NEW S, NEW r, Tree(g, K, S, r), NEW a, NEW i \in {L, R},
           NEW b, NEW y, NEW p, NEW s, CornerIn(g, K, S, r, a, i, b, y, p, s)
    PROVE  Spins(g, K, S, Spun(K, S, a, b, i), a, b, i, y)
<1> DEFINE S2 == Spun(K, S, a, b, i)
<1>0. S2 = Spun(K, S, a, b, i)
  OBVIOUS
<1> HIDE DEF S2
<1> SUFFICES Spins(g, K, S, S2, a, b, i, y)
  BY <1>0
<1>1. Other(i) \in {L, R} /\ Other(i) # i /\ Other(Other(i)) = i
  BY Sides
<1>2. /\ a \in K /\ b \in K /\ a # b /\ On(i, a, b) /\ Par(g, b) = a
      /\ child(g, a, Other(i)) = b /\ child(g, b, i) = y
      /\ \A k \in K : k \in S[b] <=> k \in S[a] /\ On(Other(i), k, a)
      /\ y # Null => y \in K /\ Par(g, y) = b /\ y # a /\ y # b
  BY DEF CornerIn
<1>3. K \subseteq Nodes
  BY InTree
<1>4. S2[b] = S[a] /\ S2[a] = {k \in S[a] : On(i, k, b)} /\ \A m \in K \ {a, b} : S2[m] = S[m]
  BY <1>0, <1>2 DEF Spun
<1>5. \A n \in K : n \in S[n] /\ S[n] \subseteq K
  BY InTree
<1>6. \A n \in K : \A m \in S[n] : S[m] \subseteq S[n] /\ (m # n => Par(g, m) \in S[n])
  BY InTree
<1>7. b \in S[a]
  BY <1>2, <1>5
<1>8. Spans(K, S2)
  <2>1. S2 \in [K -> SUBSET K]
    BY <1>0, <1>2, <1>5 DEF Spun
  <2> QED BY <2>1, <1>2, <1>3, <1>4, <1>5, <1>7 DEF Spans
<1>9. ASSUME NEW m \in S2[a] \ {a}
      PROVE  \/ child(g, a, i) # Null /\ m \in S[child(g, a, i)]
             \/ y # Null /\ m \in S[y]
  <2>1. m \in S[a] /\ On(i, m, b) /\ m \in K
    BY <1>2, <1>4, <1>5
  <2>2. CASE On(i, m, a)
    BY <2>1, <2>2, <1>2, KidIs, NoKid
  <2>3. CASE On(Other(i), m, a)
    <3>1. m \in S[b]
      BY <2>1, <2>3, <1>2
    <3> QED BY <3>1, <2>1, <1>2, KidIs, NoKid
  <2> QED BY <2>1, <2>2, <2>3, <1>2, <1>3, Orders
<1>10. ASSUME NEW m \in S2[a] \ {a} PROVE S[m] \subseteq S2[a]
  <2>1. m \in K
    BY <1>2, <1>4, <1>5
  <2>2. CASE child(g, a, i) # Null /\ m \in S[child(g, a, i)]
    <3> DEFINE c == child(g, a, i)
    <3>1. c \in K /\ S[c] = {k \in S[a] : On(i, k, a)}
      BY <2>2, <1>2, KidIs
    <3>2. S[m] \subseteq S[c]
      BY <3>1, <2>2, <1>6
    <3>3. \A k \in S[c] : k \in S[a] /\ On(i, k, b)
      BY <3>1, <1>2, <1>3, <1>5, Orders
    <3> QED BY <3>2, <3>3, <1>4
  <2>3. CASE y # Null /\ m \in S[y]
    <3>1. S[y] = {k \in S[b] : On(i, k, b)}
      BY <2>3, <1>2, KidIs
    <3>2. S[m] \subseteq S[y]
      BY <2>3, <1>2, <1>6
    <3>3. S[b] \subseteq S[a]
      BY <1>2, <1>6, <1>7
    <3> QED BY <3>1, <3>2, <3>3, <1>4
  <2> QED BY <2>2, <2>3, <1>9
<1>11. ASSUME NEW n \in K, NEW m \in S2[n] PROVE S2[m] \subseteq S2[n]
  <2>1. m \in K
    BY <1>8 DEF Spans
  <2>0. S2[a] \subseteq S[a]
    BY <1>4
  <2>2. CASE n = b
    <3>1. m \in S[a]
      BY <2>2, <1>4
    <3> QED BY <2>0, <2>1, <2>2, <3>1, <1>2, <1>4, <1>6
  <2>3. CASE n = a
    <3>1. m # b
      BY <2>3, <1>2, <1>3, <1>4, Orders
    <3> QED BY <2>1, <2>3, <3>1, <1>4, <1>10
  <2>4. CASE n # a /\ n # b
    <3>1. m \in S[n] /\ S2[n] = S[n]
      BY <2>4, <1>4
    <3>2. CASE m = b
      <4>1. a \in S[n]
        BY <2>4, <3>1, <3>2, <1>2, <1>6
      <4> QED BY <4>1, <3>1, <3>2, <1>4, <1>6
    <3>3. CASE m = a
      BY <2>0, <3>1, <3>3, <1>6
    <3>4. CASE m # a /\ m # b
      BY <2>1, <3>1, <3>4, <1>4, <1>6
    <3> QED BY <3>2, <3>3, <3>4
  <2> QED BY <2>2, <2>3, <2>4
<1>12. ASSUME NEW m \in K, NEW x \in S2[m], NEW z \in S2[m], NEW w \in K \ S2[m], NEW j \in {L, R}, On(j, w, x)
       PROVE  On(j, w, z)
  <2>1. \A n \in K : \A x1, z1 \in S[n] : \A w1 \in K \ S[n] : \A j1 \in {L, R} : On(j1, w1, x1) => On(j1, w1, z1)
    BY DEF Tree, Apart
  <2>2. CASE m = b
    BY <2>1, <2>2, <1>2, <1>4, <1>12
  <2>3. CASE m # a /\ m # b
    BY <2>1, <2>3, <1>4, <1>12
  <2>4. CASE m = a
    <3>1. x \in S[a] /\ z \in S[a] /\ On(i, x, b) /\ On(i, z, b)
      BY <2>4, <1>4
    <3>2. CASE w \notin S[a]
      BY <2>1, <3>1, <3>2, <1>2, <1>12
    <3>3. CASE w \in S[a]
      <4>1. ~On(i, w, b)
        BY <2>4, <3>3, <1>4
      <4>2. x \in Nodes /\ z \in Nodes /\ w \in Nodes /\ b \in Nodes
        BY <3>1, <1>2, <1>3, <1>5
      <4>3. On(i, x, w) /\ On(i, z, w)
        BY <4>1, <4>2, <3>1, <1>1, Orders
      <4>4. On(Other(i), w, x) /\ On(Other(i), w, z)
        BY <4>2, <4>3, Orders
      <4>5. j = i \/ j = Other(i)
        BY DEF Other, L, R
      <4> QED BY <4>2, <4>4, <4>5, <1>12, Orders
    <3> QED BY <3>2, <3>3
  <2> QED BY <2>2, <2>3, <2>4
<1>13. Nested(K, S2)
  BY <1>11 DEF Nested
<1>14. Apart(K, S2)
  BY <1>12 DEF Apart
<1> QED BY <1>4, <1>8, <1>9, <1>13, <1>14 DEF Spins

-----------------------------------------------------------------------------
(* Rotations keep the shape, the order and the sizes.                      *)

\* After a rotation each child heads the keys on its side.
LEMMA SpinKids ==
    ASSUME NEW g, NEW K, NEW S, NEW r, Tree(g, K, S, r), NEW a, NEW i \in {L, R},
           NEW b, NEW y, NEW p, NEW s, CornerIn(g, K, S, r, a, i, b, y, p, s),
           NEW g2, NEW t, RotatesTo(g, g2, t, a, i, b, y, p, s),
           NEW S2, Spins(g, K, S, S2, a, b, i, y)
    PROVE  Kids(g2, K, S2)
<1>1. Other(i) \in {L, R} /\ Other(i) # i /\ Other(Other(i)) = i
  BY Sides
<1>2. /\ a \in K /\ b \in K /\ a # b /\ On(i, a, b) /\ Par(g, b) = a
      /\ child(g, a, Other(i)) = b /\ child(g, b, i) = y
      /\ \A k \in K : k \in S[b] <=> k \in S[a] /\ On(Other(i), k, a)
      /\ y # Null => y \in K /\ Par(g, y) = b /\ y # a /\ y # b
      /\ p # a /\ p # b
      /\ p # Null => p \in K /\ child(g, p, s) = a
      /\ s \in {L, R}
      /\ {y, child(g, a, i), child(g, b, Other(i))} \cap {a, b} = {}
  BY DEF CornerIn
<1>3. K \subseteq Nodes /\ Null \notin K
  BY InTree
<1>4. S2[b] = S[a] /\ S2[a] = {k \in S[a] : On(i, k, b)} /\ \A m \in K \ {a, b} : S2[m] = S[m]
  BY DEF Spins
<1>5. \A n \in K : n \in S[n] /\ S[n] \subseteq K
  BY InTree
<1>6. \A m \in Nodes :
          /\ \A j \in {L, R} :
                child(g2, m, j) = IF m = a /\ j = Other(i) THEN y
                                  ELSE IF m = b /\ j = i THEN a
                                  ELSE IF m = p /\ j = s THEN b ELSE child(g, m, j)
          /\ Par(g2, m) = IF m = y THEN a ELSE IF m = a THEN b
                          ELSE IF m = b THEN p ELSE Par(g, m)
  BY DEF RotatesTo
<1>7. Kid(g2, K, S2, a, Other(i))
  <2>1. child(g2, a, Other(i)) = y
    BY <1>1, <1>2, <1>3, <1>6
  <2>2. CASE y = Null
    <3>1. \A k \in S2[a] : ~On(Other(i), k, a)
      <4>1. \A k \in S[b] : ~On(i, k, b)
        BY <2>2, <1>2, NoKid
      <4> QED BY <4>1, <1>2, <1>4, <1>5
    <3> QED BY <2>1, <2>2, <3>1 DEF Kid
  <2>3. CASE y # Null
    <3>1. y \in K /\ Par(g2, y) = a
      BY <2>3, <1>2, <1>3, <1>6
    <3>2. S[y] = {k \in S[b] : On(i, k, b)}
      BY <2>3, <1>2, KidIs
    <3>3. S2[y] = S[y]
      BY <2>3, <1>2, <1>4
    <3>4. S[y] = {k \in S2[a] : On(Other(i), k, a)}
      BY <3>2, <1>2, <1>4, <1>5
    <3> QED BY <2>1, <2>3, <3>1, <3>3, <3>4 DEF Kid
  <2> QED BY <2>2, <2>3
<1>8. Kid(g2, K, S2, b, i)
  <2>1. child(g2, b, i) = a /\ Par(g2, a) = b
    BY <1>1, <1>2, <1>3, <1>6
  <2> QED BY <2>1, <1>2, <1>3, <1>4 DEF Kid
<1>9. Kid(g2, K, S2, a, i)
  <2> DEFINE x == child(g, a, i)
  <2>1. child(g2, a, i) = x
    BY <1>1, <1>2, <1>3, <1>6
  <2>2. CASE x = Null
    BY <2>1, <2>2, <1>2, <1>4, NoKid DEF Kid
  <2>3. CASE x # Null
    <3>1. x \in K /\ Par(g, x) = a /\ S[x] = {k \in S[a] : On(i, k, a)}
      BY <2>3, <1>2, KidIs
    <3>2. x # a /\ x # b /\ x # y
      BY <1>2, <1>3, <3>1
    <3>3. Par(g2, x) = a
      BY <3>1, <3>2, <1>3, <1>6
    <3>4. \A k \in S[a] : On(i, k, a) => On(i, k, b)
      BY <1>2, <1>3, <1>5, Orders
    <3>5. S2[x] = {k \in S2[a] : On(i, k, a)}
      BY <3>1, <3>2, <3>4, <1>4
    <3> QED BY <2>1, <2>3, <3>1, <3>3, <3>5 DEF Kid
  <2> QED BY <2>2, <2>3
<1>10. Kid(g2, K, S2, b, Other(i))
  <2> DEFINE z == child(g, b, Other(i))
  <2>1. child(g2, b, Other(i)) = z
    BY <1>1, <1>2, <1>3, <1>6
  <2>0. \A k \in S[a] : On(Other(i), k, b) => k \in S[b]
    <3>1. On(Other(i), b, a)
      BY <1>1, <1>2, <1>3, Orders
    <3> QED BY <3>1, <1>1, <1>2, <1>3, <1>5, Orders
  <2>2. CASE z = Null
    BY <2>0, <2>1, <2>2, <1>1, <1>2, <1>4, NoKid DEF Kid
  <2>3. CASE z # Null
    <3>1. z \in K /\ Par(g, z) = b /\ S[z] = {k \in S[b] : On(Other(i), k, b)}
      BY <2>3, <1>1, <1>2, KidIs
    <3>2. z # a /\ z # b
      BY <1>2
    <3>3. z # y
      <4>1. SUFFICES ASSUME z = y PROVE FALSE
        OBVIOUS
      <4>2. S[y] = {k \in S[b] : On(i, k, b)}
        BY <4>1, <2>3, <1>2, KidIs
      <4>3. On(i, z, b) /\ On(Other(i), z, b)
        BY <4>1, <4>2, <3>1, <1>5
      <4> QED BY <4>3, <3>1, <1>2, <1>3, Orders
    <3>4. Par(g2, z) = b
      BY <3>1, <3>2, <3>3, <1>3, <1>6
    <3>5. S2[z] = {k \in S2[b] : On(Other(i), k, b)}
      BY <3>1, <3>2, <2>0, <1>2, <1>4, <1>5
    <3> QED BY <2>1, <2>3, <3>1, <3>4, <3>5 DEF Kid
  <2> QED BY <2>2, <2>3
<1>11. p # Null => Kid(g2, K, S2, p, s)
  <2> SUFFICES ASSUME p # Null PROVE Kid(g2, K, S2, p, s)
    OBVIOUS
  <2>1. child(g2, p, s) = b /\ Par(g2, b) = p
    BY <1>2, <1>3, <1>6
  <2>2. S[a] = {k \in S[p] : On(s, k, p)}
    BY <1>2, <1>3, KidIs
  <2> QED BY <2>1, <2>2, <1>2, <1>3, <1>4 DEF Kid
<1>12. ASSUME NEW n \in K, NEW j \in {L, R}, n # a, n # b, ~(n = p /\ j = s)
       PROVE  Kid(g2, K, S2, n, j)
  <2> DEFINE c == child(g, n, j)
  <2>1. child(g2, n, j) = c /\ S2[n] = S[n]
    BY <1>3, <1>4, <1>6, <1>12
  <2>2. CASE c = Null
    BY <2>1, <2>2, NoKid DEF Kid
  <2>3. CASE c # Null
    <3>1. c \in K /\ Par(g, c) = n /\ S[c] = {k \in S[n] : On(j, k, n)}
      BY <2>3, KidIs
    <3>2. c # b /\ c # y
      BY <3>1, <1>2, <1>3, <1>12
    <3>3. c # a
      <4>1. SUFFICES ASSUME c = a PROVE FALSE
        OBVIOUS
      <4>2. n = p
        BY <4>1, <3>1 DEF CornerIn
      <4>3. p # Null /\ j # s /\ child(g, p, s) = a
        BY <4>2, <1>2, <1>3, <1>12
      <4>4. S[a] = {k \in S[n] : On(s, k, n)} /\ S[a] = {k \in S[n] : On(j, k, n)}
        BY <4>1, <4>2, <4>3, <3>1, <1>2, <1>3, KidIs
      <4>5. On(s, a, n) /\ On(j, a, n)
        BY <4>4, <1>2, <1>5
      <4>6. j = Other(s)
        BY <4>3, <1>2 DEF Other, L, R
      <4> QED BY <4>5, <4>6, <1>2, <1>3, Orders
    <3>4. Par(g2, c) = n
      BY <3>1, <3>2, <3>3, <1>3, <1>6
    <3> QED BY <2>1, <2>3, <3>1, <3>2, <3>3, <3>4, <1>4 DEF Kid
  <2> QED BY <2>2, <2>3
<1>13. ASSUME NEW n \in K, NEW j \in {L, R} PROVE Kid(g2, K, S2, n, j)
  <2>1. j = i \/ j = Other(i)
    BY DEF Other, L, R
  <2> QED BY <2>1, <1>3, <1>7, <1>8, <1>9, <1>10, <1>11, <1>12
<1> QED BY <1>13 DEF Kids

\* A rotation makes a tree of a tree, with the same keys.
LEMMA SpinTree ==
    ASSUME NEW g, NEW K, NEW S, NEW r, Tree(g, K, S, r), NEW a, NEW i \in {L, R},
           NEW b, NEW y, NEW p, NEW s, CornerIn(g, K, S, r, a, i, b, y, p, s),
           NEW g2, NEW t, RotatesTo(g, g2, t, a, i, b, y, p, s)
    PROVE  Tree(g2, K, Spun(K, S, a, b, i), IF a = r THEN b ELSE r)
<1> DEFINE S2 == Spun(K, S, a, b, i)
           r2 == IF a = r THEN b ELSE r
<1>000. Spins(g, K, S, S2, a, b, i, y)
  BY SpunSpans
<1>0. r2 = IF a = r THEN b ELSE r
  OBVIOUS
<1> HIDE DEF S2, r2
<1> SUFFICES Tree(g2, K, S2, r2)
  BY DEF S2, r2
<1>1. Other(i) \in {L, R} /\ Other(i) # i /\ Other(Other(i)) = i
  BY Sides
<1>2. /\ a \in K /\ b \in K /\ a # b /\ On(i, a, b) /\ Par(g, b) = a
      /\ child(g, a, Other(i)) = b /\ child(g, b, i) = y
      /\ y # Null => y \in K /\ Par(g, y) = b /\ y # a /\ y # b
      /\ p # a /\ p # b /\ p = Par(g, a) /\ (p = Null <=> a = r)
      /\ p # Null => p \in K /\ child(g, p, s) = a
      /\ s \in {L, R}
      /\ {y, child(g, a, i), child(g, b, Other(i))} \cap {a, b} = {}
  BY DEF CornerIn
<1>3. K \subseteq Nodes /\ Null \notin K /\ r \in K /\ S[r] = K
  BY <1>2, InTree
<1>4. /\ Spans(K, S2) /\ Nested(K, S2) /\ Apart(K, S2)
      /\ S2[b] = S[a] /\ S2[a] = {k \in S[a] : On(i, k, b)} /\ \A m \in K \ {a, b} : S2[m] = S[m]
      /\ \A m \in S2[a] \ {a} : \/ child(g, a, i) # Null /\ m \in S[child(g, a, i)]
                                \/ y # Null /\ m \in S[y]
  BY <1>000 DEF Spins
<1>5. \A n \in K : n \in S[n] /\ S[n] \subseteq K /\ n \in S2[n] /\ S2[n] \subseteq K
  BY <1>4, InTree DEF Spans
<1>6. \A m \in Nodes :
          /\ \A j \in {L, R} :
                child(g2, m, j) = IF m = a /\ j = Other(i) THEN y
                                  ELSE IF m = b /\ j = i THEN a
                                  ELSE IF m = p /\ j = s THEN b ELSE child(g, m, j)
          /\ Par(g2, m) = IF m = y THEN a ELSE IF m = a THEN b
                          ELSE IF m = b THEN p ELSE Par(g, m)
  BY DEF RotatesTo
<1>7. Kids(g2, K, S2)
  BY <1>000, SpinKids
<1>8. b # r /\ r # y
  BY <1>2, <1>3, InTree
<1>9. RootedAt(g2, K, S2, r2)
  <2>1. CASE a = r
    <3>1. Par(g2, b) = Null
      BY <2>1, <1>2, <1>3, <1>6
    <3> QED BY <2>1, <3>1, <1>0, <1>2, <1>3, <1>4 DEF RootedAt
  <2>2. CASE a # r
    <3>1. Par(g2, r) = Par(g, r) /\ Par(g, r) = Null
      BY <2>2, <1>3, <1>6, <1>8, InTree
    <3> QED BY <2>2, <3>1, <1>0, <1>2, <1>3, <1>4, <1>8 DEF RootedAt
  <2> QED BY <2>1, <2>2
<1>10. ASSUME NEW n \in K \ {r2}
       PROVE  Par(g2, n) \in K /\ \E j \in {L, R} : child(g2, Par(g2, n), j) = n
  <2>1. CASE n = y
    <3>1. Par(g2, n) = a /\ child(g2, a, Other(i)) = y
      BY <2>1, <1>1, <1>2, <1>3, <1>6
    <3> QED BY <3>1, <2>1, <1>1, <1>2
  <2>2. CASE n = a
    <3>1. Par(g2, n) = b /\ child(g2, b, i) = a
      BY <2>2, <1>1, <1>2, <1>3, <1>6
    <3> QED BY <3>1, <2>2, <1>2
  <2>3. CASE n = b
    <3>1. p # Null
      BY <2>3, <1>0, <1>2
    <3>2. Par(g2, n) = p /\ child(g2, p, s) = b
      BY <2>3, <3>1, <1>1, <1>2, <1>3, <1>6
    <3> QED BY <3>1, <3>2, <2>3, <1>2
  <2>4. CASE n # y /\ n # a /\ n # b
    <3>1. n # r
      BY <2>4, <1>0
    <3>2. PICK j \in {L, R} : Par(g, n) \in K /\ child(g, Par(g, n), j) = n
      BY <3>1 DEF Tree, Parents
    <3>3. Par(g2, n) = Par(g, n)
      BY <2>4, <1>3, <1>6
    <3>4. child(g2, Par(g, n), j) = n
      BY <3>2, <2>4, <1>2, <1>3, <1>6
    <3> QED BY <3>2, <3>3, <3>4
  <2> QED BY <2>1, <2>2, <2>3, <2>4
<1>11. Parents(g2, K, r2)
  BY <1>10 DEF Parents
<1>12. \A n \in K : \A m \in S[n] : S[m] \subseteq S[n] /\ (m # n => Par(g, m) \in S[n])
  BY InTree
<1>13. ASSUME NEW n \in K, NEW m \in S2[n] \ {n} PROVE Par(g2, m) \in S2[n]
  <2>0. m \in K /\ m \in Nodes /\ m # Null
    BY <1>3, <1>5
  <2>00. n # a /\ n # b => S2[n] = S[n]
    BY <1>4
  <2>1. CASE m = y
    <3>1. Par(g2, m) = a /\ Par(g, m) = b /\ Par(g, b) = a
      BY <2>0, <2>1, <1>2, <1>6
    <3>2. CASE n = a \/ n = b
      BY <3>1, <3>2, <1>2, <1>4, <1>5
    <3>3. CASE n # a /\ n # b
      <4>1. b \in S[n]
        BY <3>1, <3>3, <2>00, <1>12
      <4>2. a \in S[n]
        BY <3>1, <3>3, <4>1, <1>12
      <4> QED BY <3>1, <4>2, <3>3, <2>00
    <3> QED BY <3>2, <3>3
  <2>2. CASE m = a
    <3>1. Par(g2, m) = b
      BY <2>2, <1>2, <1>3, <1>6
    <3>2. CASE n = b
      BY <3>1, <3>2, <1>2, <1>5
    <3>3. CASE n # b
      <4>1. a \in S[n] /\ S2[n] = S[n]
        BY <2>2, <3>3, <2>00
      <4>2. b \in S[a]
        BY <1>2, <1>4, <1>5
      <4>3. b \in S[n]
        BY <4>1, <4>2, <1>12
      <4> QED BY <3>1, <4>1, <4>3
    <3> QED BY <3>2, <3>3
  <2>3. CASE m = b
    <3>1. Par(g2, m) = p
      BY <2>3, <1>2, <1>3, <1>6
    <3>2. n # a
      <4>1. ~On(i, b, b)
        BY <1>2, <1>3, Orders
      <4> QED BY <4>1, <2>3, <1>4
    <3>3. b \in S[n] /\ S2[n] = S[n] /\ n # b
      BY <2>3, <3>2, <2>00
    <3>4. a \in S[n]
      BY <3>3, <1>2, <1>12
    <3> QED BY <3>1, <3>2, <3>3, <3>4, <1>2, <1>12
  <2>4. CASE m # y /\ m # a /\ m # b
    <3>1. Par(g2, m) = Par(g, m)
      BY <2>0, <2>4, <1>6
    <3>2. CASE n = b
      <4>1. m \in S[a] /\ S2[n] = S[a]
        BY <3>2, <1>4
      <4> QED BY <3>1, <4>1, <2>4, <1>2, <1>12
    <3>3. CASE n = a
      <4>1. CASE child(g, a, i) # Null /\ m \in S[child(g, a, i)]
        <5> DEFINE c == child(g, a, i)
        <5>0. child(g, a, i) # Null /\ a \in K
          BY <4>1, <1>2
        <5>4. c \in K /\ Par(g, c) = a
          BY <5>0, KidIs
        <5>5. c # a /\ c # b
          BY <1>2
        <5>1. c \in K /\ Par(g, c) = a /\ c # a /\ c # b
          BY <5>4, <5>5
        <5>2. CASE m = c
          BY <5>1, <5>2, <3>1, <3>3, <1>2, <1>5
        <5>3. CASE m # c
          <6>1. Par(g, m) \in S[c]
            BY <5>1, <5>3, <4>1, <1>12
          <6>2. S[c] = {k \in S[a] : On(i, k, a)}
            BY <5>0, KidIs
          <6>3. Par(g, m) \in S[a] /\ On(i, Par(g, m), a)
            BY <6>1, <6>2
          <6>4. On(i, Par(g, m), b)
            BY <6>3, <1>2, <1>3, <1>5, Orders
          <6> QED BY <6>3, <6>4, <3>1, <3>3, <1>4
        <5> QED BY <5>2, <5>3
      <4>2. CASE y # Null /\ m \in S[y]
        <5>1. Par(g, m) \in S[y]
          BY <4>2, <2>4, <1>2, <1>12
        <5>2. S[y] = {k \in S[b] : On(i, k, b)}
          BY <4>2, <1>2, KidIs
        <5>3. S[b] \subseteq S[a]
          <6>1. b \in S[a]
            BY <1>2, <1>4, <1>5
          <6> QED BY <6>1, <1>2, <1>12
        <5> QED BY <5>1, <5>2, <5>3, <3>1, <3>3, <1>4
      <4> QED BY <4>1, <4>2, <3>3, <1>4
    <3>4. CASE n # a /\ n # b
      BY <3>1, <3>4, <2>00, <1>12
    <3> QED BY <3>2, <3>3, <3>4
  <2> QED BY <2>1, <2>2, <2>3, <2>4
<1>14. Upward(g2, K, S2)
  BY <1>13 DEF Upward
<1> QED BY <1>4, <1>7, <1>9, <1>11, <1>14 DEF Tree

\* A node hangs from its parent on one side only.
LEMMA OneSide ==
    ASSUME NEW g, NEW K, NEW S, NEW r, Tree(g, K, S, r), NEW n \in K, NEW j \in {L, R}, NEW k \in {L, R},
           child(g, n, j) # Null, child(g, n, k) = child(g, n, j)
    PROVE  j = k
<1> DEFINE c == child(g, n, j)
<1>1. c \in K /\ S[c] = {m \in S[n] : On(j, m, n)}
  BY KidIs
<1>2. S[child(g, n, k)] = {m \in S[n] : On(k, m, n)}
  BY KidIs
<1>3. c \in S[c] /\ K \subseteq Nodes
  BY <1>1, InTree
<1>4. On(j, c, n) /\ On(k, c, n)
  BY <1>1, <1>2, <1>3
<1>5. n \in Nodes /\ c \in Nodes /\ (j # k => k = Other(j))
  BY <1>1, <1>3 DEF Other, L, R
<1> QED BY <1>4, <1>5, Orders

\* A rotation keeps the sizes of the nodes right.
LEMMA SpinCounts ==
    ASSUME NEW g \in Heaps, NEW K, NEW S, NEW r, Tree(g, K, S, r), NEW a, NEW i \in {L, R},
           NEW b, NEW y, NEW p, NEW s, CornerIn(g, K, S, r, a, i, b, y, p, s),
           NEW g2, NEW t, RotatesTo(g, g2, t, a, i, b, y, p, s), Counted(g, a), Counted(g, b)
    PROVE  /\ Counted(g2, a) /\ Counted(g2, b)
           /\ \A m \in K \ {a, b} : Counted(g, m) => Counted(g2, m)
<1>1. Other(i) \in {L, R} /\ Other(i) # i /\ ((i = L /\ Other(i) = R) \/ (i = R /\ Other(i) = L))
  BY DEF Other, L, R
<1>2. /\ a \in K /\ b \in K /\ a # b /\ Par(g, b) = a
      /\ child(g, a, Other(i)) = b /\ child(g, b, i) = y
      /\ p # a /\ p # b /\ p = Par(g, a)
      /\ p # Null => p \in K /\ child(g, p, s) = a
      /\ s \in {L, R}
      /\ {y, child(g, a, i), child(g, b, Other(i))} \cap {a, b} = {}
  BY DEF CornerIn
<1>3. K \subseteq Nodes /\ Null \notin K
  BY InTree
<1>4. \A m \in Nodes : \A j \in {L, R} :
                child(g2, m, j) = IF m = a /\ j = Other(i) THEN y
                                  ELSE IF m = b /\ j = i THEN a
                                  ELSE IF m = p /\ j = s THEN b ELSE child(g, m, j)
  BY DEF RotatesTo
<1> DEFINE x == child(g, a, i)
           z == child(g, b, Other(i))
<1>5. /\ g2 \in Heaps /\ \A m \in Nodes \ {a, b} : g2.node[m].sz = g.node[m].sz
      /\ g2.node[a].sz = sz(g, x) + sz(g, y) + 1
      /\ g2.node[b].sz = g2.node[a].sz + sz(g, z) + 1
  BY <1>2 DEF RotatesTo
<1>6. x \in Links /\ y \in Links /\ z \in Links
  BY <1>1, <1>2, <1>3, NodeTypes
<1>7. \A m \in Links \ {a, b} : sz(g2, m) = sz(g, m)
  BY <1>5 DEF sz, Links
<1>8. sz(g, x) \in Nat /\ sz(g, y) \in Nat /\ sz(g, z) \in Nat
  BY <1>6, NodeTypes
<1>9. child(g2, a, i) = x /\ child(g2, a, Other(i)) = y /\ child(g2, b, i) = a /\ child(g2, b, Other(i)) = z
  BY <1>1, <1>2, <1>3, <1>4
<1>10. x \notin {a, b} /\ y \notin {a, b} /\ z \notin {a, b}
  BY <1>2
<1>11. sz(g2, x) = sz(g, x) /\ sz(g2, y) = sz(g, y) /\ sz(g2, z) = sz(g, z)
  BY <1>6, <1>7, <1>10
<1>12. sz(g2, a) = g2.node[a].sz /\ sz(g2, b) = g2.node[b].sz /\ sz(g, a) = g.node[a].sz /\ sz(g, b) = g.node[b].sz
  BY <1>2, <1>3 DEF sz
<1>13. Counted(g2, a)
  <2> HIDE DEF x
  <2>1. g2.node[a].sz = sz(g2, x) + sz(g2, y) + 1
    BY <1>5, <1>11
  <2>2. sz(g2, x) + sz(g2, y) = sz(g2, y) + sz(g2, x)
    BY <1>8, <1>11
  <2> QED BY <2>1, <2>2, <1>1, <1>9 DEF Counted
<1>14. Counted(g2, b)
  <2> HIDE DEF z
  <2>1. g2.node[b].sz = sz(g2, a) + sz(g2, z) + 1
    BY <1>5, <1>11, <1>12
  <2>2. sz(g2, a) + sz(g2, z) = sz(g2, z) + sz(g2, a)
    <3>1. sz(g2, a) \in Nat
      BY <1>5, <1>8, <1>12
    <3> QED BY <3>1, <1>8, <1>11
  <2> QED BY <2>1, <2>2, <1>1, <1>9 DEF Counted
<1>15. g2.node[b].sz = g.node[a].sz
  <2> HIDE DEF x, z
  <2>1. g.node[a].sz = sz(g, x) + sz(g, b) + 1
    <3>0. sz(g, b) \in Nat
      BY <1>2, <1>3, NodeTypes DEF Links
    <3> QED BY <3>0, <1>1, <1>2, <1>8 DEF Counted, x
  <2>2. g.node[b].sz = sz(g, y) + sz(g, z) + 1
    BY <1>1, <1>2, <1>8 DEF Counted, z
  <2> QED BY <2>1, <2>2, <1>5, <1>8, <1>12
<1>16. ASSUME NEW m \in K \ {a, b}, NEW j \in {L, R}
       PROVE  sz(g2, child(g2, m, j)) = sz(g, child(g, m, j))
  <2>1. CASE m = p /\ j = s
    <3>1. child(g2, m, j) = b /\ child(g, m, j) = a
      BY <2>1, <1>2, <1>3, <1>4, <1>16
    <3> QED BY <3>1, <1>12, <1>15
  <2>2. CASE ~(m = p /\ j = s)
    <3>1. child(g2, m, j) = child(g, m, j) /\ child(g, m, j) \in Links
      BY <2>2, <1>3, <1>4, <1>16, NodeTypes
    <3>2. child(g, m, j) # b
      BY <1>2, <1>3, <1>16, KidIs
    <3>3. child(g, m, j) # a
      <4>1. SUFFICES ASSUME child(g, m, j) = a PROVE FALSE
        OBVIOUS
      <4>2. m = p
        BY <4>1, <1>2, <1>3, KidIs
      <4>3. child(g, m, s) = a /\ a # Null
        BY <4>2, <1>2, <1>3
      <4>4. j = s
        BY <4>1, <4>3, <1>2, OneSide
      <4> QED BY <4>2, <4>4, <2>2
    <3> QED BY <3>1, <3>2, <3>3, <1>7
  <2> QED BY <2>1, <2>2
<1>17. ASSUME NEW m \in K \ {a, b}, Counted(g, m) PROVE Counted(g2, m)
  <2>1. g2.node[m].sz = g.node[m].sz
    BY <1>3, <1>5
  <2> QED BY <2>1, <1>16, <1>17 DEF Counted
<1> QED BY <1>13, <1>14, <1>17

\* The nodes of g are those of g0, and only the links and sizes of K have changed.
Shuffled(g0, g, t, K) ==
    /\ g.live = g0.live /\ g.failed = g0.failed
    /\ \A u \in Trees \ {t} : g.root[u] = g0.root[u]
    /\ \A m \in Nodes : Val(g, m) = Val(g0, m) /\ \A j \in {L, R} : Dir(g, m, j) = Dir(g0, m, j)
    /\ \A m \in Nodes \ K : g.node[m] = g0.node[m]
\* The root of t follows that of the shape.
Follows(g0, r0, t, g, r) == g.root[t] = r \/ (r = r0 /\ g.root[t] = g0.root[t])

\* Rotations of nodes of D have made g of g0.
Turning(g0, S0, r0, t, K, D, g, S, r) ==
    /\ g \in Heaps /\ Tree(g, K, S, r) /\ D \subseteq K
    /\ Shuffled(g0, g, t, K) /\ Follows(g0, r0, t, g, r)
    /\ \A m \in K \ D : S[m] = S0[m] /\ (Counted(g0, m) => Counted(g, m))
    /\ \A m \in D : S[m] \subseteq D /\ Counted(g, m)
Reaches(g0, S0, r0, t, K, D, g) == \E S, r : Turning(g0, S0, r0, t, K, D, g, S, r)

\* Two changes of the links in K are one.
LEMMA ShuffledTwice ==
    ASSUME NEW g0, NEW g, NEW g2, NEW t, NEW K, Shuffled(g0, g, t, K), Shuffled(g, g2, t, K)
    PROVE  Shuffled(g0, g2, t, K)
BY DEF Shuffled

\* And the root follows through both.
LEMMA FollowsTwice ==
    ASSUME NEW g0, NEW g, NEW g2, NEW t, NEW r0, NEW r, NEW r2, Follows(g0, r0, t, g, r), Follows(g, r, t, g2, r2)
    PROVE  Follows(g0, r0, t, g2, r2)
BY DEF Follows

\* The shape is in the links.
LEMMA SameTree ==
    ASSUME NEW g, NEW g2, NEW K, NEW S, NEW r, Tree(g, K, S, r),
           \A m \in K : Par(g2, m) = Par(g, m) /\ \A i \in {L, R} : child(g2, m, i) = child(g, m, i)
    PROVE  Tree(g2, K, S, r)
<1>1. K \subseteq Nodes /\ \A n \in K : S[n] \subseteq K
  BY InTree
<1>2. RootedAt(g2, K, S, r)
  BY DEF Tree, RootedAt
<1>3. Kids(g2, K, S)
  BY DEF Tree, Kids, Kid
<1>4. Parents(g2, K, r)
  BY DEF Tree, Parents
<1>5. Upward(g2, K, S)
  BY <1>1 DEF Tree, Upward
<1> QED BY <1>2, <1>3, <1>4, <1>5 DEF Tree

ReachesFrom(g0, S0, r0, t, K, D, g, g2) ==
    Reaches(g0, S0, r0, t, K, D, g2) /\ (g2.fault = "none" => g.fault = "none")

\* A rotation of a node of D, with its right or left child.
LEMMA PairTurns ==
    ASSUME NEW g0, NEW S0, NEW r0, NEW t \in Trees, NEW K, NEW D, NEW g, NEW a \in D, NEW i \in {L, R},
           NEW S, NEW r, Turning(g0, S0, r0, t, K, D, g, S, r),
           NEW b \in Nodes, NEW y, NEW p, NEW s, Corner(g, a, i, b, y, p, s), a # b
    PROVE  ReachesFrom(g0, S0, r0, t, K, D, g, Rotate(g, t, a, i))
<1> DEFINE g2 == Rotate(g, t, a, i)
<1>0. g2 = Rotate(g, t, a, i)
  OBVIOUS
<1> HIDE DEF g2
<1> SUFFICES ReachesFrom(g0, S0, r0, t, K, D, g, g2)
  BY <1>0
<1>2. /\ g \in Heaps /\ Tree(g, K, S, r) /\ D \subseteq K
      /\ Shuffled(g0, g, t, K) /\ Follows(g0, r0, t, g, r)
      /\ \A m \in K \ D : S[m] = S0[m] /\ (Counted(g0, m) => Counted(g, m))
      /\ \A m \in D : S[m] \subseteq D /\ Counted(g, m)
  BY DEF Turning
<1>3. a \in K /\ K \subseteq Nodes /\ a \in Nodes /\ a # Null
  BY <1>2, InTree
<1>7. b # Null
  BY KeysArePositive
<1>8. CornerIn(g, K, S, r, a, i, b, y, p, s)
  BY <1>2, <1>3, <1>7, Corners
<1>9. p # a /\ p # b /\ b \in K /\ p = Par(g, a) /\ (p = Null <=> a = r) /\ (p # Null => p \in K) /\ (y # Null => y \in K)
  BY <1>8 DEF CornerIn
<1>10. RotatesTo(g, g2, t, a, i, b, y, p, s)
  BY <1>0, <1>2, <1>3, <1>9, RotateSets
<1> DEFINE S2 == Spun(K, S, a, b, i)
           r2 == IF a = r THEN b ELSE r
<1>11. Tree(g2, K, S2, r2)
  BY <1>2, <1>8, <1>10, SpinTree
<1>12. /\ S2[b] = S[a] /\ S2[a] = {k \in S[a] : On(i, k, b)} /\ \A m \in K \ {a, b} : S2[m] = S[m]
  <2>1. Spins(g, K, S, S2, a, b, i, y)
    BY <1>2, <1>8, SpunSpans
  <2> HIDE DEF S2
  <2> QED BY <2>1 DEF Spins
<1> HIDE DEF S2
<1>13. b \in D
  <2>1. b \in S[b] /\ (b \in S[b] => b \in S[a])
    BY <1>2, <1>8, <1>9, InTree DEF CornerIn
  <2> QED BY <2>1, <1>2
<1>14. Counted(g2, a) /\ Counted(g2, b) /\ \A m \in K \ {a, b} : Counted(g, m) => Counted(g2, m)
  BY <1>2, <1>8, <1>10, <1>13, SpinCounts
<1>15. Shuffled(g, g2, t, K)
  <2>0. y \in Links /\ p \in Links
    BY <1>3, <1>9 DEF Links
  <2>1. g2.live = g.live /\ g2.failed = g.failed
    BY <1>10 DEF RotatesTo
  <2>2. \A u \in Trees \ {t} : g2.root[u] = g.root[u]
    <3>1. g.root \in [Trees -> Links]
      BY <1>2, NodeTypes
    <3> QED BY <3>1, <1>10 DEF RotatesTo
  <2>3. \A m \in Nodes : Val(g2, m) = Val(g, m) /\ \A j \in {L, R} : Dir(g2, m, j) = Dir(g, m, j)
    BY <1>10 DEF RotatesTo
  <2>4. \A m \in Nodes \ K : g2.node[m] = g.node[m]
    BY <1>3, <1>9, <1>10, KeysArePositive DEF RotatesTo
  <2> QED BY <2>1, <2>2, <2>3, <2>4 DEF Shuffled
<1>16. Follows(g, r, t, g2, r2)
  <2>1. g.root \in [Trees -> Links]
    BY <1>2, NodeTypes
  <2> QED BY <2>1, <1>9, <1>10 DEF RotatesTo, Follows
<1> HIDE DEF r2
<1>17. \A m \in K \ D : S2[m] = S0[m] /\ (Counted(g0, m) => Counted(g2, m))
  BY <1>2, <1>12, <1>13, <1>14
<1>18. \A m \in D : S2[m] \subseteq D /\ Counted(g2, m)
  BY <1>2, <1>12, <1>13, <1>14
<1>19. g2 \in Heaps
  BY <1>10 DEF RotatesTo
<1>20. Shuffled(g0, g2, t, K) /\ Follows(g0, r0, t, g2, r2)
  BY <1>2, <1>15, <1>16, ShuffledTwice, FollowsTwice
<1>21. Turning(g0, S0, r0, t, K, D, g2, S2, r2)
  BY <1>2, <1>11, <1>17, <1>18, <1>19, <1>20 DEF Turning
<1>22. g2.fault = "none" => g.fault = "none"
  BY <1>10 DEF RotatesTo
<1> QED BY <1>21, <1>22 DEF Reaches, ReachesFrom

\* A rotation of a node of D, or an assertion that fails.
LEMMA TurningRotates ==
    ASSUME NEW g0, NEW S0, NEW r0, NEW t \in Trees, NEW K, NEW D, NEW g, NEW a \in D, NEW i \in {L, R},
           Reaches(g0, S0, r0, t, K, D, g)
    PROVE  ReachesFrom(g0, S0, r0, t, K, D, g, Rotate(g, t, a, i))
<1> DEFINE g2 == Rotate(g, t, a, i)
<1>0. g2 = Rotate(g, t, a, i)
  OBVIOUS
<1> HIDE DEF g2
<1> SUFFICES ReachesFrom(g0, S0, r0, t, K, D, g, g2)
  BY <1>0
<1>1. PICK S, r : Turning(g0, S0, r0, t, K, D, g, S, r)
  BY DEF Reaches
<1>2. /\ g \in Heaps /\ Tree(g, K, S, r) /\ D \subseteq K
      /\ Shuffled(g0, g, t, K) /\ Follows(g0, r0, t, g, r)
      /\ \A m \in K \ D : S[m] = S0[m] /\ (Counted(g0, m) => Counted(g, m))
      /\ \A m \in D : S[m] \subseteq D /\ Counted(g, m)
  BY <1>1 DEF Turning
<1>3. a \in K /\ K \subseteq Nodes /\ a \in Nodes /\ a # Null
  BY <1>2, InTree
<1>4. PICK b, y, p, s : Corner(g, a, i, b, y, p, s)
  BY DEF Corner
<1>5. b # a
  BY <1>2, <1>3, <1>4, KidIs, InTree, Orders, Sides DEF Corner
<1>6. CASE b = Null
  <2>1. g2 = Fail(g, "assertion")
    BY <1>0, <1>4, <1>6 DEF Rotate, Corner
  <2>2. g2 \in Heaps /\ g2.fault # "none" /\ g2.node = g.node /\ g2.root = g.root /\ g2.live = g.live /\ g2.failed = g.failed
    BY <1>2, <2>1, FailSets
  <2>3. Tree(g2, K, S, r)
    BY <1>2, <2>2, SameTree DEF Par, child
  <2>4. Shuffled(g0, g2, t, K) /\ Follows(g0, r0, t, g2, r)
    BY <1>2, <2>2 DEF Shuffled, Follows, Val, Dir
  <2>5. \A m \in K : Counted(g, m) <=> Counted(g2, m)
    BY <2>2 DEF Counted, sz, child
  <2>6. Turning(g0, S0, r0, t, K, D, g2, S, r)
    BY <1>2, <2>2, <2>3, <2>4, <2>5 DEF Turning
  <2> QED BY <2>2, <2>6 DEF ReachesFrom, Reaches
<1>7. CASE b # Null
  <2>1. b \in Nodes
    BY <1>3, <1>4, <1>7, <1>2, Sides, NodeTypes DEF Corner, Links
  <2> QED BY <1>0, <1>1, <1>3, <1>4, <1>5, <1>7, <2>1, PairTurns
<1> QED BY <1>6, <1>7

-----------------------------------------------------------------------------
(* rebalance_local and rebalance keep them too, and make the sizes right.  *)

\* A child is below its parent.
LEMMA KidBelow ==
    ASSUME NEW g, NEW K, NEW S, NEW r, Tree(g, K, S, r), NEW n \in K, NEW i \in {L, R}, child(g, n, i) # Null
    PROVE  child(g, n, i) \in S[n] /\ child(g, n, i) # n /\ n \notin S[child(g, n, i)]
<1>1. child(g, n, i) \in K /\ S[child(g, n, i)] = {k \in S[n] : On(i, k, n)}
  BY KidIs
<1>2. child(g, n, i) \in S[child(g, n, i)] /\ K \subseteq Nodes
  BY <1>1, InTree
<1> QED BY <1>1, <1>2, Orders

\* update makes the size of n right, and spoils none that does not have n below.
LEMMA UpdateCounts ==
    ASSUME NEW g \in Heaps, NEW K, NEW S, NEW r, Tree(g, K, S, r), NEW n \in K,
           NEW g2, Updated(g, g2, n)
    PROVE  /\ Tree(g2, K, S, r) /\ Counted(g2, n)
           /\ \A m \in K : (n \notin S[m] \/ Counted(g, n)) /\ Counted(g, m) => Counted(g2, m)
<1>1. K \subseteq Nodes /\ Null \notin K /\ \A m \in K : m \in S[m]
  BY InTree
<1>2. \A m \in Nodes \ {n} : g2.node[m] = g.node[m]
  BY DEF Updated
<1>3. \A m \in Nodes : Par(g2, m) = Par(g, m) /\ \A i \in {L, R} : child(g2, m, i) = child(g, m, i)
  BY DEF Updated, SameLinks
<1>4. Tree(g2, K, S, r)
  BY <1>1, <1>3, SameTree
<1>5. ASSUME NEW m \in K, NEW i \in {L, R}, child(g, m, i) # n
      PROVE  sz(g2, child(g2, m, i)) = sz(g, child(g, m, i))
  <2>1. child(g, m, i) \in Links
    BY <1>1, NodeTypes
  <2> QED BY <2>1, <1>1, <1>2, <1>3, <1>5 DEF sz, Links
<1>6. \A i \in {L, R} : child(g, n, i) # n
  BY <1>1, KidBelow
<1>7. Counted(g2, n)
  BY <1>5, <1>6 DEF Updated, Counted
<1>8. ASSUME NEW m \in K, n \notin S[m], Counted(g, m) PROVE Counted(g2, m)
  <2>1. \A i \in {L, R} : child(g, m, i) # n
    BY <1>1, <1>8, KidBelow
  <2>2. g2.node[m] = g.node[m]
    BY <1>1, <1>2, <1>8
  <2> QED BY <2>1, <2>2, <1>5, <1>8 DEF Counted
<1>9. ASSUME NEW m \in K, Counted(g, n), Counted(g, m) PROVE Counted(g2, m)
  <2>1. \A k \in Nodes : g2.node[k].sz = g.node[k].sz
    BY <1>2, <1>9 DEF Updated, Counted
  <2>2. \A k \in Links : sz(g2, k) = sz(g, k)
    BY <2>1 DEF sz, Links
  <2>3. \A i \in {L, R} : sz(g2, child(g2, m, i)) = sz(g, child(g, m, i))
    BY <1>1, <1>3, <2>2, NodeTypes
  <2> QED BY <1>1, <1>9, <2>1, <2>3 DEF Counted
<1> QED BY <1>4, <1>7, <1>8, <1>9

\* A node that is out of balance has a child on the higher side.
LEMMA HigherSide ==
    ASSUME NEW g \in Heaps, NEW n \in Nodes
    PROVE  /\ balance(g, n) <= -2 => child(g, n, L) # Null
           /\ balance(g, n) >= 2 => child(g, n, R) # Null
<1>1. L \in {L, R} /\ R \in {L, R}
  OBVIOUS
<1>2. child(g, n, L) \in Links /\ child(g, n, R) \in Links
  BY <1>1, NodeTypes
<1>3. height(g, child(g, n, L)) \in Nat /\ height(g, child(g, n, R)) \in Nat
  BY <1>2, NodeTypes
<1>4. height(g, Null) = 0
  BY DEF height
<1> QED BY <1>3, <1>4 DEF balance

\* The second rotation of rebalance_local.
LEMMA UprightTurns ==
    ASSUME NEW g0, NEW S0, NEW r0, NEW t \in Trees, NEW K, NEW D, NEW g, NEW n \in D, NEW i \in {L, R},
           Reaches(g0, S0, r0, t, K, D, g)
    PROVE  ReachesFrom(g0, S0, r0, t, K, D, g, Upright(g, t, n, i))
<1>1. CASE balance(g, n) \in {-2, 2}
  <2>1. Upright(g, t, n, i) = Rotate(g, t, n, Other(i)) /\ Other(i) \in {L, R}
    BY <1>1, Sides DEF Upright
  <2> QED BY <2>1, TurningRotates
<1>2. CASE ~(balance(g, n) \in {-2, 2})
  BY <1>2 DEF Upright, ReachesFrom
<1> QED BY <1>1, <1>2

\* One side of rebalance_local.
LEMMA LowerTurns ==
    ASSUME NEW g0, NEW S0, NEW r0, NEW t \in Trees, NEW K, NEW D, NEW g, NEW n \in D, NEW i \in {L, R},
           Reaches(g0, S0, r0, t, K, D, g), child(g, n, i) # Null
    PROVE  ReachesFrom(g0, S0, r0, t, K, D, g, Lower(g, t, n, i))
<1> DEFINE c == child(g, n, i)
           sign == IF i = L THEN -1 ELSE 1
           g1 == IF balance(g, c) = -sign THEN Rotate(g, t, c, i) ELSE g
<1>1. Lower(g, t, n, i) = Upright(g1, t, n, i)
  BY DEF Lower
<1>2. c \in D
  <2>1. PICK S, r : Turning(g0, S0, r0, t, K, D, g, S, r)
    BY DEF Reaches
  <2>2. n \in K /\ Tree(g, K, S, r) /\ S[n] \subseteq D
    BY <2>1 DEF Turning
  <2> QED BY <2>2, KidBelow
<1>3. ReachesFrom(g0, S0, r0, t, K, D, g, g1)
  <2> HIDE DEF c, sign
  <2>1. CASE balance(g, c) = -sign
    <3>1. g1 = Rotate(g, t, c, i)
      BY <2>1
    <3> QED BY <3>1, <1>2, TurningRotates
  <2>2. CASE ~(balance(g, c) = -sign)
    BY <2>2 DEF ReachesFrom
  <2> QED BY <2>1, <2>2
<1> HIDE DEF g1
<1>4. ReachesFrom(g0, S0, r0, t, K, D, g1, Upright(g1, t, n, i))
  BY <1>3, UprightTurns DEF ReachesFrom
<1> QED BY <1>1, <1>3, <1>4 DEF ReachesFrom

\* Both sides of rebalance_local.
LEMMA LowerSidesTurn ==
    ASSUME NEW g0, NEW S0, NEW r0, NEW t \in Trees, NEW K, NEW D, NEW g, NEW n \in D,
           Reaches(g0, S0, r0, t, K, D, g)
    PROVE  ReachesFrom(g0, S0, r0, t, K, D, g, LowerRight(LowerLeft(g, t, n), t, n))
<1>1. ASSUME NEW f, Reaches(g0, S0, r0, t, K, D, f)
      PROVE  /\ ReachesFrom(g0, S0, r0, t, K, D, f, LowerLeft(f, t, n))
             /\ ReachesFrom(g0, S0, r0, t, K, D, f, LowerRight(f, t, n))
  <2>1. PICK S, r : Turning(g0, S0, r0, t, K, D, f, S, r)
    BY <1>1 DEF Reaches
  <2>2. n \in Nodes /\ f \in Heaps
    BY <2>1, InTree DEF Turning
  <2>3. ReachesFrom(g0, S0, r0, t, K, D, f, f)
    BY <1>1 DEF ReachesFrom
  <2>4. L \in {L, R} /\ R \in {L, R}
    OBVIOUS
  <2>5. ReachesFrom(g0, S0, r0, t, K, D, f, LowerLeft(f, t, n))
    <3>1. CASE balance(f, n) <= -2
      <4>1. child(f, n, L) # Null
        BY <2>2, <3>1, HigherSide
      <4>2. ReachesFrom(g0, S0, r0, t, K, D, f, Lower(f, t, n, L))
        BY <4>1, <2>4, <1>1, LowerTurns
      <4> QED BY <3>1, <4>2 DEF LowerLeft
    <3>2. CASE ~(balance(f, n) <= -2)
      BY <2>3, <3>2 DEF LowerLeft
    <3> QED BY <3>1, <3>2
  <2>6. ReachesFrom(g0, S0, r0, t, K, D, f, LowerRight(f, t, n))
    <3>1. CASE balance(f, n) >= 2
      <4>1. child(f, n, R) # Null
        BY <2>2, <3>1, HigherSide
      <4>2. ReachesFrom(g0, S0, r0, t, K, D, f, Lower(f, t, n, R))
        BY <4>1, <2>4, <1>1, LowerTurns
      <4> QED BY <3>1, <4>2 DEF LowerRight
    <3>2. CASE ~(balance(f, n) >= 2)
      BY <2>3, <3>2 DEF LowerRight
    <3> QED BY <3>1, <3>2
  <2> QED BY <2>5, <2>6
<1>2. ReachesFrom(g0, S0, r0, t, K, D, g, LowerLeft(g, t, n))
  BY <1>1
<1>3. ReachesFrom(g0, S0, r0, t, K, D, LowerLeft(g, t, n), LowerRight(LowerLeft(g, t, n), t, n))
  BY <1>1, <1>2 DEF ReachesFrom
<1> QED BY <1>2, <1>3 DEF ReachesFrom

\* What rebalance_local does to the shape: only what is below n is moved.
Balances(g0, S0, r0, t, K, n, g, S, r) ==
    /\ g \in Heaps /\ Tree(g, K, S, r) /\ Shuffled(g0, g, t, K) /\ Follows(g0, r0, t, g, r)
    /\ \A m \in K \ S0[n] : /\ S[m] = S0[m]
                            /\ (n \notin S0[m] \/ Counted(g0, n)) /\ Counted(g0, m) => Counted(g, m)
    /\ \A m \in S0[n] : S[m] \subseteq S0[n] /\ Counted(g, m)

\* rebalance_local turns the subtree of n, and all of it is counted then.
LEMMA LocalBalances ==
    ASSUME NEW g \in Heaps, NEW K, NEW S, NEW r, Tree(g, K, S, r), NEW t \in Trees, NEW n \in K,
           \A m \in S[n] \ {n} : Counted(g, m)
    PROVE  /\ rebalance_local(g, t, n).fault = "none" => g.fault = "none"
           /\ \E S2, r2 : Balances(g, S, r, t, K, n, rebalance_local(g, t, n), S2, r2)
<1> DEFINE u == update(g, n)
           g2 == LowerRight(LowerLeft(u, t, n), t, n)
<1>0. g2 = rebalance_local(g, t, n)
  BY DEF rebalance_local
<1>1. n \in Nodes /\ K \subseteq Nodes /\ S[n] \subseteq K /\ n \in S[n]
  BY InTree
<1>2. Updated(g, u, n)
  BY <1>1, UpdateSets
<1> HIDE DEF u
<1>3. /\ Tree(u, K, S, r) /\ Counted(u, n)
      /\ \A m \in K : (n \notin S[m] \/ Counted(g, n)) /\ Counted(g, m) => Counted(u, m)
  BY <1>2, UpdateCounts
<1>4. u \in Heaps /\ Shuffled(g, u, t, K) /\ Follows(g, r, t, u, r) /\ u.fault = g.fault
  BY <1>1, <1>2 DEF Updated, SameButNodes, SameLinks, Shuffled, Follows
<1>5. \A m \in S[n] : S[m] \subseteq S[n] /\ Counted(u, m)
  <2>1. \A m \in S[n] \ {n} : n \notin S[m]
    BY Above
  <2> QED BY <2>1, <1>1, <1>3, InTree
<1>6. Turning(u, S, r, t, K, S[n], u, S, r)
  BY <1>1, <1>3, <1>4, <1>5 DEF Turning, Shuffled, Follows
<1>7. ReachesFrom(u, S, r, t, K, S[n], u, g2)
  BY <1>1, <1>6, LowerSidesTurn DEF Reaches
<1> HIDE DEF g2
<1>8. PICK S2, r2 : Turning(u, S, r, t, K, S[n], g2, S2, r2)
  BY <1>7 DEF ReachesFrom, Reaches
<1>9. Shuffled(g, g2, t, K) /\ Follows(g, r, t, g2, r2)
  BY <1>4, <1>8, ShuffledTwice, FollowsTwice DEF Turning
<1>10. Balances(g, S, r, t, K, n, g2, S2, r2)
  BY <1>3, <1>8, <1>9 DEF Turning, Balances
<1>11. g2.fault = "none" => g.fault = "none"
  BY <1>4, <1>7 DEF ReachesFrom
<1> QED BY <1>0, <1>10, <1>11

\* The nodes that rebalance has not yet come to are all that may be miscounted.
Climbing(g0, r0, t, K, w, S, r) ==
    /\ w.g \in Heaps /\ Tree(w.g, K, S, r) /\ Shuffled(g0, w.g, t, K) /\ Follows(g0, r0, t, w.g, r)
    /\ w.n \in K \cup {Null}
    /\ \A m \in K : w.n = Null \/ w.n \notin S[m] => Counted(w.g, m)
Climbs(g0, r0, t, K, w) == \E S, r : Climbing(g0, r0, t, K, w, S, r)

\* One step of rebalance up the tree.
LEMMA ClimbStep ==
    ASSUME NEW g0, NEW r0, NEW t \in Trees, NEW K, NEW w, Climbs(g0, r0, t, K, w)
    PROVE  /\ Climbs(g0, r0, t, K, Climb(w, t))
           /\ Climb(w, t).g.fault = "none" => w.g.fault = "none"
<1>1. PICK S, r : Climbing(g0, r0, t, K, w, S, r)
  BY DEF Climbs
<1>2. CASE w.n = Null
  BY <1>2 DEF Climb
<1>3. CASE w.n # Null
  <2> DEFINE g == w.g
             n == w.n
             g2 == rebalance_local(g, t, n)
             n2 == Par(g2, n)
             w2 == [g |-> g2, n |-> n2]
  <2>1. Climb(w, t) = w2
    BY <1>3 DEF Climb, Par
  <2>2. /\ g \in Heaps /\ Tree(g, K, S, r) /\ Shuffled(g0, g, t, K) /\ Follows(g0, r0, t, g, r) /\ n \in K
        /\ \A m \in K : n \notin S[m] => Counted(g, m)
    BY <1>1, <1>3 DEF Climbing
  <2> HIDE DEF g, n
  <2>3. \A m \in S[n] \ {n} : Counted(g, m)
    <3>1. \A m \in S[n] \ {n} : m \in K /\ n \notin S[m]
      BY <2>2, InTree, Above
    <3> QED BY <3>1, <2>2
  <2>4. g2.fault = "none" => g.fault = "none"
    BY <2>2, <2>3, LocalBalances
  <2>5. PICK S2, r2 : Balances(g, S, r, t, K, n, g2, S2, r2)
    BY <2>2, <2>3, LocalBalances
  <2> HIDE DEF g2
  <2>6. /\ g2 \in Heaps /\ Tree(g2, K, S2, r2) /\ Shuffled(g, g2, t, K) /\ Follows(g, r, t, g2, r2)
        /\ \A m \in K \ S[n] : S2[m] = S[m] /\ (n \notin S[m] /\ Counted(g, m) => Counted(g2, m))
        /\ \A m \in S[n] : S2[m] \subseteq S[n] /\ Counted(g2, m)
    <3>1. ASSUME NEW m \in K \ S[n] PROVE S2[m] = S[m] /\ (n \notin S[m] /\ Counted(g, m) => Counted(g2, m))
      BY <2>5 DEF Balances
    <3> QED BY <2>5, <3>1 DEF Balances
  <2>7. Shuffled(g0, g2, t, K) /\ Follows(g0, r0, t, g2, r2)
    BY <2>2, <2>6, ShuffledTwice, FollowsTwice
  <2>8. n2 \in K \cup {Null}
    BY <2>2, <2>6, InTree DEF Tree, Parents
  <2>9. ASSUME NEW m \in K, n2 = Null \/ n2 \notin S2[m] PROVE Counted(g2, m)
    <3>1. CASE m \in S[n]
      BY <3>1, <2>6
    <3>2. CASE m \notin S[n] /\ n \notin S[m]
      BY <3>2, <2>2, <2>6
    <3>3. CASE m \notin S[n] /\ n \in S[m]
      <4>1. n \in S2[m] /\ n # m
        BY <3>3, <2>2, <2>6, InTree
      <4>2. n2 \in S2[m] /\ n2 # Null
        BY <4>1, <2>6, InTree
      <4> QED BY <4>2, <2>9
    <3> QED BY <3>1, <3>2, <3>3
  <2> HIDE DEF n2
  <2>10. Climbing(g0, r0, t, K, w2, S2, r2)
    BY <2>6, <2>7, <2>8, <2>9 DEF Climbing
  <2> QED BY <2>1, <2>4, <2>10 DEF Climbs, g
<1> QED BY <1>2, <1>3

ClimbsFrom(g, t, n, N, at) ==
    at = [i \in 0 .. N |-> IF i = 0 THEN [g |-> g, n |-> n] ELSE Climb(at[i - 1], t)]

\* There is such a function, for any number of steps.
LEMMA ClimbsExist ==
    ASSUME NEW g, NEW t, NEW n, NEW N \in Nat
    PROVE  \E at : ClimbsFrom(g, t, n, N, at)
<1> DEFINE T == {k \in Nat : ~\E f : ClimbsFrom(g, t, n, k, f)}
<1>1. ASSUME T # {} PROVE FALSE
  <2>1. PICK k \in T : \A j \in T : k <= j
    BY <1>1, Least
  <2>2. k # 0
    <3>1. ClimbsFrom(g, t, n, 0, [j \in 0 .. 0 |-> [g |-> g, n |-> n]])
      BY DEF ClimbsFrom
    <3> QED BY <2>1, <3>1
  <2>3. k - 1 \in Nat /\ k - 1 \notin T /\ k \in Nat
    BY <2>1, <2>2
  <2>4. PICK f : ClimbsFrom(g, t, n, k - 1, f)
    BY <2>3
  <2> DEFINE f2 == [j \in 0 .. k |-> IF j = k THEN Climb(f[k - 1], t) ELSE f[j]]
  <2>5. \A j \in 0 .. k - 1 : f[j] = IF j = 0 THEN [g |-> g, n |-> n] ELSE Climb(f[j - 1], t)
    BY <2>4 DEF ClimbsFrom
  <2>6. \A j \in 0 .. k - 1 : f2[j] = f[j]
    BY <2>3
  <2>7. ASSUME NEW j \in 0 .. k PROVE f2[j] = IF j = 0 THEN [g |-> g, n |-> n] ELSE Climb(f2[j - 1], t)
    <3>1. CASE j = k
      <4>1. f2[k - 1] = f[k - 1] /\ f2[k] = Climb(f[k - 1], t)
        BY <2>2, <2>3, <2>6
      <4> QED BY <3>1, <4>1, <2>2
    <3>2. CASE j # k
      <4>1. j \in 0 .. k - 1 /\ (j # 0 => j - 1 \in 0 .. k - 1)
        BY <3>2, <2>3
      <4> QED BY <4>1, <2>5, <2>6
    <3> QED BY <3>1, <3>2
  <2>8. ClimbsFrom(g, t, n, k, f2)
    <3>1. f2 = [j \in 0 .. k |-> f2[j]]
      OBVIOUS
    <3> HIDE DEF f2
    <3> QED BY <2>7, <3>1 DEF ClimbsFrom
  <2> QED BY <2>1, <2>8
<1> QED BY <1>1

\* The bounds are numbers.
LEMMA RoundsExist == Size \in Nat /\ Rounds \in Nat
BY FiniteMemory, FS_CardinalityType DEF Size, Rounds

\* The calls that rebalance make of g the heap g2, where all of K are counted.
Settled(g0, r0, t, K, g, S, r) ==
    /\ g \in Heaps /\ Tree(g, K, S, r) /\ Shuffled(g0, g, t, K) /\ Follows(g0, r0, t, g, r)
    /\ \A m \in K : Counted(g, m)

SettlesTo(g, r, t, K, g2) ==
    /\ g2 \in Heaps
    /\ g2.fault = "none" => /\ g.fault = "none"
                           /\ \E S, q : Settled(g, r, t, K, g2, S, q)

\* rebalance from n makes all sizes right, or has a fault.
LEMMA RebalanceSettlesTo ==
    ASSUME NEW g \in Heaps, NEW K, NEW S, NEW r, Tree(g, K, S, r), NEW t \in Trees, NEW n \in K,
           \A m \in K : n \notin S[m] => Counted(g, m)
    PROVE  SettlesTo(g, r, t, K, rebalance(g, t, n))
<1> DEFINE at == CHOOSE f : ClimbsFrom(g, t, n, Rounds, f)
           end == at[Rounds]
<1>1. n # Null
  BY InTree
<1>2. rebalance(g, t, n) = IF end.n = Null THEN end.g ELSE Fail(end.g, "endless")
  BY <1>1 DEF rebalance, ClimbsFrom
<1>3. ClimbsFrom(g, t, n, Rounds, at)
  BY RoundsExist, ClimbsExist
<1> HIDE DEF at
<1>4. \A i \in 0 .. Rounds : at[i] = IF i = 0 THEN [g |-> g, n |-> n] ELSE Climb(at[i - 1], t)
  BY <1>3 DEF ClimbsFrom
<1> DEFINE Good(i) == Climbs(g, r, t, K, at[i]) /\ (at[i].g.fault = "none" => g.fault = "none")
<1>5. Good(0)
  <2>1. at[0] = [g |-> g, n |-> n]
    BY <1>4, RoundsExist
  <2>2. Climbing(g, r, t, K, [g |-> g, n |-> n], S, r)
    BY <1>1 DEF Climbing, Shuffled, Follows
  <2> QED BY <2>1, <2>2 DEF Climbs
<1>6. ASSUME NEW i \in 0 .. Rounds, i # 0, Good(i - 1) PROVE Good(i)
  <2>1. at[i] = Climb(at[i - 1], t)
    BY <1>4, <1>6
  <2> QED BY <2>1, <1>6, ClimbStep
<1> DEFINE T == {i \in 0 .. Rounds : ~Good(i)}
<1>7. ASSUME T # {} PROVE FALSE
  <2> HIDE DEF Good
  <2>0. T \in SUBSET Nat
    BY RoundsExist
  <2>1. PICK i \in T : \A j \in T : i <= j
    BY <1>7, <2>0, Least
  <2>2. i # 0
    BY <2>1, <1>5
  <2>3. i - 1 \in 0 .. Rounds /\ i - 1 \notin T
    BY <2>1, <2>2, RoundsExist
  <2> QED BY <2>1, <2>2, <2>3, <1>6
<1>8. Good(Rounds)
  <2> HIDE DEF Good
  <2> QED BY <1>7, RoundsExist
<1> HIDE DEF end
<1>9. PICK S2, r2 : Climbing(g, r, t, K, end, S2, r2)
  BY <1>8 DEF Climbs, end
<1>10. end.g \in Heaps
  BY <1>9 DEF Climbing
<1>11. CASE end.n # Null
  <2>1. rebalance(g, t, n) = Fail(end.g, "endless")
    BY <1>2, <1>11
  <2> QED BY <1>10, <2>1, FailSets DEF SettlesTo
<1>12. CASE end.n = Null
  <2>1. rebalance(g, t, n) = end.g
    BY <1>2, <1>12
  <2>2. Settled(g, r, t, K, end.g, S2, r2)
    BY <1>9, <1>12 DEF Climbing, Settled
  <2>3. end.g.fault = "none" => g.fault = "none"
    BY <1>8 DEF end
  <2> QED BY <1>10, <2>1, <2>2, <2>3 DEF SettlesTo
<1> QED BY <1>11, <1>12

\* The same, when it has none.
LEMMA RebalanceSettles ==
    ASSUME NEW g \in Heaps, NEW K, NEW S, NEW r, Tree(g, K, S, r), NEW t \in Trees, NEW n \in K,
           \A m \in K : n \notin S[m] => Counted(g, m), rebalance(g, t, n).fault = "none"
    PROVE  /\ g.fault = "none"
           /\ \E S2, r2 : Settled(g, r, t, K, rebalance(g, t, n), S2, r2)
<1>1. SettlesTo(g, r, t, K, rebalance(g, t, n))
  BY RebalanceSettlesTo
<1> QED BY <1>1 DEF SettlesTo

-----------------------------------------------------------------------------
(* Descents: find_host_node, first_node and last_node.                     *)

StepFrom(g, way) ==
    [m \in Nodes \cup {Null} |->
        IF m = Null \/ way[m] = 0 \/ child(g, m, way[m]) = Null THEN m ELSE child(g, m, way[m])]
Walks(next, n, N, at) == at = [i \in 0 .. N |-> IF i = 0 THEN n ELSE next[at[i - 1]]]

\* There is such a function, for any number of steps.
LEMMA WalksExist ==
    ASSUME NEW next, NEW n, NEW N \in Nat
    PROVE  \E at : Walks(next, n, N, at)
<1> DEFINE T == {k \in Nat : ~\E f : Walks(next, n, k, f)}
<1>1. ASSUME T # {} PROVE FALSE
  <2>1. PICK k \in T : \A j \in T : k <= j
    BY <1>1, Least
  <2>2. k # 0
    <3>1. Walks(next, n, 0, [j \in 0 .. 0 |-> n])
      BY DEF Walks
    <3> QED BY <2>1, <3>1
  <2>3. k - 1 \in Nat /\ k - 1 \notin T /\ k \in Nat
    BY <2>1, <2>2
  <2>4. PICK f : Walks(next, n, k - 1, f)
    BY <2>3
  <2> DEFINE f2 == [j \in 0 .. k |-> IF j = k THEN next[f[k - 1]] ELSE f[j]]
  <2>5. \A j \in 0 .. k - 1 : f[j] = IF j = 0 THEN n ELSE next[f[j - 1]]
    BY <2>4 DEF Walks
  <2>6. \A j \in 0 .. k - 1 : f2[j] = f[j]
    BY <2>3
  <2>7. ASSUME NEW j \in 0 .. k PROVE f2[j] = IF j = 0 THEN n ELSE next[f2[j - 1]]
    <3>1. CASE j = k
      <4>1. f2[k - 1] = f[k - 1] /\ f2[k] = next[f[k - 1]]
        BY <2>2, <2>3, <2>6
      <4> QED BY <3>1, <4>1, <2>2
    <3>2. CASE j # k
      <4>1. j \in 0 .. k - 1 /\ (j # 0 => j - 1 \in 0 .. k - 1)
        BY <3>2, <2>3
      <4> QED BY <4>1, <2>5, <2>6
    <3> QED BY <3>1, <3>2
  <2>8. Walks(next, n, k, f2)
    <3>1. f2 = [j \in 0 .. k |-> f2[j]]
      OBVIOUS
    <3> HIDE DEF f2
    <3> QED BY <2>7, <3>1 DEF Walks
  <2> QED BY <2>1, <2>8
<1> QED BY <1>1

\* Follow is the last of its steps.
LEMMA FollowWalks ==
    ASSUME NEW g, NEW n, NEW way
    PROVE  \E at : /\ Follow(g, n, way) = at[Size]
                   /\ \A i \in 0 .. Size : at[i] = IF i = 0 THEN n ELSE StepFrom(g, way)[at[i - 1]]
<1> DEFINE at == CHOOSE f : Walks(StepFrom(g, way), n, Size, f)
<1>1. Follow(g, n, way) = at[Size]
  BY DEF Follow, Walks, StepFrom
<1>2. Walks(StepFrom(g, way), n, Size, at)
  BY RoundsExist, WalksExist
<1> HIDE DEF at
<1>3. \A i \in 0 .. Size : at[i] = IF i = 0 THEN n ELSE StepFrom(g, way)[at[i - 1]]
  BY <1>2 DEF Walks
<1> QED BY <1>1, <1>3

\* A walk from no node stays there.
LEMMA FollowNull ==
    ASSUME NEW g, NEW way
    PROVE  Follow(g, Null, way) = Null
<1>1. PICK at : /\ Follow(g, Null, way) = at[Size]
                /\ \A i \in 0 .. Size : at[i] = IF i = 0 THEN Null ELSE StepFrom(g, way)[at[i - 1]]
  BY FollowWalks
<1> DEFINE T == {i \in 0 .. Size : at[i] # Null}
<1>2. ASSUME T # {} PROVE FALSE
  <2>0. T \in SUBSET Nat
    BY RoundsExist
  <2>1. PICK i \in T : \A j \in T : i <= j
    BY <1>2, <2>0, Least
  <2>2. i # 0
    BY <2>1, <1>1
  <2>3. i - 1 \in 0 .. Size /\ i - 1 \notin T
    BY <2>1, <2>2, RoundsExist
  <2>4. StepFrom(g, way)[Null] = Null
    BY DEF StepFrom
  <2> QED BY <2>1, <2>2, <2>3, <2>4, <1>1
<1> QED BY <1>1, <1>2, RoundsExist

\* The walk along way can go no further than n.
Ends(g, n, way) == way[n] = 0 \/ child(g, n, way[n]) = Null

\* A set of keys without one of them is smaller.
LEMMA Smaller ==
    ASSUME NEW A \in SUBSET Nodes, NEW B \in SUBSET A, NEW x \in A, x \notin B
    PROVE  Cardinality(A) \in Nat /\ Cardinality(B) \in Nat /\ Cardinality(B) < Cardinality(A)
<1>1. IsFiniteSet(A) /\ IsFiniteSet(B)
  BY FiniteMemory, FS_Subset
<1>2. IsFiniteSet(A \ {x}) /\ Cardinality(A \ {x}) = Cardinality(A) - 1
  BY <1>1, FS_RemoveElement
<1>3. Cardinality(B) <= Cardinality(A \ {x})
  BY <1>2, FS_Subset
<1>4. Cardinality(A) \in Nat /\ Cardinality(B) \in Nat
  BY <1>1, FS_CardinalityType
<1> QED BY <1>2, <1>3, <1>4

\* A walk that starts in G, and leaves it nowhere, ends in G.
LEMMA Descends ==
    ASSUME NEW g, NEW K, NEW S, NEW r, Tree(g, K, S, r), NEW way \in [Nodes -> {0, L, R}],
           NEW G \in SUBSET K, NEW n \in G,
           \A d \in G : way[d] # 0 /\ child(g, d, way[d]) # Null => child(g, d, way[d]) \in G
    PROVE  Follow(g, n, way) \in G /\ Ends(g, Follow(g, n, way), way)
<1>1. PICK at : /\ Follow(g, n, way) = at[Size]
                /\ \A i \in 0 .. Size : at[i] = IF i = 0 THEN n ELSE StepFrom(g, way)[at[i - 1]]
  BY FollowWalks
<1>2. K \subseteq Nodes /\ Null \notin K /\ \A d \in K : d \in S[d] /\ S[d] \subseteq K
  BY InTree
<1>3. \A d \in K : Cardinality(S[d]) \in Nat /\ Cardinality(S[d]) <= Size /\ Cardinality(S[d]) # 0
  <2>1. \A d \in K : IsFiniteSet(S[d]) /\ Cardinality(S[d]) <= Cardinality(Nodes)
    BY <1>2, FiniteMemory, FS_Subset
  <2> QED BY <2>1, <1>2, FS_CardinalityType, FS_EmptySet DEF Size
<1> DEFINE Good(i) == at[i] \in G /\ (Ends(g, at[i], way) \/ Cardinality(S[at[i]]) + i <= Size)
<1>4. Good(0)
  BY <1>1, <1>3, RoundsExist
<1>5. ASSUME NEW i \in 0 .. Size, i # 0, Good(i - 1) PROVE Good(i)
  <2> DEFINE d == at[i - 1]
             c == child(g, d, way[d])
  <2>1. at[i] = StepFrom(g, way)[d]
    BY <1>1, <1>5
  <2>2. d \in G /\ d \in Nodes /\ d \in K /\ d # Null
    BY <1>2, <1>5
  <2> HIDE DEF d
  <2>3. CASE Ends(g, d, way)
    <3>1. at[i] = d
      BY <2>1, <2>2, <2>3 DEF StepFrom, Ends
    <3> QED BY <3>1, <2>2, <2>3
  <2>4. CASE ~Ends(g, d, way)
    <3>1. c # Null /\ way[d] # 0
      BY <2>4 DEF Ends
    <3>2. at[i] = c /\ c \in G
      BY <3>1, <2>1, <2>2 DEF StepFrom
    <3>3. way[d] \in {L, R}
      BY <3>1, <2>2
    <3>4. c \in S[d] /\ c # d /\ d \notin S[c] /\ c \in K
      BY <3>1, <3>2, <3>3, <2>2, KidBelow
    <3>5. S[c] \subseteq S[d] /\ d \in S[d] /\ S[d] \subseteq Nodes
      BY <3>4, <2>2, <1>2, InTree
    <3>6. Cardinality(S[c]) < Cardinality(S[d])
      BY <3>4, <3>5, Smaller
    <3>7. Cardinality(S[d]) + (i - 1) <= Size
      BY <1>5, <2>4 DEF d
    <3> HIDE DEF c
    <3>8. Cardinality(S[c]) + i <= Size
      BY <3>4, <3>6, <3>7, <2>2, <1>3, RoundsExist
    <3> QED BY <3>2, <3>8
  <2> QED BY <2>3, <2>4
<1> DEFINE T == {i \in 0 .. Size : ~Good(i)}
<1>6. ASSUME T # {} PROVE FALSE
  <2> HIDE DEF Good
  <2>0. T \in SUBSET Nat
    BY RoundsExist
  <2>1. PICK i \in T : \A j \in T : i <= j
    BY <1>6, <2>0, Least
  <2>2. i # 0
    BY <2>1, <1>4
  <2>3. i - 1 \in 0 .. Size /\ i - 1 \notin T
    BY <2>1, <2>2, RoundsExist
  <2> QED BY <2>1, <2>2, <2>3, <1>5
<1>7. Good(Size)
  <2> HIDE DEF Good
  <2> QED BY <1>6, RoundsExist
<1>8. Ends(g, at[Size], way)
  <2>1. at[Size] \in K
    BY <1>7
  <2> QED BY <2>1, <1>3, <1>7, RoundsExist
<1> QED BY <1>1, <1>7, <1>8

Way(k) == [m \in Nodes |-> IF k = m THEN 0 ELSE IF k < m THEN L ELSE R]

\* The sides that the descent for k takes.
LEMMA Ways ==
    ASSUME NEW k \in Nodes
    PROVE  /\ Way(k) \in [Nodes -> {0, L, R}]
           /\ \A m \in Nodes : /\ Way(k)[m] = 0 <=> k = m
                               /\ k # m => Way(k)[m] \in {L, R} /\ On(Way(k)[m], k, m)
<1>1. \A m \in Nodes : m \in Nat
  BY KeysArePositive
<1> QED BY <1>1 DEF Way, On, L, R

\* A key that the tree holds is found.
LEMMA HostOfHeld ==
    ASSUME NEW g, NEW K, NEW S, NEW r, Tree(g, K, S, r), NEW k \in K
    PROVE  find_host_node(g, r, k) = k
<1> DEFINE G == {d \in K : k \in S[d]}
           x == Follow(g, r, Way(k))
<1>0. find_host_node(g, r, k) = x
  BY DEF find_host_node, Way
<1>1. K \subseteq Nodes /\ r \in K /\ S[r] = K
  BY InTree
<1>2. r \in G /\ G \subseteq K
  BY <1>1
<1>3. ASSUME NEW d \in G, Way(k)[d] # 0, child(g, d, Way(k)[d]) # Null
      PROVE  child(g, d, Way(k)[d]) \in G
  <2>1. Way(k)[d] \in {L, R} /\ On(Way(k)[d], k, d)
    BY <1>1, <1>3, Ways
  <2> QED BY <2>1, <1>3, KidIs
<1>4. Way(k) \in [Nodes -> {0, L, R}]
  BY <1>1, Ways
<1> HIDE DEF G
<1>5. x \in G /\ Ends(g, x, Way(k))
  BY <1>2, <1>3, <1>4, Descends
<1>6. x \in K /\ k \in S[x]
  BY <1>5 DEF G
<1> HIDE DEF x
<1>7. x = k
  <2>1. SUFFICES ASSUME x # k PROVE FALSE
    OBVIOUS
  <2>2. Way(k)[x] \in {L, R} /\ On(Way(k)[x], k, x) /\ Way(k)[x] # 0
    BY <2>1, <1>1, <1>6, Ways
  <2>3. child(g, x, Way(k)[x]) = Null
    BY <1>5, <2>2 DEF Ends
  <2> QED BY <2>2, <2>3, <1>6, NoKid
<1> QED BY <1>0, <1>7

\* The subtrees that do not hold each other's root have nothing in common.
LEMMA Laminar ==
    ASSUME NEW g, NEW K, NEW S, NEW r, Tree(g, K, S, r), NEW x \in K, NEW m \in K,
           x \notin S[m], m \notin S[x]
    PROVE  S[x] \cap S[m] = {}
<1> DEFINE G == {d \in K : x \in S[d] /\ (m \in S[d] \/ S[d] \cap S[m] = {})}
           z == Follow(g, r, Way(x))
<1>1. K \subseteq Nodes /\ r \in K /\ S[r] = K
  BY InTree
<1>2. r \in G /\ G \subseteq K
  BY <1>1
<1>3. ASSUME NEW d \in G, Way(x)[d] # 0, child(g, d, Way(x)[d]) # Null
      PROVE  child(g, d, Way(x)[d]) \in G
  <2> DEFINE j == Way(x)[d]
             c == child(g, d, j)
  <2>1. j \in {L, R} /\ On(j, x, d)
    BY <1>1, <1>3, Ways
  <2>2. c \in K /\ S[c] = {k \in S[d] : On(j, k, d)} /\ d \in K
    BY <2>1, <1>3, KidIs
  <2>3. x \in S[c] /\ S[c] \subseteq S[d]
    BY <1>3, <2>1, <2>2
  <2>4. CASE S[d] \cap S[m] = {}
    BY <2>2, <2>3, <2>4
  <2>5. CASE m \in S[d]
    <3>1. CASE On(j, m, d)
      BY <3>1, <2>2, <2>3, <2>5
    <3>2. CASE m = d
      BY <3>2, <1>3
    <3>3. CASE On(Other(j), m, d)
      <4>1. Other(j) \in {L, R}
        BY <2>1, Sides
      <4>2. child(g, d, Other(j)) # Null
        BY <4>1, <3>3, <2>2, <2>5, NoKid
      <4>3. m \in S[child(g, d, Other(j))] /\ child(g, d, Other(j)) \in K
            /\ S[child(g, d, Other(j))] = {k \in S[d] : On(Other(j), k, d)}
        BY <4>1, <4>2, <3>3, <2>2, <2>5, KidIs
      <4>4. \A k \in S[m] : On(Other(j), k, d) /\ k \in Nodes
        BY <4>3, <1>1, InTree
      <4>5. \A k \in S[c] : On(j, k, d)
        BY <2>2
      <4>6. d \in Nodes
        BY <2>2, <1>1
      <4>7. S[c] \cap S[m] = {}
        BY <4>4, <4>5, <4>6, <2>1, Orders
      <4> QED BY <4>7, <2>2, <2>3
    <3> QED BY <3>1, <3>2, <3>3, <2>1, <2>2, <1>1, Orders
  <2> QED BY <2>4, <2>5, <1>3
<1>4. Way(x) \in [Nodes -> {0, L, R}]
  BY <1>1, Ways
<1> HIDE DEF G
<1>5. z \in G
  BY <1>2, <1>3, <1>4, Descends
<1>6. z = x
  <2>1. find_host_node(g, r, x) = z
    BY DEF find_host_node, Way
  <2> QED BY <2>1, HostOfHeld
<1> QED BY <1>5, <1>6 DEF G

\* k, which is not in the tree, can hang from side i of x: every node that is
\* not below x has k and all that is below x on the same side.
Gap(g, K, S, x, i, k) ==
    /\ x \in K /\ i \in {L, R} /\ On(i, k, x) /\ child(g, x, i) = Null
    /\ \A m \in K \ S[x] : \A z \in S[x] : \A j \in {L, R} : On(j, m, z) => On(j, m, k)

\* The descent for a key that is not there ends where it would hang.
LEMMA HostOfAbsent ==
    ASSUME NEW g, NEW K, NEW S, NEW r, Tree(g, K, S, r), K # {}, NEW k \in Nodes, k \notin K
    PROVE  Gap(g, K, S, find_host_node(g, r, k), IF k < find_host_node(g, r, k) THEN L ELSE R, k)
<1> DEFINE G == {d \in K : \A m \in K \ S[d] : \A z \in S[d] : \A j \in {L, R} : On(j, m, z) => On(j, m, k)}
           x == Follow(g, r, Way(k))
<1>0. find_host_node(g, r, k) = x
  BY DEF find_host_node, Way
<1>1. K \subseteq Nodes /\ r \in K /\ S[r] = K
  BY InTree
<1>2. r \in G /\ G \subseteq K
  BY <1>1
<1>3. ASSUME NEW d \in G, Way(k)[d] # 0, child(g, d, Way(k)[d]) # Null
      PROVE  child(g, d, Way(k)[d]) \in G
  <2> DEFINE i == Way(k)[d]
             c == child(g, d, i)
  <2>1. i \in {L, R} /\ On(i, k, d) /\ d \in K /\ d \in Nodes /\ d \in S[d]
    BY <1>1, <1>3, Ways, InTree
  <2>2. c \in K /\ S[c] = {z \in S[d] : On(i, z, d)}
    BY <2>1, <1>3, KidIs
  <2>3. S[c] \subseteq Nodes
    BY <2>2, <1>1, InTree
  <2> HIDE DEF c, i
  <2>4. ASSUME NEW m \in K \ S[c], NEW z \in S[c], NEW j \in {L, R}, On(j, m, z) PROVE On(j, m, k)
    <3>1. m \in Nodes /\ z \in Nodes /\ On(i, z, d) /\ z \in S[d] /\ Other(i) \in {L, R}
      BY <2>1, <2>2, <2>3, <2>4, <1>1, Sides
    <3>2. CASE m \notin S[d]
      <4>1. \A m1 \in K \ S[d] : \A z1 \in S[d] : \A j1 \in {L, R} : On(j1, m1, z1) => On(j1, m1, k)
        BY <1>3
      <4> QED BY <4>1, <3>1, <3>2, <2>4
    <3>3. CASE m \in S[d]
      <4>1. m = d \/ On(Other(i), m, d)
        BY <3>1, <3>3, <2>1, <2>2, <2>4, Orders
      <4>2. On(Other(i), d, z) /\ On(Other(i), d, k)
        BY <3>1, <2>1, Orders
      <4>3. On(Other(i), m, z) /\ On(Other(i), m, k)
        BY <4>1, <4>2, <3>1, <2>1, Orders
      <4>4. j = i \/ j = Other(i)
        BY <2>1 DEF Other, L, R
      <4> QED BY <4>3, <4>4, <3>1, <2>1, <2>4, Orders
    <3> QED BY <3>2, <3>3
  <2> QED BY <2>2, <2>4 DEF c, i
<1>4. Way(k) \in [Nodes -> {0, L, R}]
  BY Ways
<1> HIDE DEF G
<1>5. x \in G /\ Ends(g, x, Way(k))
  BY <1>2, <1>3, <1>4, Descends
<1>6. x \in K /\ \A m \in K \ S[x] : \A z \in S[x] : \A j \in {L, R} : On(j, m, z) => On(j, m, k)
  BY <1>5 DEF G
<1> HIDE DEF x
<1>7. Way(k)[x] = IF k < x THEN L ELSE R
  BY <1>1, <1>6 DEF Way
<1>8. Way(k)[x] \in {L, R} /\ On(Way(k)[x], k, x) /\ Way(k)[x] # 0
  BY <1>1, <1>6, Ways
<1>9. child(g, x, Way(k)[x]) = Null
  BY <1>5, <1>8 DEF Ends
<1>10. Gap(g, K, S, x, Way(k)[x], k)
  BY <1>6, <1>8, <1>9 DEF Gap
<1> QED BY <1>0, <1>7, <1>10

\* The host of a key is in the tree; so the key is found exactly when it is held.
LEMMA Hosts ==
    ASSUME NEW g, NEW K, NEW S, NEW r, Tree(g, K, S, r), NEW k \in Nodes
    PROVE  /\ K = {} => r = Null /\ find_host_node(g, r, k) = Null
           /\ K # {} => find_host_node(g, r, k) \in K
           /\ find_host_node(g, r, k) = k <=> k \in K
           /\ find_host_node(g, r, k) = Null <=> K = {}
<1>0. k # Null /\ Null \notin K
  BY KeysArePositive, InTree
<1>1. ASSUME K = {} PROVE r = Null /\ find_host_node(g, r, k) = Null
  <2>1. r = Null
    BY <1>1 DEF Tree, RootedAt
  <2> QED BY <2>1, FollowNull DEF find_host_node
<1>2. ASSUME K # {}, k \notin K PROVE find_host_node(g, r, k) \in K
  BY <1>2, HostOfAbsent DEF Gap
<1>3. k \in K => find_host_node(g, r, k) = k
  BY HostOfHeld
<1> QED BY <1>0, <1>1, <1>2, <1>3

\* first_node and last_node are the first and the last key.
LEMMA OutermostIs ==
    ASSUME NEW g, NEW K, NEW S, NEW r, Tree(g, K, S, r), K # {}, NEW i \in {L, R}
    PROVE  outermost(g, r, i) \in K /\ \A k \in K : ~On(i, k, outermost(g, r, i))
<1> DEFINE G == {d \in K : \A k \in K : On(i, k, d) => k \in S[d]}
           way == [m \in Nodes |-> i]
           x == Follow(g, r, way)
<1>1. K \subseteq Nodes /\ r \in K /\ S[r] = K
  BY InTree
<1>2. r \in G /\ G \subseteq K
  BY <1>1
<1>3. \A d \in K : way[d] = i
  BY <1>1
<1>4. way \in [Nodes -> {0, L, R}]
  OBVIOUS
<1>40. i # 0
  BY DEF L, R
<1> HIDE DEF way
<1>5. ASSUME NEW d \in G, way[d] # 0, child(g, d, way[d]) # Null
      PROVE  child(g, d, way[d]) \in G
  <2> DEFINE c == child(g, d, i)
  <2>1. d \in K /\ c # Null /\ way[d] = i
    BY <1>3, <1>5
  <2>2. c \in K /\ S[c] = {z \in S[d] : On(i, z, d)} /\ c \in S[d] /\ c \in S[c]
    BY <2>1, KidIs, KidBelow, InTree
  <2> HIDE DEF c
  <2>3. ASSUME NEW k \in K, On(i, k, c) PROVE k \in S[c]
    <3>1. On(i, k, d)
      BY <2>1, <2>2, <2>3, <1>1, Orders
    <3> QED BY <3>1, <2>2, <1>5
  <2> QED BY <2>1, <2>2, <2>3 DEF c
<1> HIDE DEF G
<1>6. x \in G /\ Ends(g, x, way)
  BY <1>2, <1>4, <1>5, Descends
<1>7. x = outermost(g, r, i)
  BY DEF outermost, way
<1> HIDE DEF x
<1>8. x \in K /\ child(g, x, i) = Null /\ \A k \in K : On(i, k, x) => k \in S[x]
  BY <1>3, <1>40, <1>6 DEF Ends, G
<1> QED BY <1>7, <1>8, NoKid

\* What is below a node: itself and what is below its children.
LEMMA BelowIs ==
    ASSUME NEW g, NEW K, NEW S, NEW r, Tree(g, K, S, r), NEW n \in K
    PROVE  LET A == {k \in S[n] : On(L, k, n)}
               B == {k \in S[n] : On(R, k, n)}
           IN  S[n] = A \cup B \cup {n} /\ A \cap B = {} /\ n \notin A \cup B
<1>1. S[n] \subseteq Nodes /\ n \in S[n]
  BY InTree
<1>2. \A k \in S[n] : k \in Nat /\ n \in Nat
  BY <1>1, KeysArePositive
<1>3. \A k \in S[n] : /\ On(L, k, n) <=> k < n
                      /\ On(R, k, n) <=> n < k
  BY DEF On, L, R
<1>4. \A k \in S[n] : On(L, k, n) \/ On(R, k, n) \/ k = n
  BY <1>2, <1>3
<1>5. \A k \in S[n] : ~(On(L, k, n) /\ On(R, k, n)) /\ ~On(L, n, n) /\ ~On(R, n, n)
  BY <1>1, <1>2, <1>3
<1> QED BY <1>1, <1>4, <1>5

\* The sizes count what is below.
LEMMA SizesCount ==
    ASSUME NEW g \in Heaps, NEW K, NEW S, NEW r, Tree(g, K, S, r), \A m \in K : Counted(g, m), NEW n \in K
    PROVE  g.node[n].sz = Cardinality(S[n])
<1>1. K \subseteq Nodes /\ Null \notin K /\ \A m \in K : S[m] \subseteq K /\ m \in S[m]
  BY InTree
<1>2. \A m \in K : IsFiniteSet(S[m]) /\ Cardinality(S[m]) \in Nat
  BY <1>1, FiniteMemory, FS_Subset, FS_CardinalityType
<1> DEFINE Bad == {m \in K : g.node[m].sz # Cardinality(S[m])}
           T == {Cardinality(S[m]) : m \in Bad}
<1>3. ASSUME Bad # {} PROVE FALSE
  <2>1. T \in SUBSET Nat /\ T # {}
    BY <1>2, <1>3
  <2>2. PICK x \in T : \A y \in T : x <= y
    BY <2>1, Least
  <2>3. PICK m \in Bad : x = Cardinality(S[m])
    BY <2>2
  <2>4. m \in K /\ \A z \in Bad : Cardinality(S[m]) <= Cardinality(S[z])
    BY <2>2, <2>3
  <2>14. \A z \in K \ Bad : g.node[z].sz = Cardinality(S[z])
    OBVIOUS
  <2> HIDE DEF Bad, T
  <2>5. ASSUME NEW i \in {L, R}
        PROVE  /\ IsFiniteSet({k \in S[m] : On(i, k, m)})
               /\ sz(g, child(g, m, i)) = Cardinality({k \in S[m] : On(i, k, m)})
    <3>0. IsFiniteSet({k \in S[m] : On(i, k, m)})
      BY <1>2, <2>4, FS_Subset
    <3>1. CASE child(g, m, i) = Null
      <4>1. {k \in S[m] : On(i, k, m)} = {}
        BY <3>1, <2>4, NoKid
      <4> QED BY <4>1, <3>0, <3>1, FS_EmptySet DEF sz
    <3>2. CASE child(g, m, i) # Null
      <4> DEFINE c == child(g, m, i)
      <4>1. c \in K /\ S[c] = {k \in S[m] : On(i, k, m)} /\ m \notin S[c] /\ c \in S[m]
        BY <3>2, <2>4, KidIs, KidBelow
      <4>2. S[c] \subseteq S[m] /\ m \in S[m] /\ S[m] \subseteq Nodes
        BY <4>1, <2>4, <1>1
      <4>3. Cardinality(S[c]) < Cardinality(S[m])
        BY <4>1, <4>2, Smaller
      <4>4. c \notin Bad
        BY <4>1, <4>3, <2>4, <1>2
      <4> QED BY <3>0, <4>1, <4>4, <2>14, <1>1 DEF sz
    <3> QED BY <3>1, <3>2
  <2> DEFINE A == {k \in S[m] : On(L, k, m)}
             B == {k \in S[m] : On(R, k, m)}
  <2>6. S[m] = (A \cup B) \cup {m} /\ A \cap B = {} /\ m \notin A \cup B
    BY <2>4, BelowIs
  <2>7. /\ IsFiniteSet(A) /\ sz(g, child(g, m, L)) = Cardinality(A)
        /\ IsFiniteSet(B) /\ sz(g, child(g, m, R)) = Cardinality(B)
    BY <2>5
  <2> HIDE DEF A, B
  <2>8. IsFiniteSet(A \cup B) /\ Cardinality(A \cup B) = Cardinality(A) + Cardinality(B) - Cardinality(A \cap B)
    BY <2>7, FS_Union
  <2>9. Cardinality(A \cap B) = 0
    BY <2>6, FS_EmptySet
  <2>10. Cardinality(S[m]) = Cardinality(A \cup B) + 1
    BY <2>6, <2>8, FS_AddElement
  <2>11. Cardinality(A) \in Nat /\ Cardinality(B) \in Nat
    BY <2>7, FS_CardinalityType
  <2>12. g.node[m].sz = Cardinality(A) + Cardinality(B) + 1
    BY <2>4, <2>7 DEF Counted
  <2>13. g.node[m].sz = Cardinality(S[m])
    BY <2>8, <2>9, <2>10, <2>11, <2>12
  <2> QED BY <2>4, <2>13 DEF Bad
<1> QED BY <1>3

-----------------------------------------------------------------------------
(* A new leaf, and the thread through it: insert_node.                     *)

\* k hangs from side i of x in g2, which has the links of g otherwise.
LeafLinks(g, g2, K, x, i, k) ==
    \A m \in K \cup {k} :
       /\ Par(g2, m) = IF m = k THEN x ELSE Par(g, m)
       /\ \A j \in {L, R} : child(g2, m, j) = IF m = k THEN Null ELSE IF m = x /\ j = i THEN k ELSE child(g, m, j)
Leafed(K, S, x, k) ==
    [m \in K \cup {k} |-> IF m = k THEN {k} ELSE IF x \in S[m] THEN S[m] \cup {k} ELSE S[m]]
IsLeafed(K, S, S2, x, k) ==
    /\ S2[k] = {k}
    /\ \A m \in K : S2[m] = IF x \in S[m] THEN S[m] \cup {k} ELSE S[m]

\* The subtrees with a new leaf.
LEMMA LeafedIs ==
    ASSUME NEW g, NEW K, NEW S, NEW r, Tree(g, K, S, r), NEW x \in K, NEW k \in Nodes, k \notin K
    PROVE  Spans(K \cup {k}, Leafed(K, S, x, k)) /\ IsLeafed(K, S, Leafed(K, S, x, k), x, k)
<1> DEFINE S2 == Leafed(K, S, x, k)
<1>1. K \subseteq Nodes /\ \A n \in K : n \in S[n] /\ S[n] \subseteq K
  BY InTree
<1>2. IsLeafed(K, S, S2, x, k)
  BY DEF Leafed, IsLeafed
<1>3. S2 \in [K \cup {k} -> SUBSET (K \cup {k})]
  BY <1>1 DEF Leafed
<1> HIDE DEF S2
<1>4. \A n \in K \cup {k} : n \in S2[n]
  BY <1>1, <1>2 DEF IsLeafed
<1>5. Spans(K \cup {k}, S2)
  BY <1>1, <1>3, <1>4 DEF Spans
<1> QED BY <1>2, <1>5 DEF S2

\* k has every node that is not below x on the side that x is on.
LEMMA GapSides ==
    ASSUME NEW g, NEW K, NEW S, NEW r, Tree(g, K, S, r), NEW k \in Nodes, k \notin K,
           NEW x, NEW i, Gap(g, K, S, x, i, k), NEW m \in K, m \notin S[x], NEW z \in S[x], NEW j \in {L, R}
    PROVE  On(j, m, z) <=> On(j, m, k)
<1>1. K \subseteq Nodes /\ S[x] \subseteq K /\ x \in S[x]
  BY InTree DEF Gap
<1>2. m \in Nodes /\ z \in Nodes /\ m # z /\ Other(j) \in {L, R}
  BY <1>1, Sides
<1>3. On(j, m, z) => On(j, m, k)
  BY <1>2 DEF Gap
<1>4. On(Other(j), m, z) => On(Other(j), m, k)
  BY <1>2 DEF Gap
<1> QED BY <1>2, <1>3, <1>4, Orders

\* They are nested.
LEMMA LeafNested ==
    ASSUME NEW g, NEW K, NEW S, NEW r, Tree(g, K, S, r), NEW x \in K, NEW k \in Nodes, k \notin K,
           NEW S2, IsLeafed(K, S, S2, x, k)
    PROVE  Nested(K \cup {k}, S2)
<1>1. \A n \in K : n \in S[n] /\ S[n] \subseteq K /\ \A m \in S[n] : S[m] \subseteq S[n]
  BY InTree
<1>2. ASSUME NEW n \in K \cup {k}, NEW m \in S2[n] PROVE S2[m] \subseteq S2[n]
  <2>1. CASE n = k
    BY <2>1, <1>2 DEF IsLeafed
  <2>2. CASE n \in K /\ m = k
    BY <2>2, <1>1, <1>2 DEF IsLeafed
  <2>3. CASE n \in K /\ m \in K
    <3>1. m \in S[n]
      BY <2>3, <1>1, <1>2 DEF IsLeafed
    <3>2. S[m] \subseteq S[n]
      BY <2>3, <3>1, <1>1
    <3>3. x \in S[m] => x \in S[n]
      BY <3>2
    <3> QED BY <2>3, <3>2, <3>3 DEF IsLeafed
  <2>4. n = k \/ (n \in K /\ (m = k \/ m \in K))
    BY <1>1, <1>2 DEF IsLeafed
  <2> QED BY <2>1, <2>2, <2>3, <2>4
<1> QED BY <1>2 DEF Nested

\* And the keys outside a subtree are on one side of it.
LEMMA LeafApart ==
    ASSUME NEW g, NEW K, NEW S, NEW r, Tree(g, K, S, r), NEW k \in Nodes, k \notin K,
           NEW x, NEW i, Gap(g, K, S, x, i, k), NEW S2, IsLeafed(K, S, S2, x, k)
    PROVE  Apart(K \cup {k}, S2)
<1>1. K \subseteq Nodes /\ \A n \in K : n \in S[n] /\ S[n] \subseteq K /\ \A m \in S[n] : S[m] \subseteq S[n]
  BY InTree
<1>2. x \in K /\ i \in {L, R} /\ On(i, k, x) /\ child(g, x, i) = Null /\ x \in S[x] /\ S[x] \subseteq K
  BY <1>1 DEF Gap
<1>3. \A n \in K : \A y, z \in S[n] : \A w \in K \ S[n] : \A j \in {L, R} : On(j, w, y) => On(j, w, z)
  BY DEF Tree, Apart
<1>4. ASSUME NEW m \in K \cup {k}, NEW y \in S2[m], NEW z \in S2[m], NEW w \in (K \cup {k}) \ S2[m], NEW j \in {L, R},
             On(j, w, y)
      PROVE  On(j, w, z)
  <2>1. CASE m = k
    BY <2>1, <1>4 DEF IsLeafed
  <2>2. CASE m \in K /\ w \in K
    <3>1. w \in K \ S[m] /\ (w \in S[x] => x \notin S[m])
      BY <2>2, <1>1, <1>4 DEF IsLeafed
    <3>2. ASSUME NEW u \in S2[m], u \notin S[m] PROVE u = k /\ x \in S[m] /\ (On(j, w, x) <=> On(j, w, k))
      <4>1. u = k /\ x \in S[m]
        BY <2>2, <3>2 DEF IsLeafed
      <4>2. w \notin S[x]
        BY <3>1, <4>1
      <4> QED BY <4>1, <4>2, <2>2, <1>2, GapSides
    <3>3. PICK y1 \in S[m] : On(j, w, y1)
      BY <3>2, <1>4
    <3>4. \A z1 \in S[m] : On(j, w, z1)
      BY <3>1, <3>3, <2>2, <1>3
    <3> QED BY <3>2, <3>4
  <2>3. CASE m \in K /\ w = k
    <3>1. x \notin S[m] /\ S2[m] = S[m] /\ S[m] \subseteq K
      BY <2>3, <1>1, <1>4 DEF IsLeafed
    <3>2. CASE m \in S[x]
      <4>1. S[m] \subseteq S[x]
        BY <3>2, <1>1, <1>2
      <4>2. ASSUME NEW u \in S[m] PROVE On(i, k, u) /\ u \in Nodes
        <5>1. u \in Nodes /\ x \in Nodes /\ u # x /\ u \in S[x]
          BY <4>1, <4>2, <3>1, <1>1, <1>2
        <5>2. ~On(i, u, x)
          BY <5>1, <1>2, NoKid
        <5>3. On(i, x, u)
          BY <5>1, <5>2, <1>2, Orders
        <5> QED BY <5>1, <5>3, <1>2, Orders
      <4>3. j = i \/ j = Other(i)
        BY <1>2 DEF Other, L, R
      <4> QED BY <4>2, <4>3, <3>1, <2>3, <1>2, <1>4, Orders
    <3>3. CASE m \notin S[x]
      <4>1. S[x] \cap S[m] = {}
        BY <3>1, <3>3, <2>3, <1>2, Laminar
      <4>2. ASSUME NEW u \in S[m], NEW jj \in {L, R} PROVE On(jj, x, u) <=> On(jj, k, u)
        <5>1. u \in Nodes /\ x \in Nodes /\ u \in K /\ u \notin S[x] /\ Other(jj) \in {L, R} /\ Other(Other(jj)) = jj
          BY <4>1, <4>2, <3>1, <1>1, <1>2, Sides
        <5>2. On(Other(jj), u, x) <=> On(Other(jj), u, k)
          BY <5>1, <1>2, GapSides
        <5> QED BY <5>1, <5>2, Orders
      <4>3. y \in S[m] /\ z \in S[m]
        BY <3>1, <1>4
      <4>4. On(j, x, y)
        BY <4>2, <4>3, <2>3, <1>4
      <4>5. On(j, x, z)
        BY <4>3, <4>4, <3>1, <2>3, <1>2, <1>3
      <4> QED BY <4>2, <4>3, <4>5, <2>3
    <3> QED BY <3>2, <3>3
  <2> QED BY <2>1, <2>2, <2>3
<1> QED BY <1>4 DEF Apart

\* Each child heads the keys on its side.
LEMMA LeafKids ==
    ASSUME NEW g, NEW K, NEW S, NEW r, Tree(g, K, S, r), NEW k \in Nodes, k \notin K,
           NEW x, NEW i, Gap(g, K, S, x, i, k), NEW g2, LeafLinks(g, g2, K, x, i, k),
           NEW S2, IsLeafed(K, S, S2, x, k)
    PROVE  Kids(g2, K \cup {k}, S2)
<1>1. K \subseteq Nodes /\ Null \notin K /\ \A n \in K : n \in S[n] /\ S[n] \subseteq K /\ \A m \in S[n] : S[m] \subseteq S[n]
  BY InTree
<1>2. /\ x \in K /\ i \in {L, R} /\ On(i, k, x) /\ child(g, x, i) = Null /\ x \in S[x] /\ S[x] \subseteq K
      /\ Other(i) \in {L, R} /\ k # x /\ k # Null
  BY <1>1, Sides, KeysArePositive DEF Gap
<1>3. \A m \in K \cup {k} :
         /\ Par(g2, m) = IF m = k THEN x ELSE Par(g, m)
         /\ \A j \in {L, R} : child(g2, m, j) = IF m = k THEN Null ELSE IF m = x /\ j = i THEN k ELSE child(g, m, j)
  BY DEF LeafLinks
<1>4. ASSUME NEW j \in {L, R} PROVE Kid(g2, K \cup {k}, S2, k, j)
  <2>1. child(g2, k, j) = Null
    BY <1>3
  <2>2. S2[k] = {k} /\ ~On(j, k, k)
    BY Orders DEF IsLeafed
  <2> QED BY <2>1, <2>2 DEF Kid
<1>5. Kid(g2, K \cup {k}, S2, x, i)
  <2>1. child(g2, x, i) = k /\ Par(g2, k) = x
    BY <1>2, <1>3
  <2>2. S2[x] = S[x] \cup {k} /\ S2[k] = {k}
    BY <1>2 DEF IsLeafed
  <2>3. S2[k] = {z \in S2[x] : On(i, z, x)}
    BY <2>2, <1>2, NoKid
  <2> QED BY <2>1, <2>3, <1>2 DEF Kid
\* k is on that side of a node above x that x is on.
<1>6. ASSUME NEW n \in K, n # x, x \in S[n], NEW j \in {L, R} PROVE On(j, x, n) <=> On(j, k, n)
  <2>1. n \notin S[x]
    BY <1>2, <1>6, Above
  <2>2. x \in Nodes /\ n \in Nodes /\ Other(j) \in {L, R} /\ Other(Other(j)) = j
    BY <1>1, <1>2, <1>6, Sides
  <2>3. On(Other(j), n, x) <=> On(Other(j), n, k)
    BY <2>1, <2>2, <1>2, GapSides
  <2> QED BY <2>2, <2>3, Orders
<1>7. ASSUME NEW n \in K, NEW j \in {L, R}, ~(n = x /\ j = i) PROVE Kid(g2, K \cup {k}, S2, n, j)
  <2> DEFINE c == child(g, n, j)
  <2>1. child(g2, n, j) = c /\ n # k
    BY <1>3, <1>7
  <2>2. S2[n] = IF x \in S[n] THEN S[n] \cup {k} ELSE S[n]
    BY DEF IsLeafed
  <2>3. n = x => ~On(j, k, n)
    <3>1. n = x => j = Other(i)
      BY <1>2, <1>7 DEF Other, L, R
    <3> QED BY <3>1, <1>1, <1>2, Orders
  <2>4. CASE c = Null
    <3>1. \A z \in S[n] : ~On(j, z, n)
      BY <2>4, NoKid
    <3>2. x \in S[n] => ~On(j, k, n)
      BY <2>3, <3>1, <1>6
    <3>3. \A z \in S2[n] : ~On(j, z, n)
      BY <2>2, <3>1, <3>2
    <3> QED BY <2>1, <2>4, <3>3 DEF Kid
  <2>5. CASE c # Null
    <3>1. c \in K /\ Par(g, c) = n /\ S[c] = {z \in S[n] : On(j, z, n)}
      BY <2>5, KidIs
    <3>2. Par(g2, c) = n
      BY <3>1, <1>3
    <3>3. S2[c] = IF x \in S[c] THEN S[c] \cup {k} ELSE S[c]
      BY <3>1 DEF IsLeafed
    <3>4. x \in S[n] => (x \in S[c] <=> On(j, k, n))
      <4>1. CASE n = x
        BY <4>1, <2>3, <3>1, <1>1, <1>2, Orders
      <4>2. CASE n # x
        BY <4>2, <3>1, <1>6
      <4> QED BY <4>1, <4>2
    <3>5. S2[c] = {z \in S2[n] : On(j, z, n)}
      <4>1. CASE x \in S[n]
        BY <4>1, <2>2, <3>1, <3>3, <3>4
      <4>2. CASE x \notin S[n]
        BY <4>2, <2>2, <3>1, <3>3
      <4> QED BY <4>1, <4>2
    <3> QED BY <2>1, <2>5, <3>1, <3>2, <3>5 DEF Kid
  <2> QED BY <2>4, <2>5
<1>8. ASSUME NEW n \in K \cup {k}, NEW j \in {L, R} PROVE Kid(g2, K \cup {k}, S2, n, j)
  BY <1>4, <1>5, <1>7
<1> QED BY <1>8 DEF Kids

\* A new leaf where there was a gap makes a tree with one key more.
LEMMA LeafTree ==
    ASSUME NEW g, NEW K, NEW S, NEW r, Tree(g, K, S, r), NEW k \in Nodes, k \notin K,
           NEW x, NEW i, Gap(g, K, S, x, i, k), NEW g2, LeafLinks(g, g2, K, x, i, k)
    PROVE  Tree(g2, K \cup {k}, Leafed(K, S, x, k), r)
<1> DEFINE S2 == Leafed(K, S, x, k)
           K2 == K \cup {k}
<1>1. K \subseteq Nodes /\ Null \notin K /\ \A n \in K : n \in S[n] /\ S[n] \subseteq K
  BY InTree
<1>2. x \in K /\ i \in {L, R} /\ k # x /\ child(g, x, i) = Null
  BY DEF Gap
<1>3. \A m \in K \cup {k} :
         /\ Par(g2, m) = IF m = k THEN x ELSE Par(g, m)
         /\ \A j \in {L, R} : child(g2, m, j) = IF m = k THEN Null ELSE IF m = x /\ j = i THEN k ELSE child(g, m, j)
  BY DEF LeafLinks
<1>4. Spans(K2, S2) /\ IsLeafed(K, S, S2, x, k)
  BY <1>2, LeafedIs
<1> HIDE DEF S2
<1>5. Nested(K2, S2) /\ Apart(K2, S2) /\ Kids(g2, K2, S2)
  BY <1>2, <1>4, LeafNested, LeafApart, LeafKids
<1>6. r \in K /\ S[r] = K /\ Par(g, r) = Null
  BY <1>2, InTree
<1>7. RootedAt(g2, K2, S2, r)
  <2>1. S2[r] = K2
    BY <1>2, <1>4, <1>6 DEF IsLeafed
  <2>2. Par(g2, r) = Null
    BY <1>3, <1>6
  <2> QED BY <2>1, <2>2, <1>6 DEF RootedAt
<1>8. Parents(g2, K2, r)
  <2>1. ASSUME NEW n \in K2 \ {r} PROVE Par(g2, n) \in K2 /\ \E j \in {L, R} : child(g2, Par(g2, n), j) = n
    <3>1. CASE n = k
      <4>1. Par(g2, n) = x /\ child(g2, x, i) = n
        BY <3>1, <1>2, <1>3
      <4> QED BY <4>1, <1>2
    <3>2. CASE n # k
      <4>1. PICK j \in {L, R} : Par(g, n) \in K /\ child(g, Par(g, n), j) = n
        BY <3>2, <2>1 DEF Tree, Parents
      <4>2. Par(g2, n) = Par(g, n) /\ ~(Par(g, n) = x /\ j = i) /\ Par(g, n) # k
        BY <4>1, <3>2, <2>1, <1>1, <1>2, <1>3
      <4>3. child(g2, Par(g, n), j) = n
        BY <4>1, <4>2, <1>3
      <4> QED BY <4>1, <4>2, <4>3
    <3> QED BY <3>1, <3>2
  <2> QED BY <2>1 DEF Parents
<1>9. Upward(g2, K2, S2)
  <2>1. ASSUME NEW n \in K2, NEW m \in S2[n] \ {n} PROVE Par(g2, m) \in S2[n]
    <3>1. n \in K
      BY <2>1, <1>4 DEF IsLeafed
    <3>2. CASE m = k
      <4>1. k \in S2[n] /\ k \notin S[n]
        BY <3>1, <3>2, <2>1, <1>1
      <4>2. S2[n] = IF x \in S[n] THEN S[n] \cup {k} ELSE S[n]
        BY <3>1, <1>4 DEF IsLeafed
      <4>3. x \in S2[n]
        BY <4>1, <4>2
      <4>4. Par(g2, k) = x
        BY <1>3
      <4> QED BY <3>2, <4>3, <4>4
    <3>3. CASE m # k
      <4>1. m \in S[n] /\ m \in K /\ S[n] \subseteq S2[n]
        BY <3>1, <3>3, <2>1, <1>1, <1>4 DEF IsLeafed
      <4>2. Par(g, m) \in S[n]
        BY <4>1, <3>1, <2>1, InTree
      <4> QED BY <4>1, <4>2, <3>3, <1>3
    <3> QED BY <3>2, <3>3
  <2> QED BY <2>1 DEF Upward
<1>10. Tree(g2, K2, S2, r)
  BY <1>4, <1>5, <1>7, <1>8, <1>9 DEF Tree
<1> QED BY <1>10 DEF S2

\* dir links n to the next key on each side.
Thread(g, K, n, i) ==
    IF Dir(g, n, i) = Null THEN \A k \in K : ~On(i, k, n)
    ELSE /\ Dir(g, n, i) \in K /\ On(i, Dir(g, n, i), n)
         /\ \A k \in K : On(i, k, n) => k = Dir(g, n, i) \/ On(i, k, Dir(g, n, i))
Threads(g, K) == \A n \in K, i \in {L, R} : Thread(g, K, n, i)

\* The threads when k is put between x and b, the next key on side i of x.
LeafDirs(g, g2, K, x, i, k, b) ==
    \A m \in K \cup {k}, j \in {L, R} :
       Dir(g2, m, j) = IF m = k THEN (IF j = i THEN b ELSE x)
                       ELSE IF m = x /\ j = i THEN k
                       ELSE IF m = b /\ j = Other(i) THEN k ELSE Dir(g, m, j)

\* And the thread goes through it, when its neighbours are linked to it.
LEMMA LeafThreads ==
    ASSUME NEW g, NEW g2, NEW K \in SUBSET Nodes, Threads(g, K), NEW k \in Nodes, k \notin K,
           NEW x \in K, NEW i \in {L, R}, On(i, k, x), \A m \in K : On(i, m, x) => On(i, m, k),
           NEW b, b = Dir(g, x, i), LeafDirs(g, g2, K, x, i, k, b)
    PROVE  Threads(g2, K \cup {k})
<1>1. Null \notin K /\ k # Null /\ k # x /\ Other(i) \in {L, R} /\ Other(i) # i /\ Other(Other(i)) = i
  BY KeysArePositive, Sides
<1>2. /\ b = Null => \A m \in K : ~On(i, m, x)
      /\ b # Null => b \in K /\ On(i, b, x) /\ \A m \in K : On(i, m, x) => m = b \/ On(i, m, b)
  BY DEF Threads, Thread
<1>3. \A m \in K \cup {k}, j \in {L, R} :
       Dir(g2, m, j) = IF m = k THEN (IF j = i THEN b ELSE x)
                       ELSE IF m = x /\ j = i THEN k
                       ELSE IF m = b /\ j = Other(i) THEN k ELSE Dir(g, m, j)
  BY DEF LeafDirs
<1>4. b # k /\ b # x
  BY <1>1, <1>2, Orders
<1>5. \A m \in K : On(i, m, x) <=> On(i, m, k)
  BY Orders
<1>6. Thread(g2, K \cup {k}, k, i)
  <2>1. Dir(g2, k, i) = b
    BY <1>3
  <2>2. \A m \in K \cup {k} : On(i, m, k) => m \in K /\ On(i, m, x)
    BY <1>5, Orders
  <2> QED BY <2>1, <2>2, <1>2, <1>5 DEF Thread
<1>7. Thread(g2, K \cup {k}, k, Other(i))
  <2>1. Dir(g2, k, Other(i)) = x
    BY <1>1, <1>3
  <2>2. On(Other(i), x, k)
    BY <1>1, Orders
  <2>3. \A m \in K \cup {k} : On(Other(i), m, k) => m = x \/ On(Other(i), m, x)
    BY <1>1, <1>5, Orders
  <2> QED BY <2>1, <2>2, <2>3, <1>1 DEF Thread
<1>8. Thread(g2, K \cup {k}, x, i)
  <2>1. Dir(g2, x, i) = k
    BY <1>1, <1>3
  <2> QED BY <2>1, <1>1, <1>5 DEF Thread
<1>9. b # Null => Thread(g2, K \cup {k}, b, Other(i))
  <2> SUFFICES ASSUME b # Null PROVE Thread(g2, K \cup {k}, b, Other(i))
    OBVIOUS
  <2>1. Dir(g2, b, Other(i)) = k
    BY <1>1, <1>2, <1>3, <1>4
  <2>2. On(Other(i), k, b)
    BY <1>1, <1>2, <1>5, Orders
  <2>3. \A m \in K : On(Other(i), m, b) => On(Other(i), m, k)
    <3> SUFFICES ASSUME NEW m \in K, On(Other(i), m, b) PROVE On(Other(i), m, k)
      OBVIOUS
    <3>1. ~(m = b \/ On(i, m, b))
      BY <1>1, <1>2, Orders
    <3>2. ~On(i, m, k)
      BY <3>1, <1>2, <1>5
    <3> QED BY <3>2, <1>1, Orders
  <2> QED BY <2>1, <2>2, <2>3, <1>1, <1>2 DEF Thread
<1>10. ASSUME NEW n \in K, NEW j \in {L, R}, ~(n = x /\ j = i), ~(n = b /\ j = Other(i))
       PROVE  Thread(g2, K \cup {k}, n, j)
  <2> DEFINE d == Dir(g, n, j)
  <2>1. Dir(g2, n, j) = d
    BY <1>3, <1>10
  <2>2. Thread(g, K, n, j)
    BY DEF Threads
  <2>3. n \in Nodes /\ x \in Nodes /\ (j = i \/ j = Other(i)) /\ Other(j) \in {L, R} /\ Other(Other(j)) = j
    BY <1>10, Sides DEF Other, L, R
  <2>4. CASE On(j, k, n)
    <3>1. n # x
      BY <2>3, <2>4, <1>1, <1>10, Orders
    <3>2. On(j, x, n)
      BY <2>3, <2>4, <3>1, <1>5, Orders
    <3>3. d # Null /\ d \in K /\ On(j, d, n) /\ \A m \in K : On(j, m, n) => m = d \/ On(j, m, d)
      BY <2>2, <3>2 DEF Thread
    <3>4. d \in Nodes /\ (x = d \/ On(j, x, d))
      BY <3>2, <3>3
    <3> HIDE DEF d
    <3>5. CASE j = i
      <4>1. On(j, k, d)
        BY <3>4, <3>5, <2>3, Orders
      <4> QED BY <4>1, <3>3, <2>1 DEF Thread
    <3>6. CASE j = Other(i)
      <4>1. On(i, n, x)
        BY <3>2, <3>6, <2>3, <1>1, Orders
      <4>2. b \in K /\ On(i, b, x) /\ On(i, n, b)
        BY <4>1, <3>6, <1>2, <1>10
      <4>3. b = d \/ On(j, b, d)
        BY <4>2, <3>3, <3>6, <2>3, <1>1, Orders
      <4>4. d # x
        BY <4>2, <4>3, <3>6, <2>3, <1>1, <1>4, Orders
      <4>5. On(i, d, k)
        BY <4>4, <3>3, <3>4, <3>6, <2>3, <1>1, <1>5, Orders
      <4>6. On(j, k, d)
        BY <4>5, <3>4, <3>6, <2>3, <1>1, Orders
      <4> QED BY <4>6, <3>3, <2>1 DEF Thread
    <3> QED BY <3>5, <3>6, <2>3
  <2>5. CASE ~On(j, k, n)
    BY <2>1, <2>2, <2>5 DEF Thread
  <2> QED BY <2>4, <2>5
<1>11. ASSUME NEW n \in K \cup {k}, NEW j \in {L, R} PROVE Thread(g2, K \cup {k}, n, j)
  <2>1. j = i \/ j = Other(i)
    BY DEF Other, L, R
  <2> QED BY <2>1, <1>1, <1>6, <1>7, <1>8, <1>9, <1>10
<1> QED BY <1>11 DEF Threads

\* The node that insert_node makes for k below n, before it is linked from beyond.
Fresh(n, v, i, beyond) ==
    [NewNode EXCEPT !.val = v, !.par = n, !.dir = [j \in {L, R} |-> IF j = i THEN beyond ELSE n]]
Hanging(g, n, k, v, i) ==
    [g EXCEPT !.node[k] = Fresh(n, v, i, g.node[n].dir[i]),
              !.node[n].dir[i] = k, !.node[n].cld[i] = k, !.live = @ \cup {k}]

HangsNode(g, g2, n, k, v, i) ==
    /\ g2 \in Heaps /\ g2.root = g.root /\ g2.fault = g.fault /\ g2.failed = g.failed
    /\ g2.live = g.live \cup {k}
    /\ \A m \in Nodes :
          /\ Val(g2, m) = IF m = k THEN v ELSE Val(g, m)
          /\ Par(g2, m) = IF m = k THEN n ELSE Par(g, m)
          /\ m # k => g2.node[m].sz = g.node[m].sz
          /\ \A j \in {L, R} :
                /\ child(g2, m, j) = IF m = k THEN Null ELSE IF m = n /\ j = i THEN k ELSE child(g, m, j)
                /\ Dir(g2, m, j) = IF m = k THEN (IF j = i THEN Dir(g, n, i) ELSE n)
                                   ELSE IF m = n /\ j = i THEN k ELSE Dir(g, m, j)
    /\ \A m \in Nodes \ {n, k} : g2.node[m] = g.node[m]

\* The node that insert_node makes.
LEMMA FreshIs ==
    ASSUME NEW n \in Links, NEW k \in Nodes, NEW v \in ValuesOf[k], NEW i \in {L, R}, NEW d \in Links
    PROVE  LET o == Fresh(n, v, i, d)
           IN  /\ o \in Node /\ o.val = v /\ o.par = n
               /\ \A j \in {L, R} : o.cld[j] = Null /\ o.dir[j] = IF j = i THEN d ELSE n
<1>1. v \in AllValues
  BY DEF AllValues
<1> DEFINE dd == [j \in {L, R} |-> IF j = i THEN d ELSE n]
<1>2. dd \in [{L, R} -> Links] /\ \A j \in {L, R} : dd[j] = IF j = i THEN d ELSE n
  OBVIOUS
<1> HIDE DEF dd
<1>3. /\ Fresh(n, v, i, d) = [NewNode EXCEPT !.val = v, !.par = n, !.dir = dd]
      /\ \A j \in {L, R} : NewNode.cld[j] = Null
  BY DEF Fresh, dd, NewNode, L, R
<1>4. NewNode \in Node
  BY FreshNode
<1>5. /\ Fresh(n, v, i, d) \in Node /\ Fresh(n, v, i, d).val = v /\ Fresh(n, v, i, d).par = n
      /\ Fresh(n, v, i, d).dir = dd /\ Fresh(n, v, i, d).cld = NewNode.cld
  <2> HIDE DEF Fresh
  <2> QED BY <1>1, <1>2, <1>3, <1>4 DEF Node
<1> QED BY <1>2, <1>3, <1>5

\* Two writes to a node.
LEMMA WrittenTwice ==
    ASSUME NEW g, NEW a, NEW b
    PROVE  [[g EXCEPT !.node = a] EXCEPT !.node = b] = [g EXCEPT !.node = b]
OBVIOUS

\* What is written when k is hung from n.
LEMMA HangingSets ==
    ASSUME NEW g \in Heaps, NEW n \in Nodes, NEW k \in Nodes, n # k, NEW v \in ValuesOf[k], NEW i \in {L, R}
    PROVE  HangsNode(g, Hanging(g, n, k, v, i), n, k, v, i)
<1> DEFINE b == Dir(g, n, i)
           ok == Fresh(n, v, i, b)
           on == [g.node[n] EXCEPT !.dir[i] = k, !.cld[i] = k]
           ga == WithNode(g, k, ok)
           gb == WithNode(ga, n, on)
           g2 == Hanging(g, n, k, v, i)
<1>1. n \in Links /\ k \in Links /\ b \in Links /\ g.node[n] \in Node
  BY NodeTypes DEF Links
<1>2. /\ ok \in Node /\ ok.val = v /\ ok.par = n
      /\ \A j \in {L, R} : ok.cld[j] = Null /\ ok.dir[j] = IF j = i THEN b ELSE n
  <2> HIDE DEF b
  <2> QED BY <1>1, FreshIs
<1>3. /\ on \in Node /\ on.val = g.node[n].val /\ on.par = g.node[n].par /\ on.sz = g.node[n].sz
      /\ \A j \in {L, R} : /\ on.cld[j] = IF j = i THEN k ELSE g.node[n].cld[j]
                           /\ on.dir[j] = IF j = i THEN k ELSE g.node[n].dir[j]
  BY <1>1 DEF Node
<1>4. g2 = [gb EXCEPT !.live = g.live \cup {k}]
  <2>1. g2 = [g EXCEPT !.node[k] = ok, !.node[n].dir[i] = k, !.node[n].cld[i] = k, !.live = g.live \cup {k}]
    BY DEF Hanging, Dir, Heaps
  <2> HIDE DEF ok, g2
  <2> DEFINE F1 == [g.node EXCEPT ![k] = ok]
             F2 == [F1 EXCEPT ![n].dir[i] = k]
             F3 == [F2 EXCEPT ![n].cld[i] = k]
  <2> DEFINE now == g.live \cup {k}
  <2>1A. g2 = [g EXCEPT !.node[k] = ok, !.node[n].dir[i] = k, !.node[n].cld[i] = k, !.live = now]
    BY <2>1
  <2> HIDE DEF now
  <2>1B. [g EXCEPT !.node[k] = ok, !.node[n].dir[i] = k, !.node[n].cld[i] = k, !.live = now]
         = [g EXCEPT !.node = F3, !.live = now]
    <3> DEFINE g1 == [g EXCEPT !.node[k] = ok]
               gd == [g1 EXCEPT !.node[n].dir[i] = k]
               g3 == [gd EXCEPT !.node[n].cld[i] = k]
    <3>1. [g EXCEPT !.node[k] = ok, !.node[n].dir[i] = k, !.node[n].cld[i] = k, !.live = now]
          = [g3 EXCEPT !.live = now]
      OBVIOUS
    <3>2. g1 = [g EXCEPT !.node = F1]
      BY DEF Heaps
    <3> HIDE DEF F1
    <3>3. g1.node = F1 /\ DOMAIN g1 = DOMAIN g /\ "node" \in DOMAIN g
      BY <3>2 DEF Heaps
    <3> HIDE DEF g1
    <3>4. gd = [g1 EXCEPT !.node = F2]
      BY <3>3
    <3> HIDE DEF F2
    <3>5. gd.node = F2 /\ DOMAIN gd = DOMAIN g
      BY <3>3, <3>4
    <3> HIDE DEF gd
    <3>6. g3 = [gd EXCEPT !.node = F3]
      BY <3>5
    <3> HIDE DEF g3, F3
    <3>7. gd = [g EXCEPT !.node = F2]
      BY <3>2, <3>4, WrittenTwice
    <3>8. g3 = [g EXCEPT !.node = F3]
      BY <3>6, <3>7, WrittenTwice
    <3> QED BY <3>1, <3>8
  <2>1C. [g EXCEPT !.node = F3, !.live = now] = [[g EXCEPT !.node = F3] EXCEPT !.live = now]
    <3> HIDE DEF F3
    <3> QED OBVIOUS
  <2>2. g2 = [[g EXCEPT !.node = F3] EXCEPT !.live = g.live \cup {k}]
    <3> HIDE DEF F3
    <3> QED BY <2>1A, <2>1B, <2>1C DEF now
  <2>3. g.node \in [Nodes -> Node]
    BY NodeTypes
  <2>4. F3 = [F1 EXCEPT ![n] = on]
    <3>1. F1[n] = g.node[n] /\ DOMAIN F1 = Nodes
      BY <2>3
    <3> HIDE DEF F1
    <3>2. F2 = [F1 EXCEPT ![n] = [F1[n] EXCEPT !.dir[i] = k]]
      BY <3>1, <1>1 DEF Node
    <3>3. on = [[F1[n] EXCEPT !.dir[i] = k] EXCEPT !.cld[i] = k]
      BY <3>1, <1>1 DEF Node
    <3> DEFINE o1 == [F1[n] EXCEPT !.dir[i] = k]
    <3>4. F2 = [F1 EXCEPT ![n] = o1] /\ on = [o1 EXCEPT !.cld[i] = k]
      BY <3>2, <3>3
    <3> HIDE DEF o1, on, F2
    <3>5. F2[n] = o1 /\ DOMAIN F2 = Nodes
      BY <3>1, <3>4
    <3>6. F3 = [F2 EXCEPT ![n] = on]
      BY <3>4, <3>5
    <3> HIDE DEF F3
    <3> QED BY <3>1, <3>4, <3>6
  <2> HIDE DEF F3, on
  <2>5. gb = [g EXCEPT !.node = [F1 EXCEPT ![n] = on]]
    BY DEF WithNode, Heaps
  <2> HIDE DEF F1, gb
  <2> QED BY <2>2, <2>4, <2>5
<1> HIDE DEF ok, on
<1>5. /\ ga \in Heaps /\ SameButNodes(g, ga) /\ ga.node[k] = ok
      /\ \A m \in Nodes \ {k} : ga.node[m] = g.node[m]
  BY <1>2, Replaced
<1> HIDE DEF ga
<1>6. /\ gb \in Heaps /\ SameButNodes(ga, gb) /\ gb.node[n] = on
      /\ \A m \in Nodes \ {n} : gb.node[m] = ga.node[m]
  BY <1>3, <1>5, Replaced
<1> HIDE DEF gb, g2, b
<1>7. /\ g2 \in Heaps /\ g2.node = gb.node /\ g2.root = gb.root /\ g2.fault = gb.fault /\ g2.failed = gb.failed
      /\ g2.live = g.live \cup {k}
  BY <1>4, <1>6 DEF Heaps
<1>8. g2.root = g.root /\ g2.fault = g.fault /\ g2.failed = g.failed
  BY <1>5, <1>6, <1>7 DEF SameButNodes
<1>9. g2.node[k] = ok /\ g2.node[n] = on /\ \A m \in Nodes \ {n, k} : g2.node[m] = g.node[m]
  BY <1>5, <1>6, <1>7
<1>10. ASSUME NEW m \in Nodes
       PROVE  /\ Val(g2, m) = IF m = k THEN v ELSE Val(g, m)
              /\ Par(g2, m) = IF m = k THEN n ELSE Par(g, m)
              /\ m # k => g2.node[m].sz = g.node[m].sz
              /\ \A j \in {L, R} :
                    /\ child(g2, m, j) = IF m = k THEN Null ELSE IF m = n /\ j = i THEN k ELSE child(g, m, j)
                    /\ Dir(g2, m, j) = IF m = k THEN (IF j = i THEN b ELSE n)
                                       ELSE IF m = n /\ j = i THEN k ELSE Dir(g, m, j)
  <2>1. CASE m = k
    BY <2>1, <1>2, <1>9 DEF Val, Par, child, Dir
  <2>2. CASE m = n
    BY <2>2, <1>3, <1>9 DEF Val, Par, child, Dir
  <2>3. CASE m # k /\ m # n
    BY <2>3, <1>9 DEF Val, Par, child, Dir
  <2> QED BY <2>1, <2>2, <2>3
<1>11. HangsNode(g, g2, n, k, v, i)
  BY <1>7, <1>8, <1>9, <1>10 DEF HangsNode, b
<1> QED BY <1>11 DEF g2

\* The tree t of g holds the keys K: in order, threaded, and counted.
Whole(g, t, K) ==
    /\ g \in Heaps
    /\ \E S : Tree(g, K, S, g.root[t])
    /\ Threads(g, K)
    /\ \A m \in K : Counted(g, m)

\* g2 differs from g in the tree t and the nodes of K only.
Spares(g, g2, t, K) ==
    /\ \A u \in Trees \ {t} : g2.root[u] = g.root[u]
    /\ \A m \in Nodes \ K : g2.node[m] = g.node[m]

Inserted(g, g2, t, K, k, v) ==
    /\ Whole(g2, t, K \cup {k}) /\ Spares(g, g2, t, K \cup {k})
    /\ g2.live = g.live \cup {k} /\ g2.failed = g.failed
    /\ \A m \in Nodes : Val(g2, m) = IF m = k THEN v ELSE Val(g, m)

\* The thread is in the links dir.
LEMMA SameThreads ==
    ASSUME NEW g, NEW g2, NEW K, Threads(g, K), \A m \in K : \A i \in {L, R} : Dir(g2, m, i) = Dir(g, m, i)
    PROVE  Threads(g2, K)
BY DEF Threads, Thread

\* g is the tree t of g0 with other links, and g0 otherwise.
Kept(g0, g, t, K) ==
    /\ Whole(g, t, K) /\ Spares(g0, g, t, K) /\ g.live = g0.live /\ g.failed = g0.failed
    /\ \A m \in Nodes : Val(g, m) = Val(g0, m)

\* What is settled has the tree at its root.
LEMMA SettledRoot ==
    ASSUME NEW g0, NEW t, NEW K, NEW g, NEW S, NEW r, Settled(g0, g0.root[t], t, K, g, S, r)
    PROVE  g.root[t] = r
BY DEF Settled, Follows

\* What is settled is a whole tree.
LEMMA SettledWhole ==
    ASSUME NEW g0, NEW t, NEW K \in SUBSET Nodes, Threads(g0, K), NEW g, NEW S, NEW r,
           Settled(g0, g0.root[t], t, K, g, S, r)
    PROVE  Kept(g0, g, t, K)
<1>1. g.root[t] = r
  BY SettledRoot
<1>2. Threads(g, K)
  <2>1. \A m \in K : \A i \in {L, R} : Dir(g, m, i) = Dir(g0, m, i)
    BY DEF Settled, Shuffled
  <2> QED BY <2>1, SameThreads
<1> QED BY <1>1, <1>2 DEF Settled, Shuffled, Whole, Spares, Kept

\* The node, before the sizes above it are brought up to date.
Linked(g, n, k, v, i) == SetDir(Hanging(g, n, k, v, i), Dir(g, n, i), Other(i), k)
LinksNode(g, g2, K, n, k, v, i) ==
    /\ g2 \in Heaps /\ g2.root = g.root /\ g2.failed = g.failed
    /\ g2.live = g.live \cup {k}
    /\ LeafLinks(g, g2, K, n, i, k) /\ LeafDirs(g, g2, K, n, i, k, Dir(g, n, i))
    /\ \A m \in K : g2.node[m].sz = g.node[m].sz
    /\ \A m \in Nodes : Val(g2, m) = IF m = k THEN v ELSE Val(g, m)
    /\ \A m \in Nodes \ (K \cup {k}) : g2.node[m] = g.node[m]

\* And when the node beyond is linked to k.
LEMMA LinkedSets ==
    ASSUME NEW g \in Heaps, NEW K \in SUBSET Nodes, NEW n \in K, NEW k \in Nodes, k \notin K,
           NEW v \in ValuesOf[k], NEW i \in {L, R}, Threads(g, K)
    PROVE  LinksNode(g, Linked(g, n, k, v, i), K, n, k, v, i)
<1> DEFINE g1 == Hanging(g, n, k, v, i)
           b == Dir(g, n, i)
           g2 == Linked(g, n, k, v, i)
<1>1. HangsNode(g, g1, n, k, v, i)
  BY HangingSets
<1>2. g2 = SetDir(g1, b, Other(i), k)
  BY DEF Linked
<1>3. n \in Nodes /\ n # k /\ Other(i) \in {L, R} /\ Other(i) # i
  BY Sides
<1>4. b \in K \cup {Null} /\ b # n /\ b # k
  <2>1. Thread(g, K, n, i) /\ Null \notin Nodes
    BY KeysArePositive DEF Threads
  <2>2. ~On(i, n, n)
    BY Orders
  <2> QED BY <2>1, <2>2 DEF Thread
<1>5. b \in Links
  BY <1>4 DEF Links
<1> HIDE DEF g1, g2
<1> SUFFICES LinksNode(g, g2, K, n, k, v, i)
  BY DEF g2
<1>6. g1 \in Heaps
  BY <1>1 DEF HangsNode
<1>7. DirIsSet(g1, g2, b, Other(i), k)
  <2>1. k \in Links
    BY DEF Links
  <2> HIDE DEF b
  <2> QED BY <1>2, <1>3, <1>5, <1>6, <2>1, SetDirSets
<1> HIDE DEF b
<1>8. /\ g2 \in Heaps /\ g2.root = g.root /\ g2.failed = g.failed /\ g2.live = g.live \cup {k}
  BY <1>1, <1>7 DEF DirIsSet, HangsNode, SameButNodes
<1>9. LeafLinks(g, g2, K, n, i, k)
  <2> SUFFICES ASSUME NEW m \in K \cup {k}
               PROVE  /\ Par(g2, m) = IF m = k THEN n ELSE Par(g, m)
                      /\ \A j \in {L, R} : child(g2, m, j) = IF m = k THEN Null ELSE IF m = n /\ j = i THEN k
                                                             ELSE child(g, m, j)
    BY DEF LeafLinks
  <2>1. m \in Nodes
    OBVIOUS
  <2>2. Par(g2, m) = Par(g1, m) /\ \A j \in {L, R} : child(g2, m, j) = child(g1, m, j)
    BY <2>1, <1>7 DEF DirIsSet, Par, child
  <2> QED BY <2>1, <2>2, <1>1 DEF HangsNode
<1>10. LeafDirs(g, g2, K, n, i, k, b)
  <2> SUFFICES ASSUME NEW m \in K \cup {k}, NEW j \in {L, R}
               PROVE  Dir(g2, m, j) = IF m = k THEN (IF j = i THEN b ELSE n)
                       ELSE IF m = n /\ j = i THEN k
                       ELSE IF m = b /\ j = Other(i) THEN k ELSE Dir(g, m, j)
    BY DEF LeafDirs
  <2>1. m \in Nodes
    OBVIOUS
  <2>2. Dir(g2, m, j) = IF m = b /\ j = Other(i) THEN k ELSE Dir(g1, m, j)
    BY <2>1, <1>7 DEF DirIsSet
  <2>3. Dir(g1, m, j) = IF m = k THEN (IF j = i THEN b ELSE n)
                        ELSE IF m = n /\ j = i THEN k ELSE Dir(g, m, j)
    BY <2>1, <1>1 DEF HangsNode, b
  <2> QED BY <2>2, <2>3, <1>3, <1>4
<1>11. \A m \in K : g2.node[m].sz = g.node[m].sz
  <2> TAKE m \in K
  <2>1. m \in Nodes /\ m # k
    OBVIOUS
  <2> QED BY <2>1, <1>1, <1>7 DEF HangsNode, DirIsSet
<1>12. \A m \in Nodes : Val(g2, m) = IF m = k THEN v ELSE Val(g, m)
  BY <1>1, <1>7 DEF HangsNode, DirIsSet, Val
<1>13. \A m \in Nodes \ (K \cup {k}) : g2.node[m] = g.node[m]
  <2> TAKE m \in Nodes \ (K \cup {k})
  <2>1. m # b /\ m # n /\ m # k
    BY <1>4, KeysArePositive
  <2> QED BY <2>1, <1>1, <1>7 DEF HangsNode, DirIsSet
<1>14. LinksNode(g, g2, K, n, k, v, i)
  BY <1>8, <1>9, <1>10, <1>11, <1>12, <1>13 DEF LinksNode, b
<1> QED BY <1>14

\* The tree that k hangs in, with S[m] unchanged but above k.
Hangs(g2, K, S, S2, r, n, k) ==
    /\ Tree(g2, K \cup {k}, S2, r) /\ Threads(g2, K \cup {k})
    /\ \A m \in K : n \notin S[m] => Counted(g2, m) /\ S2[m] = S[m]
    /\ \A m \in K : k \in S2[m] => n \in S[m]
    /\ \A m \in K : n \in S[m] => k \in S2[m]
    /\ k \in S2[k]

\* What insert_node links is a tree, where only the nodes that k hangs below
\* may be miscounted.
LEMMA LinkedTree ==
    ASSUME NEW g \in Heaps, NEW K \in SUBSET Nodes, NEW S, NEW r, Tree(g, K, S, r), Threads(g, K),
           \A m \in K : Counted(g, m),
           NEW n \in K, NEW k \in Nodes, k \notin K, NEW v, NEW i \in {L, R}, Gap(g, K, S, n, i, k),
           NEW g2, LinksNode(g, g2, K, n, k, v, i)
    PROVE  Hangs(g2, K, S, Leafed(K, S, n, k), r, n, k)
<1> DEFINE S2 == Leafed(K, S, n, k)
<1>1. LeafLinks(g, g2, K, n, i, k) /\ LeafDirs(g, g2, K, n, i, k, Dir(g, n, i))
  BY DEF LinksNode
<1>2. Tree(g2, K \cup {k}, S2, r)
  BY <1>1, LeafTree
<1>3. IsLeafed(K, S, S2, n, k)
  BY LeafedIs
<1> HIDE DEF S2
<1>4. Threads(g2, K \cup {k})
  <2>1. On(i, k, n)
    BY DEF Gap
  <2>2. \A m \in K : On(i, m, n) => On(i, m, k)
    <3> SUFFICES ASSUME NEW m \in K, On(i, m, n) PROVE On(i, m, k)
      OBVIOUS
    <3>1. m \notin S[n]
      BY NoKid DEF Gap
    <3>2. n \in S[n]
      BY InTree
    <3> QED BY <3>1, <3>2 DEF Gap
  <2> QED BY <1>1, <2>1, <2>2, LeafThreads
<1>5. n \in S[n]
  BY InTree
<1>6. \A m \in K : k \notin S[m]
  BY InTree
<1>7. ASSUME NEW m \in K, n \notin S[m]
      PROVE  Counted(g2, m)
  <2>1. m # n /\ m # k /\ Counted(g, m) /\ g2.node[m].sz = g.node[m].sz
    BY <1>5, <1>7 DEF LinksNode
  <2>2. \A j \in {L, R} : child(g2, m, j) = child(g, m, j)
    BY <1>1, <2>1 DEF LeafLinks
  <2>3. \A j \in {L, R} : sz(g2, child(g, m, j)) = sz(g, child(g, m, j))
    <3> TAKE j \in {L, R}
    <3>1. child(g, m, j) = Null \/ child(g, m, j) \in K
      BY KidIs
    <3> QED BY <3>1 DEF sz, LinksNode
  <2> QED BY <2>1, <2>2, <2>3 DEF Counted, L, R
<1>8. Hangs(g2, K, S, S2, r, n, k)
  BY <1>2, <1>3, <1>4, <1>6, <1>7 DEF IsLeafed, Hangs
<1> QED BY <1>8 DEF S2

\* An insertion that does not end the program.
InsertsInto(g, g2, t, K, k, v) == g2 \in Heaps /\ (g2.fault = "none" => Inserted(g, g2, t, K, k, v))

\* A key that hangs from the node the descent ended at is in the tree.
LEMMA HangInserts ==
    ASSUME NEW g, NEW t \in Trees, NEW K \in SUBSET Nodes, Whole(g, t, K), K # {},
           NEW k \in Nodes, k \notin K, NEW v \in ValuesOf[k],
           NEW n, n = find_host_node(g, g.root[t], k)
    PROVE  InsertsInto(g, Hang(g, t, n, k, v), t, K, k, v)
<1> DEFINE i == IF k < n THEN L ELSE R
           r == g.root[t]
           g2 == Linked(g, n, k, v, i)
           g3 == update(g2, k)
           g4 == update(g3, n)
           g5 == rebalance(g4, t, k)
<1>1. PICK S : Tree(g, K, S, r)
  BY DEF Whole
<1>2. g \in Heaps /\ Threads(g, K) /\ \A m \in K : Counted(g, m)
  BY DEF Whole
<1>3. i \in {L, R}
  OBVIOUS
<1>4. Hang(g, t, n, k, v) = g5
  BY DEF Hang, Linked, Hanging, Fresh, Dir
<1>5. Gap(g, K, S, n, i, k)
  <2> HIDE DEF r
  <2>1. n = find_host_node(g, r, k)
    BY DEF r
  <2> QED BY <1>1, <2>1, HostOfAbsent
<1> HIDE DEF i, g2
<1>6. n \in K
  BY <1>5 DEF Gap
<1>7. LinksNode(g, g2, K, n, k, v, i)
  BY <1>2, <1>3, <1>6, LinkedSets DEF g2
<1> DEFINE S2 == Leafed(K, S, n, k)
           K2 == K \cup {k}
<1>8A. g2.root[t] = r
  BY <1>7 DEF LinksNode
<1> HIDE DEF r
<1>8. Hangs(g2, K, S, S2, r, n, k) /\ Tree(g2, K2, S2, r) /\ Threads(g2, K2)
  <2>1. g \in Heaps /\ Threads(g, K) /\ Tree(g, K, S, r) /\ LinksNode(g, g2, K, n, k, v, i)
    BY <1>1, <1>2, <1>7
  <2>2. Hangs(g2, K, S, S2, r, n, k)
    BY <1>2, <1>3, <1>5, <1>6, <2>1, LinkedTree
  <2> QED BY <2>2 DEF Hangs
<1>9. g2 \in Heaps /\ k \in K2 /\ n \in K2 /\ K2 \in SUBSET Nodes /\ g2.root[t] = r /\ n \in Nodes
  BY <1>6, <1>7, <1>8A DEF LinksNode
<1> HIDE DEF S2, K2, g3
<1>10. Updated(g2, g3, k)
  BY <1>9, UpdateSets DEF g3
<1>11. /\ Tree(g3, K2, S2, r) /\ Counted(g3, k)
       /\ \A m \in K2 : (k \notin S2[m] \/ Counted(g2, k)) /\ Counted(g2, m) => Counted(g3, m)
  BY <1>8, <1>9, <1>10, UpdateCounts
<1>12. g3 \in Heaps
  BY <1>10 DEF Updated
<1> HIDE DEF g4
<1>13. Updated(g3, g4, n)
  BY <1>9, <1>12, UpdateSets DEF g4
<1>14. /\ Tree(g4, K2, S2, r) /\ Counted(g4, n)
       /\ \A m \in K2 : (n \notin S2[m] \/ Counted(g3, n)) /\ Counted(g3, m) => Counted(g4, m)
  BY <1>9, <1>11, <1>12, <1>13, UpdateCounts
<1>15. ASSUME NEW m \in K2, k \notin S2[m]
       PROVE  Counted(g4, m)
  <2>1. m \in K /\ m # k
    BY <1>8, <1>15 DEF K2, Hangs
  <2>2. S2[m] = (IF n \in S[m] THEN S[m] \cup {k} ELSE S[m])
    BY <2>1 DEF S2, Leafed
  <2>3. n \notin S[m]
    BY <1>15, <2>2
  <2>4. n \notin S2[m] /\ Counted(g2, m)
    BY <1>8, <2>1, <2>3 DEF Hangs
  <2> QED BY <1>11, <1>14, <1>15, <2>4
<1>16. g4 \in Heaps /\ g4.root = g2.root /\ g4.live = g2.live /\ g4.failed = g2.failed
  BY <1>10, <1>13 DEF Updated, SameButNodes
<1> HIDE DEF g5
<1>17. SettlesTo(g4, r, t, K2, g5)
  BY <1>9, <1>14, <1>15, <1>16, RebalanceSettlesTo DEF g5
<1>18. Threads(g4, K2) /\ \A m \in Nodes : Val(g4, m) = Val(g2, m)
  <2>1. \A m \in Nodes : Val(g4, m) = Val(g2, m) /\ \A j \in {L, R} : Dir(g4, m, j) = Dir(g2, m, j)
    BY <1>10, <1>13 DEF Updated, SameLinks
  <2> QED BY <2>1, <1>8, <1>9, SameThreads
<1>19. \A m \in Nodes \ K2 : g4.node[m] = g.node[m]
  <2> TAKE m \in Nodes \ K2
  <2>1. m # k /\ m # n /\ m \in Nodes \ (K \cup {k})
    BY <1>9 DEF K2
  <2> QED BY <2>1, <1>7, <1>10, <1>13 DEF Updated, LinksNode
<1>20. ASSUME g5.fault = "none" PROVE Kept(g4, g5, t, K2)
  <2>1. PICK S3, r3 : Settled(g4, r, t, K2, g5, S3, r3)
    BY <1>17, <1>20 DEF SettlesTo
  <2>2. Settled(g4, g4.root[t], t, K2, g5, S3, r3)
    BY <1>9, <1>16, <2>1
  <2> QED BY <1>9, <1>18, <2>2, SettledWhole
<1>21. g5.fault = "none" => Inserted(g, g5, t, K, k, v)
  BY <1>7, <1>16, <1>18, <1>19, <1>20 DEF Inserted, Spares, LinksNode, K2, Kept
<1>22. InsertsInto(g, g5, t, K, k, v)
  BY <1>17, <1>21 DEF InsertsInto, SettlesTo
<1> QED BY <1>4, <1>22

\* The first node of a tree.
Planted(g, t, k, v) ==
    [g EXCEPT !.node[k] = [NewNode EXCEPT !.val = v], !.root[t] = k, !.live = @ \cup {k}]

\* The first key of a tree.
LEMMA FirstInserts ==
    ASSUME NEW g, NEW t \in Trees, Whole(g, t, {}), NEW k \in Nodes, NEW v \in ValuesOf[k]
    PROVE  Inserted(g, Planted(g, t, k, v), t, {}, k, v)
<1> DEFINE o == [NewNode EXCEPT !.val = v]
           F == [g.node EXCEPT ![k] = o]
           W == [g.root EXCEPT ![t] = k]
           now == g.live \cup {k}
           g2 == Planted(g, t, k, v)
           S == [m \in {k} |-> {k}]
<1>1. g \in Heaps
  BY DEF Whole
<1>2. /\ o \in Node /\ o.val = v /\ o.par = Null /\ o.sz = 1
      /\ \A j \in {L, R} : o.cld[j] = Null /\ o.dir[j] = Null
  <2>1. v \in AllValues
    BY DEF AllValues
  <2>2. /\ NewNode.par = Null /\ NewNode.sz = 1
        /\ \A j \in {L, R} : NewNode.cld[j] = Null /\ NewNode.dir[j] = Null
    BY DEF NewNode, L, R
  <2>3. NewNode \in Node
    BY FreshNode
  <2> QED BY <2>1, <2>2, <2>3 DEF Node
<1>3. g2 = [g EXCEPT !.node = F, !.root = W, !.live = now]
  <2>1. g2 = [g EXCEPT !.node[k] = o, !.root[t] = k, !.live = now]
    BY DEF Planted
  <2> HIDE DEF o, now, g2
  <2> QED BY <1>1, <2>1 DEF Heaps
<1> HIDE DEF o, g2
<1> SUFFICES Inserted(g, g2, t, {}, k, v)
  BY DEF g2
<1>4. /\ g.node \in [Nodes -> Node] /\ g.root \in [Trees -> Links] /\ g.live \in SUBSET Nodes
  BY <1>1, NodeTypes
<1>4A. F \in [Nodes -> Node] /\ W \in [Trees -> Links] /\ now \in SUBSET Nodes
  BY <1>2, <1>4 DEF Links
<1>5. /\ g2 \in Heaps /\ g2.node = F /\ g2.root = W /\ g2.live = now /\ g2.failed = g.failed
  <2> HIDE DEF F, W, now
  <2> QED BY <1>1, <1>3, <1>4A DEF Heaps
<1>6. /\ g2.node[k] = o /\ \A m \in Nodes \ {k} : g2.node[m] = g.node[m]
      /\ g2.root[t] = k /\ \A u \in Trees \ {t} : g2.root[u] = g.root[u]
  BY <1>4, <1>5
<1>7. k # Null
  BY KeysArePositive
<1>8. /\ Par(g2, k) = Null /\ Val(g2, k) = v /\ g2.node[k].sz = 1
      /\ \A j \in {L, R} : child(g2, k, j) = Null /\ Dir(g2, k, j) = Null
  BY <1>2, <1>6 DEF Par, Val, child, Dir
<1>9. Tree(g2, {k}, S, k)
  <2>1. S[k] = {k} /\ S \in [{k} -> SUBSET {k}]
    OBVIOUS
  <2> HIDE DEF S
  <2>2. \A j \in {L, R} : ~On(j, k, k)
    BY Orders
  <2> QED BY <1>8, <2>1, <2>2 DEF Tree, Spans, Nested, Apart, RootedAt, Kids, Kid, Parents, Upward
<1>10. Threads(g2, {k})
  <2>1. \A j \in {L, R} : ~On(j, k, k)
    BY Orders
  <2> QED BY <1>8, <2>1 DEF Threads, Thread
<1>11. Counted(g2, k)
  BY <1>8 DEF Counted, sz, L, R
<1>12. Whole(g2, t, {k})
  BY <1>5, <1>6, <1>9, <1>10, <1>11 DEF Whole
<1>13. \A m \in Nodes : Val(g2, m) = IF m = k THEN v ELSE Val(g, m)
  BY <1>6, <1>8 DEF Val
<1>14. {} \cup {k} = {k}
  OBVIOUS
<1> QED BY <1>5, <1>6, <1>12, <1>13, <1>14 DEF Inserted, Spares

\* insert_node puts k into the tree, or leaves all as it is when k is there.
LEMMA InsertNode ==
    ASSUME NEW t \in Trees, NEW K \in SUBSET Nodes, Whole(h, t, K), NEW k \in Nodes, NEW v \in ValuesOf[k]
    PROVE  IF k \in K THEN insert_node(t, k, v) = h ELSE InsertsInto(h, insert_node(t, k, v), t, K, k, v)
<1> DEFINE n == find_host_node(h, h.root[t], k)
           g0 == Planted(h, t, k, v)
<1>1. insert_node(t, k, v) = IF n = Null THEN g0 ELSE IF n = k THEN h ELSE Hang(h, t, n, k, v)
  BY DEF insert_node, Planted
<1>2. (n = Null <=> K = {}) /\ (n = k <=> k \in K)
  <2>1. PICK S : Tree(h, K, S, h.root[t])
    BY DEF Whole
  <2> DEFINE r == h.root[t]
  <2>2. Tree(h, K, S, r)
    BY <2>1
  <2> HIDE DEF r
  <2>3. (find_host_node(h, r, k) = Null <=> K = {}) /\ (find_host_node(h, r, k) = k <=> k \in K)
    BY <2>2, Hosts
  <2> QED BY <2>3 DEF r
<1>3. n = find_host_node(h, h.root[t], k)
  OBVIOUS
<1> HIDE DEF n
<1>4. CASE k \in K
  BY <1>1, <1>2, <1>4
<1>5. CASE K = {}
  <2> HIDE DEF g0
  <2>1. Inserted(h, g0, t, K, k, v)
    BY <1>5, FirstInserts DEF g0
  <2>2. InsertsInto(h, g0, t, K, k, v)
    BY <2>1 DEF InsertsInto, Inserted, Whole
  <2> QED BY <1>1, <1>2, <1>5, <2>2
<1>6. CASE K # {} /\ k \notin K
  <2>1. insert_node(t, k, v) = Hang(h, t, n, k, v)
    BY <1>1, <1>2, <1>6
  <2>2. InsertsInto(h, Hang(h, t, n, k, v), t, K, k, v)
    BY <1>3, <1>6, <2>1, HangInserts
  <2> QED BY <1>6, <2>1, <2>2
<1> QED BY <1>4, <1>5, <1>6

-----------------------------------------------------------------------------
(* A key less: swap_positions, replace_child and erase.                    *)

\* n has a child c on the side Other(i) at most, and hangs from p.
Bare(g, n, i, c, p) ==
    /\ i \in {L, R} /\ child(g, n, i) = Null /\ c = child(g, n, Other(i)) /\ p = Par(g, n)
\* g2 has c in the place of n.
Bypassed(g, g2, K, n, c, p) ==
    \A m \in K \ {n} :
       /\ Par(g2, m) = IF m = c THEN p ELSE Par(g, m)
       /\ \A j \in {L, R} : child(g2, m, j) = IF child(g, m, j) = n THEN c ELSE child(g, m, j)
Without(K, S, n) == [m \in K \ {n} |-> S[m] \ {n}]

BareIn(g, K, S, r, n, i, c, p) ==
    /\ n \in K /\ Other(i) \in {L, R} /\ n # Null /\ n \in S[n] /\ p = Par(g, n)
    /\ IF c = Null THEN S[n] = {n}
       ELSE c \in K /\ c # n /\ Par(g, c) = n /\ S[c] = S[n] \ {n}
    /\ IF n = r THEN p = Null /\ S[n] = K
       ELSE p \in K /\ p # n /\ \E j \in {L, R} : child(g, p, j) = n
    /\ \A m \in K \ {n} : Par(g, m) = n => m = c
    /\ \A m \in K : n \in S[m] /\ m # n => p \in S[m] /\ n # r

\* What there is without n, when n has one child at most.
LEMMA Bares ==
    ASSUME NEW g, NEW K, NEW S, NEW r, Tree(g, K, S, r), NEW n \in K, NEW i, NEW c, NEW p, Bare(g, n, i, c, p)
    PROVE  BareIn(g, K, S, r, n, i, c, p)
<1>1. /\ i \in {L, R} /\ Other(i) \in {L, R} /\ Other(i) # i /\ child(g, n, i) = Null
      /\ c = child(g, n, Other(i)) /\ p = Par(g, n) /\ \A j \in {L, R} : j = i \/ j = Other(i)
  BY Sides DEF Bare, L, R, Other
<1>2. K \subseteq Nodes /\ Null \notin K /\ n \in S[n] /\ S[n] \subseteq K /\ n \in Nodes
  BY InTree
<1>3. \A k \in S[n] : ~On(i, k, n)
  BY <1>1, NoKid
<1>4. \A k \in S[n] : k # n => On(Other(i), k, n)
  BY <1>1, <1>2, <1>3, Orders
<1>5. ~On(Other(i), n, n)
  BY <1>1, <1>2, Orders
<1>6. IF c = Null THEN S[n] = {n} ELSE c \in K /\ c # n /\ Par(g, c) = n /\ S[c] = S[n] \ {n}
  <2>1. CASE c = Null
    <3>1. \A k \in S[n] : ~On(Other(i), k, n)
      BY <1>1, <2>1, NoKid
    <3> QED BY <1>2, <1>4, <2>1, <3>1
  <2>2. CASE c # Null
    <3>1. c \in K /\ Par(g, c) = n /\ S[c] = {k \in S[n] : On(Other(i), k, n)}
      BY <1>1, <2>2, KidIs
    <3>2. c # n
      BY <1>1, <2>2, KidBelow
    <3> QED BY <1>4, <1>5, <2>2, <3>1, <3>2
  <2> QED BY <2>1, <2>2
<1>7. IF n = r THEN p = Null /\ S[n] = K
      ELSE p \in K /\ p # n /\ \E j \in {L, R} : child(g, p, j) = n
  <2>1. CASE n = r
    BY <1>1, <2>1, InTree
  <2>2. CASE n # r
    <3>1. p \in K /\ \E j \in {L, R} : child(g, p, j) = n
      BY <1>1, <2>2 DEF Tree, Parents
    <3> QED BY <1>2, <2>2, <3>1, KidBelow
  <2> QED BY <2>1, <2>2
<1>8. ASSUME NEW m \in K \ {n}, Par(g, m) = n PROVE m = c
  <2>1. m # r
    BY <1>2, <1>8, InTree
  <2>2. \E j \in {L, R} : child(g, n, j) = m
    BY <1>8, <2>1 DEF Tree, Parents
  <2> QED BY <1>1, <1>2, <2>2
<1>9. ASSUME NEW m \in K, n \in S[m], m # n PROVE p \in S[m] /\ n # r
  <2>1. p \in S[m]
    BY <1>1, <1>9, InTree
  <2>2. S[m] \subseteq K
    BY InTree
  <2> QED BY <1>2, <1>7, <2>1, <2>2
<1> QED BY <1>1, <1>2, <1>6, <1>7, <1>8, <1>9 DEF BareIn

\* The subtrees without n are subtrees.
LEMMA WithoutSpans ==
    ASSUME NEW g, NEW K, NEW S, NEW r, Tree(g, K, S, r), NEW n \in K
    PROVE  /\ Spans(K \ {n}, Without(K, S, n)) /\ Nested(K \ {n}, Without(K, S, n))
           /\ Apart(K \ {n}, Without(K, S, n))
<1> DEFINE S2 == Without(K, S, n)
<1>1. K \subseteq Nodes /\ \A m \in K : m \in S[m] /\ S[m] \subseteq K
  BY InTree
<1>2. S2 \in [K \ {n} -> SUBSET (K \ {n})] /\ \A m \in K \ {n} : S2[m] = S[m] \ {n}
  BY <1>1 DEF Without
<1> HIDE DEF S2
<1>3. Spans(K \ {n}, S2)
  BY <1>1, <1>2 DEF Spans
<1>4. Nested(K \ {n}, S2)
  BY <1>1, <1>2 DEF Nested, Tree
<1>5. Apart(K \ {n}, S2)
  BY <1>1, <1>2 DEF Apart, Tree
<1> QED BY <1>3, <1>4, <1>5 DEF S2

\* A node with one child at most can be bypassed.
LEMMA BypassTree ==
    ASSUME NEW g, NEW K, NEW S, NEW r, Tree(g, K, S, r), NEW n, NEW i, NEW c, NEW p,
           BareIn(g, K, S, r, n, i, c, p), NEW g2, Bypassed(g, g2, K, n, c, p)
    PROVE  Tree(g2, K \ {n}, Without(K, S, n), IF n = r THEN c ELSE r)
<1> DEFINE S2 == Without(K, S, n)
           K2 == K \ {n}
           r2 == IF n = r THEN c ELSE r
<1>1. n \in K /\ K2 \subseteq K /\ n \notin K2 /\ \A m \in K : m = n \/ m \in K2
  BY DEF BareIn
<1>2. \A m \in K2 : S2[m] = S[m] \ {n}
  BY DEF Without
<1>3. Spans(K2, S2) /\ Nested(K2, S2) /\ Apart(K2, S2)
  BY <1>1, WithoutSpans
<1>3A. \A m \in K2 : /\ Par(g2, m) = IF m = c THEN p ELSE Par(g, m)
                     /\ \A j \in {L, R} : child(g2, m, j) = IF child(g, m, j) = n THEN c ELSE child(g, m, j)
  BY DEF Bypassed
<1>3B. /\ Null \notin K /\ \A m \in K : m \in S[m] /\ S[m] \subseteq K
       /\ \A m \in K : \A x \in S[m] : S[x] \subseteq S[m] /\ (x # m => Par(g, x) \in S[m])
       /\ \A m \in K : Par(g, m) = Null <=> m = r
       /\ r \in K /\ S[r] = K
  BY <1>1, InTree
<1>3C. c # Null => c \in K2
  BY DEF BareIn
<1> HIDE DEF S2, K2
<1>4. RootedAt(g2, K2, S2, r2)
  <2>1. CASE n = r /\ c = Null
    <3>1. K = {n}
      BY <2>1 DEF BareIn
    <3> QED BY <2>1, <3>1 DEF K2, RootedAt
  <2>2. CASE n = r /\ c # Null
    <3>1. c \in K2 /\ S[c] = K \ {n} /\ p = Null
      BY <2>2, <1>3C DEF BareIn
    <3>2. S2[c] = K2 /\ Par(g2, c) = Null
      BY <1>2, <1>3A, <3>1 DEF K2
    <3> QED BY <2>2, <3>1, <3>2 DEF RootedAt
  <2>3. CASE n # r
    <3>1. r \in K2 /\ r # c
      BY <1>1, <1>3B, <1>3C, <2>3 DEF BareIn
    <3>2. S2[r] = K2 /\ Par(g2, r) = Null
      BY <1>2, <1>3A, <1>3B, <3>1 DEF K2
    <3> QED BY <2>3, <3>1, <3>2 DEF RootedAt
  <2> QED BY <2>1, <2>2, <2>3
<1>5. Kids(g2, K2, S2)
  <2> SUFFICES ASSUME NEW m \in K2, NEW j \in {L, R} PROVE Kid(g2, K2, S2, m, j)
    BY DEF Kids
  <2> DEFINE q == child(g, m, j)
  <2>1. m \in K /\ m # n
    BY <1>1
  <2>2. q = child(g, m, j)
    OBVIOUS
  <2> HIDE DEF q
  <2>3. child(g2, m, j) = IF q = n THEN c ELSE q
    BY <1>3A, <2>2
  <2>4. q # Null => q \in K /\ Par(g, q) = m /\ S[q] = {k \in S[m] : On(j, k, m)}
    BY <2>1, <2>2, KidIs
  <2>5. q = Null => \A k \in S[m] : ~On(j, k, m)
    BY <2>1, <2>2, NoKid
  <2>6. CASE q = n /\ c = Null
    <3>1. {k \in S[m] : On(j, k, m)} = {n}
      BY <1>1, <1>3B, <2>4, <2>6 DEF BareIn
    <3> QED BY <1>2, <2>3, <2>6, <3>1 DEF Kid
  <2>7. CASE q = n /\ c # Null
    <3>1. Par(g, n) = m /\ S[n] = {k \in S[m] : On(j, k, m)}
      BY <1>1, <1>3B, <2>4, <2>7
    <3>2. S[c] = S[n] \ {n} /\ c \in K2
      BY <2>7, <1>3C DEF BareIn
    <3>3. Par(g2, c) = m
      <4>1. p = m
        BY <3>1 DEF BareIn
      <4> QED BY <3>2, <4>1, <1>3A
    <3>4. S2[c] = {k \in S2[m] : On(j, k, m)}
      BY <1>2, <3>1, <3>2
    <3>5. child(g2, m, j) = c
      BY <2>3, <2>7
    <3> QED BY <2>7, <3>2, <3>3, <3>4, <3>5 DEF Kid
  <2>8. CASE q = Null
    <3>1. child(g2, m, j) = Null
      BY <1>1, <1>3B, <2>3, <2>8
    <3> QED BY <1>2, <2>5, <2>8, <3>1 DEF Kid
  <2>9. CASE q # n /\ q # Null
    <3>1. q \in K2 /\ q # c /\ child(g2, m, j) = q
      BY <1>1, <2>1, <2>3, <2>4, <2>9 DEF BareIn
    <3>2. Par(g2, q) = m
      BY <1>3A, <2>4, <2>9, <3>1
    <3>3. S2[q] = {k \in S2[m] : On(j, k, m)}
      BY <1>2, <2>4, <2>9, <3>1
    <3> QED BY <2>9, <3>1, <3>2, <3>3 DEF Kid
  <2> QED BY <2>6, <2>7, <2>8, <2>9
<1>6. Parents(g2, K2, r2)
  <2> SUFFICES ASSUME NEW m \in K2 \ {r2}
               PROVE  Par(g2, m) \in K2 /\ \E j \in {L, R} : child(g2, Par(g2, m), j) = m
    BY DEF Parents
  <2>1. CASE m = c
    <3>1. n # r
      BY <2>1
    <3>2. p \in K2 /\ \E j \in {L, R} : child(g, p, j) = n
      BY <3>1, <1>1 DEF BareIn
    <3>3. Par(g2, m) = p
      BY <1>3A, <2>1
    <3> QED BY <1>3A, <2>1, <3>2, <3>3
  <2>2. CASE m # c
    <3>1. m \in K /\ m # n /\ m # r
      BY <1>1
    <3>2. Par(g, m) \in K /\ \E j \in {L, R} : child(g, Par(g, m), j) = m
      BY <3>1 DEF Tree, Parents
    <3>3. Par(g, m) # n
      BY <2>2, <3>1 DEF BareIn
    <3>4. Par(g2, m) = Par(g, m) /\ Par(g, m) \in K2
      BY <1>1, <1>3A, <2>2, <3>2, <3>3
    <3> QED BY <1>3A, <3>1, <3>2, <3>4
  <2> QED BY <2>1, <2>2
<1>7. Upward(g2, K2, S2)
  <2> SUFFICES ASSUME NEW x \in K2, NEW m \in S2[x] \ {x} PROVE Par(g2, m) \in S2[x]
    BY DEF Upward
  <2>1. x \in K /\ x # n /\ m \in S[x] /\ m # x /\ m # n /\ S2[x] = S[x] \ {n} /\ m \in K
    BY <1>1, <1>2, <1>3B
  <2>2. Par(g, m) \in S[x]
    BY <1>3B, <2>1
  <2>2A. m \in K2
    BY <1>1, <2>1
  <2>3. CASE m = c
    <3>1. n \in S[x]
      BY <1>3B, <1>3C, <2>2, <2>3, <2>1 DEF BareIn
    <3>2. p \in S[x] /\ n # r
      BY <2>1, <3>1 DEF BareIn
    <3>3. p # n
      BY <3>2 DEF BareIn
    <3> QED BY <1>3A, <2>1, <2>2A, <2>3, <3>2, <3>3
  <2>4. CASE m # c
    <3>1. Par(g, m) # n
      BY <2>1, <2>4 DEF BareIn
    <3> QED BY <1>3A, <2>1, <2>2, <2>2A, <2>4, <3>1
  <2> QED BY <2>3, <2>4
<1> QED BY <1>3, <1>4, <1>5, <1>6, <1>7 DEF Tree, S2, K2

\* X for n, and any other as it is.
Sub(n, X, m) == IF m = n THEN X ELSE m
\* X is where n was in the order of the keys.
Takes(K, n, X) ==
    /\ n \in K /\ X \in Nodes /\ X \notin K
    /\ \A m \in K \ {n} : \A j \in {L, R} : On(j, m, n) <=> On(j, m, X)
Renamed(g, g2, K, n, X) ==
    \A m \in K : /\ Par(g2, Sub(n, X, m)) = Sub(n, X, Par(g, m))
                 /\ \A j \in {L, R} : child(g2, Sub(n, X, m), j) = Sub(n, X, child(g, m, j))
Renaming(K, S, n, X) == [m \in (K \ {n}) \cup {X} |-> {Sub(n, X, x) : x \in S[Sub(X, n, m)]}]

\* The names of K are those of K2, in the same order and below the same nodes.
Same(K, S, K2, S2, n, X) ==
    /\ \A m \in K : Sub(n, X, m) \in K2 /\ Sub(n, X, m) # Null
    /\ \A m2 \in K2 : \E m \in K : m2 = Sub(n, X, m)
    /\ \A m \in K : \A x \in K \cup {Null} : Sub(n, X, m) = Sub(n, X, x) => m = x
    /\ Sub(n, X, Null) = Null
    /\ \A m, x \in K : Sub(n, X, x) \in S2[Sub(n, X, m)] <=> x \in S[m]
    /\ \A m \in K, j \in {L, R}, x \in K : On(j, Sub(n, X, x), Sub(n, X, m)) <=> On(j, x, m)
    /\ K2 \subseteq Nodes /\ S2 \in [K2 -> SUBSET K2]

\* A renaming of two keys.
LEMMA RenamingIs ==
    ASSUME NEW g, NEW K, NEW S, NEW r, Tree(g, K, S, r), NEW n, NEW X, Takes(K, n, X)
    PROVE  Same(K, S, (K \ {n}) \cup {X}, Renaming(K, S, n, X), n, X)
<1> DEFINE K2 == (K \ {n}) \cup {X}
           S2 == Renaming(K, S, n, X)
<1>1. K \subseteq Nodes /\ Null \notin K /\ X # Null /\ X \in Nodes /\ n \in K /\ X \notin K /\ Null \notin Nodes
  <2>1. K \subseteq Nodes /\ Null \notin K
    BY InTree
  <2>2. Null \notin Nodes
    BY KeysArePositive
  <2>3. n \in K /\ X \in Nodes /\ X \notin K
    BY DEF Takes
  <2> QED BY <2>1, <2>2, <2>3
<1>2. /\ \A m \in K : Sub(n, X, m) \in K2 /\ Sub(n, X, m) # Null /\ Sub(X, n, Sub(n, X, m)) = m
      /\ \A m2 \in K2 : Sub(X, n, m2) \in K /\ m2 = Sub(n, X, Sub(X, n, m2))
      /\ \A m \in K : \A x \in K \cup {Null} : Sub(n, X, m) = Sub(n, X, x) => m = x
      /\ Sub(n, X, Null) = Null
  BY <1>1 DEF Sub
<1>3. \A m2 \in K2 : S2[m2] = {Sub(n, X, x) : x \in S[Sub(X, n, m2)]}
  BY DEF Renaming
<1>4. \A m \in K : S[m] \subseteq K
  BY InTree
<1>5. K2 \subseteq Nodes
  BY <1>1
<1>6. \A m \in K, j \in {L, R}, x \in K : On(j, Sub(n, X, x), Sub(n, X, m)) <=> On(j, x, m)
  <2> SUFFICES ASSUME NEW m \in K, NEW j \in {L, R}, NEW x \in K
               PROVE  On(j, Sub(n, X, x), Sub(n, X, m)) <=> On(j, x, m)
    OBVIOUS
  <2>1. CASE m = n /\ x = n
    BY <1>1, <2>1, Orders DEF Sub
  <2>2. CASE m = n /\ x # n
    BY <2>2 DEF Sub, Takes
  <2>3. CASE m # n /\ x = n
    <3>1. Other(j) \in {L, R} /\ Other(Other(j)) = j
      BY Sides
    <3>2. On(Other(j), m, n) <=> On(Other(j), m, X)
      BY <2>3, <3>1 DEF Takes
    <3>3. (On(j, n, m) <=> On(Other(j), m, n)) /\ (On(j, X, m) <=> On(Other(j), m, X))
      BY <1>1, Orders
    <3> QED BY <2>3, <3>2, <3>3 DEF Sub
  <2>4. CASE m # n /\ x # n
    BY <2>4 DEF Sub
  <2> QED BY <2>1, <2>2, <2>3, <2>4
<1>9. DOMAIN S2 = K2 /\ S2 = [m \in K2 |-> S2[m]]
  BY DEF Renaming
<1> HIDE DEF K2, S2
<1>7. \A m, x \in K : Sub(n, X, x) \in S2[Sub(n, X, m)] <=> x \in S[m]
  BY <1>2, <1>3, <1>4
<1>8. \A m2 \in K2 : S2[m2] \in SUBSET K2
  BY <1>2, <1>3, <1>4
<1>10. S2 \in [K2 -> SUBSET K2]
  BY <1>8, <1>9
<1>11. Same(K, S, K2, S2, n, X)
  BY <1>2, <1>5, <1>6, <1>7, <1>10 DEF Same
<1> QED BY <1>11 DEF K2, S2

\* The shape of a tree is kept by a renaming that keeps the order.
LEMMA SameIsTree ==
    ASSUME NEW g, NEW K, NEW S, NEW r, Tree(g, K, S, r), NEW n \in K, NEW X, NEW K2, NEW S2,
           Same(K, S, K2, S2, n, X), NEW g2, Renamed(g, g2, K, n, X)
    PROVE  Tree(g2, K2, S2, Sub(n, X, r))
<1> DEFINE sub(m) == Sub(n, X, m)
<1>1. /\ Null \notin K /\ r \in K /\ S[r] = K
      /\ \A m \in K : m \in S[m] /\ S[m] \subseteq K
      /\ \A m \in K : \A x \in S[m] : S[x] \subseteq S[m] /\ (x # m => Par(g, x) \in S[m])
      /\ \A m \in K : Par(g, m) = Null <=> m = r
  BY InTree
<1>2. /\ \A m \in K : sub(m) \in K2 /\ sub(m) # Null
      /\ \A m2 \in K2 : \E m \in K : m2 = sub(m)
      /\ \A m \in K : \A x \in K \cup {Null} : sub(m) = sub(x) => m = x
      /\ sub(Null) = Null
      /\ \A m, x \in K : sub(x) \in S2[sub(m)] <=> x \in S[m]
      /\ \A m \in K, j \in {L, R}, x \in K : On(j, sub(x), sub(m)) <=> On(j, x, m)
      /\ K2 \subseteq Nodes /\ S2 \in [K2 -> SUBSET K2]
  BY DEF Same
<1>3. \A m \in K : Par(g2, sub(m)) = sub(Par(g, m)) /\ \A j \in {L, R} : child(g2, sub(m), j) = sub(child(g, m, j))
  BY DEF Renamed
<1> HIDE DEF sub
<1>4. \A m \in K : S2[sub(m)] \subseteq K2
  BY <1>2
<1>5. Spans(K2, S2)
  <2>1. \A m2 \in K2 : m2 \in S2[m2]
    BY <1>1, <1>2
  <2> QED BY <1>2, <2>1 DEF Spans
<1>6. Nested(K2, S2)
  <2> SUFFICES ASSUME NEW a \in K2, NEW b \in S2[a], NEW x \in S2[b] PROVE x \in S2[a]
    BY DEF Nested
  <2>0. b \in K2
    BY <1>2
  <2>1. PICK a0 \in K : a = sub(a0)
    BY <1>2
  <2>2. PICK b0 \in K : b = sub(b0)
    BY <1>2, <2>0
  <2>3. x \in K2
    BY <1>2, <2>0
  <2>4. PICK x0 \in K : x = sub(x0)
    BY <1>2, <2>3
  <2> QED BY <1>1, <1>2, <2>1, <2>2, <2>4
<1>7. Apart(K2, S2)
  <2> SUFFICES ASSUME NEW a \in K2, NEW x \in S2[a], NEW z \in S2[a], NEW w \in K2 \ S2[a], NEW j \in {L, R},
                      On(j, w, x)
               PROVE  On(j, w, z)
    BY DEF Apart
  <2>1. PICK a0 \in K : a = sub(a0)
    BY <1>2
  <2>2. x \in K2 /\ z \in K2
    BY <1>2
  <2>3. PICK x0 \in K : x = sub(x0)
    BY <1>2, <2>2
  <2>4. PICK z0 \in K : z = sub(z0)
    BY <1>2, <2>2
  <2>5. PICK w0 \in K : w = sub(w0)
    BY <1>2
  <2>6. x0 \in S[a0] /\ z0 \in S[a0] /\ w0 \notin S[a0] /\ On(j, w0, x0)
    BY <1>2, <2>1, <2>3, <2>4, <2>5
  <2>7. On(j, w0, z0)
    BY <2>6 DEF Tree, Apart
  <2> QED BY <1>2, <2>4, <2>5, <2>7
<1>8. RootedAt(g2, K2, S2, sub(r))
  <2>1. sub(r) \in K2 /\ Par(g2, sub(r)) = Null
    BY <1>1, <1>2, <1>3
  <2>2. S2[sub(r)] = K2
    <3>1. \A m2 \in K2 : m2 \in S2[sub(r)]
      <4> TAKE m2 \in K2
      <4>1. PICK m \in K : m2 = sub(m)
        BY <1>2
      <4> QED BY <1>1, <1>2, <4>1
    <3>2. S2[sub(r)] \subseteq K2
      BY <1>1, <1>4
    <3> QED BY <3>1, <3>2
  <2> QED BY <2>1, <2>2 DEF RootedAt
<1>9. Kids(g2, K2, S2)
  <2> SUFFICES ASSUME NEW m2 \in K2, NEW j \in {L, R} PROVE Kid(g2, K2, S2, m2, j)
    BY DEF Kids
  <2>1. PICK m \in K : m2 = sub(m)
    BY <1>2
  <2>2. child(g2, m2, j) = sub(child(g, m, j))
    BY <1>3, <2>1
  <2>3. CASE child(g, m, j) = Null
    <3>1. \A k \in S[m] : ~On(j, k, m)
      BY <2>3, NoKid
    <3>2. \A k2 \in S2[m2] : ~On(j, k2, m2)
      <4> SUFFICES ASSUME NEW k2 \in S2[m2] PROVE ~On(j, k2, m2)
        OBVIOUS
      <4>1. k2 \in K2
        BY <1>2
      <4>2. PICK k \in K : k2 = sub(k)
        BY <1>2, <4>1
      <4> QED BY <1>2, <2>1, <3>1, <4>2
    <3> QED BY <1>2, <2>2, <2>3, <3>2 DEF Kid
  <2>4. CASE child(g, m, j) # Null
    <3> DEFINE q == child(g, m, j)
    <3>1. q \in K /\ Par(g, q) = m /\ S[q] = {k \in S[m] : On(j, k, m)}
      BY <2>4, KidIs
    <3>1A. child(g2, m2, j) = sub(q)
      BY <2>2
    <3> HIDE DEF q
    <3>2. sub(q) \in K2 /\ sub(q) # Null /\ Par(g2, sub(q)) = m2
      BY <1>2, <1>3, <2>1, <3>1
    <3>3. S2[sub(q)] = {k \in S2[m2] : On(j, k, m2)}
      <4>1. ASSUME NEW x \in K2 PROVE x \in S2[sub(q)] <=> x \in S2[m2] /\ On(j, x, m2)
        <5>1. PICK x0 \in K : x = sub(x0)
          BY <1>2
        <5> QED BY <1>2, <2>1, <3>1, <5>1
      <4>2. S2[sub(q)] \subseteq K2 /\ S2[m2] \subseteq K2
        BY <1>2, <3>2
      <4> QED BY <4>1, <4>2
    <3> QED BY <3>1A, <3>2, <3>3 DEF Kid
  <2> QED BY <2>3, <2>4
<1>10. Parents(g2, K2, sub(r))
  <2> SUFFICES ASSUME NEW m2 \in K2 \ {sub(r)}
               PROVE  Par(g2, m2) \in K2 /\ \E j \in {L, R} : child(g2, Par(g2, m2), j) = m2
    BY DEF Parents
  <2>1. PICK m \in K : m2 = sub(m)
    BY <1>2
  <2>2. m # r
    BY <2>1
  <2>3. Par(g, m) \in K /\ \E j \in {L, R} : child(g, Par(g, m), j) = m
    BY <2>2 DEF Tree, Parents
  <2> QED BY <1>2, <1>3, <2>1, <2>3
<1>11. Upward(g2, K2, S2)
  <2> SUFFICES ASSUME NEW a \in K2, NEW b \in S2[a] \ {a} PROVE Par(g2, b) \in S2[a]
    BY DEF Upward
  <2>1. PICK a0 \in K : a = sub(a0)
    BY <1>2
  <2>2. b \in K2
    BY <1>2
  <2>3. PICK b0 \in K : b = sub(b0)
    BY <1>2, <2>2
  <2>4. b0 \in S[a0] /\ b0 # a0
    BY <1>2, <2>1, <2>3
  <2>5. Par(g, b0) \in S[a0] /\ Par(g, b0) \in K
    BY <1>1, <2>4
  <2> QED BY <1>2, <1>3, <2>1, <2>3, <2>5
<1> QED BY <1>5, <1>6, <1>7, <1>8, <1>9, <1>10, <1>11 DEF Tree, sub

\* X is next to n and below it.
Succeeds(g, K, S, r, n, X) ==
    /\ n \in K /\ X \in K /\ X # n /\ X \in S[n] /\ n \notin S[X] /\ X # r
    /\ child(g, X, L) = Null /\ On(R, X, n)
    /\ \A m \in K \ {n, X} : \A j \in {L, R} : On(j, m, n) <=> On(j, m, X)

\* The next key of a node with two children is below it, on the right and leftmost.
LEMMA SuccessorIs ==
    ASSUME NEW g, NEW K, NEW S, NEW r, Tree(g, K, S, r), Threads(g, K), NEW n \in K,
           child(g, n, R) # Null
    PROVE  Succeeds(g, K, S, r, n, Dir(g, n, R))
<1> DEFINE X == Dir(g, n, R)
           q == child(g, n, R)
<1>1. L \in {L, R} /\ R \in {L, R} /\ Other(L) = R /\ Other(R) = L
  BY DEF L, R, Other
<1>2. q \in K /\ S[q] = {k \in S[n] : On(R, k, n)} /\ q \in S[n]
  BY <1>1, KidIs, KidBelow
<1>3. K \subseteq Nodes /\ Null \notin K /\ \A m \in K : m \in S[m] /\ S[m] \subseteq K
  BY InTree
<1>4. On(R, q, n)
  BY <1>2, <1>3
<1>5. Thread(g, K, n, R)
  BY <1>1 DEF Threads
<1>6. X \in K /\ On(R, X, n) /\ \A k \in K : On(R, k, n) => k = X \/ On(R, k, X)
  BY <1>2, <1>4, <1>5 DEF Thread
<1> HIDE DEF X, q
<1>7. X # n
  BY <1>1, <1>3, <1>6, Orders
<1>8. X \in S[n]
  <2> SUFFICES ASSUME X \notin S[n] PROVE FALSE
    OBVIOUS
  <2>1. On(R, X, q)
    <3>1. Apart(K, S)
      BY DEF Tree
    <3> QED BY <1>1, <1>2, <1>3, <1>6, <3>1 DEF Apart
  <2>2. q = X \/ On(R, q, X)
    BY <1>2, <1>4, <1>6
  <2>3. q # X
    BY <1>2
  <2>4. On(L, X, q)
    BY <1>1, <1>2, <1>3, <1>6, <2>2, <2>3, Orders
  <2> QED BY <1>1, <1>2, <1>3, <1>6, <2>1, <2>4, Orders
<1>9. n \notin S[X]
  BY <1>6, <1>7, <1>8, Above
<1>10. X # r
  BY <1>3, <1>9, InTree
<1>11. child(g, X, L) = Null
  <2> DEFINE w == child(g, X, L)
  <2> SUFFICES ASSUME w # Null PROVE FALSE
    OBVIOUS
  <2>1. w \in K /\ S[w] = {k \in S[X] : On(L, k, X)} /\ w \in S[w]
    BY <1>1, <1>3, <1>6, KidIs
  <2> HIDE DEF w
  <2>2. w \in S[X] /\ On(L, w, X)
    BY <2>1
  <2>3. X \in S[q]
    BY <1>2, <1>6, <1>8
  <2>4. S[X] \subseteq S[q]
    BY <1>2, <2>3, InTree
  <2>5. On(R, w, n)
    BY <1>2, <2>2, <2>4
  <2>6. w = X \/ On(R, w, X)
    BY <1>6, <2>1, <2>5
  <2> QED BY <1>1, <1>3, <1>6, <2>1, <2>2, <2>6, Orders
<1>12. ASSUME NEW m \in K \ {n, X}, NEW j \in {L, R}
       PROVE  On(j, m, n) <=> On(j, m, X)
  <2>1. On(R, m, n) <=> On(R, m, X)
    BY <1>1, <1>3, <1>6, Orders
  <2>2. (On(L, m, n) <=> ~On(R, m, n)) /\ (On(L, m, X) <=> ~On(R, m, X))
    BY <1>1, <1>3, <1>6, Orders
  <2> QED BY <2>1, <2>2
<1>13. Succeeds(g, K, S, r, n, X)
  BY <1>6, <1>7, <1>8, <1>9, <1>10, <1>11, <1>12 DEF Succeeds
<1> QED BY <1>13 DEF X

\* g2 has X in the place of n, and c in that of X.
Promoted(g, g2, K, n, X, c, p) ==
    \A m \in K \ {X} :
       /\ Par(g2, Sub(n, X, m)) = Sub(n, X, IF m = c THEN p ELSE Par(g, m))
       /\ \A j \in {L, R} : child(g2, Sub(n, X, m), j) = Sub(n, X, IF child(g, m, j) = X THEN c ELSE child(g, m, j))
\* The shape that this leaves.
Moved(K, S, n, X) == Renaming(K \ {X}, Without(K, S, X), n, X)
Promotes(g2, K, S, r, n, X, S2) ==
    /\ Tree(g2, K \ {n}, S2, Sub(n, X, r))
    /\ \A m \in K \ {X} : \A x \in K \ {X} : x \in S[m] => Sub(n, X, x) \in S2[Sub(n, X, m)]

\* The tree with the next key in the place of n, and without n.
LEMMA PromotedTree ==
    ASSUME NEW g, NEW K, NEW S, NEW r, Tree(g, K, S, r), NEW n, NEW X, Succeeds(g, K, S, r, n, X),
           NEW g2, Promoted(g, g2, K, n, X, child(g, X, R), Par(g, X))
    PROVE  Promotes(g2, K, S, r, n, X, Moved(K, S, n, X))
<1> DEFINE c == child(g, X, R)
           p == Par(g, X)
           K1 == K \ {X}
           S1 == Without(K, S, X)
           S2 == Moved(K, S, n, X)
           gx == [node |-> [m \in Nodes |-> [par |-> IF m = c THEN p ELSE Par(g, m),
                              cld |-> [j \in {L, R} |-> IF child(g, m, j) = X THEN c ELSE child(g, m, j)]]]]
<1>1. K \subseteq Nodes
  BY InTree
<1>2. /\ \A m \in Nodes : /\ Par(gx, m) = IF m = c THEN p ELSE Par(g, m)
                          /\ \A j \in {L, R} : child(gx, m, j) = IF child(g, m, j) = X THEN c ELSE child(g, m, j)
  BY DEF Par, child
<1> HIDE DEF gx
<1>3. Bypassed(g, gx, K, X, c, p)
  BY <1>1, <1>2 DEF Bypassed
<1>4. Bare(g, X, L, c, p)
  BY DEF Bare, Succeeds, Other, L, R
<1>5. X \in K /\ X # r /\ n \in K1 /\ X \notin K1 /\ X \in Nodes
  BY <1>1 DEF Succeeds
<1>6. Renamed(gx, g2, K1, n, X)
  BY <1>1, <1>2 DEF Promoted, Renamed
<1> HIDE DEF c, p
<1>7. BareIn(g, K, S, r, X, L, c, p)
  BY <1>4, <1>5, Bares
<1>8. Tree(gx, K1, S1, r)
  <2>1. Tree(gx, K \ {X}, Without(K, S, X), IF X = r THEN c ELSE r)
    BY <1>3, <1>7, BypassTree
  <2> QED BY <1>5, <2>1
<1>9. Takes(K1, n, X)
  BY <1>5 DEF Takes, Succeeds
<1>10. Same(K1, S1, (K1 \ {n}) \cup {X}, S2, n, X)
  <2> HIDE DEF K1, S1
  <2>1. S2 = Renaming(K1, S1, n, X)
    BY DEF Moved, K1, S1
  <2>2. Same(K1, S1, (K1 \ {n}) \cup {X}, Renaming(K1, S1, n, X), n, X)
    BY <1>8, <1>9, RenamingIs
  <2> QED BY <2>1, <2>2
<1>11. (K1 \ {n}) \cup {X} = K \ {n}
  BY <1>5 DEF Succeeds
<1>12. \A m \in K1 : S1[m] = S[m] \ {X}
  BY DEF Without
<1> HIDE DEF K1, S1, S2
<1>13. Tree(g2, K \ {n}, S2, Sub(n, X, r))
  <2>1. Same(K1, S1, K \ {n}, S2, n, X) /\ n \in K1
    BY <1>5, <1>10, <1>11
  <2> QED BY <1>6, <1>8, <2>1, SameIsTree
<1>14. \A m, x \in K1 : x \in S[m] => Sub(n, X, x) \in S2[Sub(n, X, m)]
  BY <1>5, <1>10, <1>12 DEF Same
<1>15. Promotes(g2, K, S, r, n, X, S2)
  BY <1>13, <1>14 DEF Promotes, K1
<1> QED BY <1>15 DEF S2

Swap(a, b, m) == IF m = a THEN b ELSE IF m = b THEN a ELSE m
SwapsTo(g, g2, t, a, b) ==
    /\ g2 \in Heaps /\ g2.live = g.live /\ g2.failed = g.failed
    /\ g2.root = IF Par(g, a) \in {Null, b} /\ Par(g, b) \in {Null, a} THEN g.root
                 ELSE [g.root EXCEPT ![t] = Swap(a, b, g.root[t])]
    /\ \A m \in Nodes :
          /\ g2.node[m].sz = g.node[m].sz /\ Val(g2, m) = Val(g, m) /\ g2.node[m].height = g.node[m].height
          /\ Par(g2, m) = Swap(a, b, Par(g, Swap(a, b, m)))
          /\ \A j \in {L, R} : /\ Dir(g2, m, j) = Dir(g, m, j)
                               /\ child(g2, m, j) = Swap(a, b, child(g, Swap(a, b, m), j))
    /\ \A m \in Nodes : Par(g2, m) = Par(g, m) /\ (\A j \in {L, R} : child(g2, m, j) = child(g, m, j))
                        => g2.node[m] = g.node[m]

SwapNode(g, a, b, m) ==
    [g.node[m] EXCEPT
       !.cld = <<Swap(a, b, g.node[Swap(a, b, m)].cld[L]), Swap(a, b, g.node[Swap(a, b, m)].cld[R])>>,
       !.par = Swap(a, b, g.node[Swap(a, b, m)].par)]
NodeSwaps(g, a, b, m, q) ==
    /\ q \in Node /\ q.sz = g.node[m].sz /\ q.val = g.node[m].val /\ q.height = g.node[m].height
    /\ q.dir = g.node[m].dir /\ q.par = Swap(a, b, g.node[Swap(a, b, m)].par)
    /\ \A j \in {L, R} : q.cld[j] = Swap(a, b, g.node[Swap(a, b, m)].cld[j])
    /\ q.par = g.node[m].par /\ (\A j \in {L, R} : q.cld[j] = g.node[m].cld[j]) => q = g.node[m]

\* The links after swap_positions.
LEMMA SwapLinks ==
    ASSUME NEW g \in Heaps, NEW a \in Nodes, NEW b \in Nodes, NEW m \in Nodes
    PROVE  NodeSwaps(g, a, b, m, SwapNode(g, a, b, m))
<1> DEFINE o == g.node[Swap(a, b, m)]
           x == Swap(a, b, o.cld[L])
           y == Swap(a, b, o.cld[R])
           c == <<x, y>>
           p == Swap(a, b, o.par)
           q == [g.node[m] EXCEPT !.cld = c, !.par = p]
<1>1. \A z \in Links : Swap(a, b, z) \in Links
  BY DEF Swap, Links
<1>2. Swap(a, b, m) \in Nodes
  BY DEF Swap
<1>3. o \in Node /\ g.node[m] \in Node
  BY <1>2, NodeTypes
<1> HIDE DEF o
<1>4. x \in Links /\ y \in Links /\ p \in Links
  BY <1>1, <1>3 DEF Node
<1>5. \A j \in {L, R} : c[j] = Swap(a, b, o.cld[j])
  BY DEF L, R
<1> HIDE DEF x, y, p
<1>6. c \in [{L, R} -> Links]
  BY <1>4, PairOfLinks
<1> HIDE DEF c
<1>7. /\ q \in Node /\ q.sz = g.node[m].sz /\ q.val = g.node[m].val /\ q.height = g.node[m].height
      /\ q.dir = g.node[m].dir /\ q.par = p /\ q.cld = c
  BY <1>3, <1>4, <1>6 DEF Node
<1>8. ASSUME p = g.node[m].par, \A j \in {L, R} : c[j] = g.node[m].cld[j]
      PROVE  q = g.node[m]
  <2>1. c = g.node[m].cld
    BY <1>3, <1>6, <1>8 DEF Node
  <2> QED BY <1>3, <1>8, <2>1 DEF Node
<1> HIDE DEF q
<1>9. NodeSwaps(g, a, b, m, q)
  BY <1>5, <1>7, <1>8 DEF NodeSwaps, o, p
<1> QED BY <1>9 DEF o, x, y, p, c, q, SwapNode

\* All that swap_positions writes.
LEMMA SwapSets ==
    ASSUME NEW g \in Heaps, NEW t \in Trees, NEW a \in Nodes, NEW b \in Nodes
    PROVE  SwapsTo(g, swap_positions(g, t, a, b), t, a, b)
<1> DEFINE q(m) == SwapNode(g, a, b, m)
           twice == Par(g, a) \in {Null, b} /\ Par(g, b) \in {Null, a}
           F == [m \in Nodes |-> q(m)]
           W == IF twice THEN g.root ELSE [g.root EXCEPT ![t] = Swap(a, b, g.root[t])]
           g2 == swap_positions(g, t, a, b)
<1>1. g2 = [g EXCEPT !.node = F, !.root[t] = IF twice THEN @ ELSE Swap(a, b, @)]
  BY DEF swap_positions, Swap, Par, SwapNode
<1>2. \A m \in Nodes : NodeSwaps(g, a, b, m, q(m))
  BY SwapLinks
<1> HIDE DEF q
<1>3. F \in [Nodes -> Node] /\ \A m \in Nodes : F[m] = q(m)
  BY <1>2 DEF NodeSwaps
<1>4. W \in [Trees -> Links]
  <2>1. g.root \in [Trees -> Links]
    BY NodeTypes
  <2>2. Swap(a, b, g.root[t]) \in Links
    BY <2>1 DEF Swap, Links
  <2> QED BY <2>1, <2>2
<1>5. g2 = [g EXCEPT !.node = F, !.root = W]
  <2> HIDE DEF F, twice, g2
  <2>1. g.root \in [Trees -> Links]
    BY NodeTypes
  <2>2. W = [g.root EXCEPT ![t] = IF twice THEN g.root[t] ELSE Swap(a, b, g.root[t])]
    BY <2>1
  <2> HIDE DEF W
  <2> DEFINE w == IF twice THEN g.root[t] ELSE Swap(a, b, g.root[t])
  <2>3. g2 = [g EXCEPT !.node = F, !.root[t] = w]
    BY <1>1, <2>1
  <2>4. W = [g.root EXCEPT ![t] = w]
    BY <2>2
  <2> HIDE DEF w
  <2> QED BY <2>3, <2>4 DEF Heaps
<1> HIDE DEF g2, F
<1>6. W = IF twice THEN g.root ELSE [g.root EXCEPT ![t] = Swap(a, b, g.root[t])]
  OBVIOUS
<1> HIDE DEF W, twice
<1>7. /\ g2 \in Heaps /\ g2.node = F /\ g2.root = W /\ g2.live = g.live /\ g2.fault = g.fault
      /\ g2.failed = g.failed
  BY <1>3, <1>4, <1>5 DEF Heaps
<1>8. \A m \in Nodes : g2.node[m] = q(m)
  BY <1>3, <1>7
<1>9. \A m \in Nodes :
          /\ g2.node[m].sz = g.node[m].sz /\ Val(g2, m) = Val(g, m) /\ g2.node[m].height = g.node[m].height
          /\ Par(g2, m) = Swap(a, b, Par(g, Swap(a, b, m)))
          /\ \A j \in {L, R} : /\ Dir(g2, m, j) = Dir(g, m, j)
                               /\ child(g2, m, j) = Swap(a, b, child(g, Swap(a, b, m), j))
  BY <1>2, <1>8 DEF NodeSwaps, Val, Par, Dir, child
<1>10. \A m \in Nodes : Par(g2, m) = Par(g, m) /\ (\A j \in {L, R} : child(g2, m, j) = child(g, m, j))
                        => g2.node[m] = g.node[m]
  BY <1>2, <1>8 DEF NodeSwaps, Par, child
<1>11. g2.root = IF twice THEN g.root ELSE [g.root EXCEPT ![t] = Swap(a, b, g.root[t])]
  BY <1>6, <1>7
<1>12. SwapsTo(g, g2, t, a, b)
  BY <1>7, <1>9, <1>10, <1>11 DEF SwapsTo, twice
<1> QED BY <1>12 DEF g2

ReplacesTo(g, g2, t, p, n, c) ==
    /\ g2 \in Heaps /\ g2.live = g.live /\ g2.failed = g.failed
    /\ g2.root = IF p = Null THEN [g.root EXCEPT ![t] = IF g.root[t] = n THEN c ELSE g.root[t]] ELSE g.root
    /\ \A m \in Nodes :
          /\ g2.node[m].sz = g.node[m].sz /\ Val(g2, m) = Val(g, m) /\ g2.node[m].height = g.node[m].height
          /\ Par(g2, m) = IF m = c THEN p ELSE Par(g, m)
          /\ \A j \in {L, R} : /\ Dir(g2, m, j) = Dir(g, m, j)
                               /\ child(g2, m, j) = IF m = p /\ j = (IF child(g, p, L) = n THEN L ELSE R) THEN c
                                                    ELSE child(g, m, j)
    /\ \A m \in Nodes \ {c, p} : g2.node[m] = g.node[m]

\* All that replace_child writes.
LEMMA ReplaceSets ==
    ASSUME NEW g \in Heaps, NEW t \in Trees, NEW p \in Links, NEW n \in Nodes, NEW c \in Links
    PROVE  ReplacesTo(g, replace_child(g, t, p, n, c), t, p, n, c)
<1> DEFINE g1 == SetPar(g, c, p)
           g2 == replace_child(g, t, p, n, c)
           s == IF child(g, p, L) = n THEN L ELSE R
<1>1. ParIsSet(g, g1, c, p)
  BY SetParSets
<1>2. g2 = IF p = Null THEN [g1 EXCEPT !.root[t] = IF @ = n THEN c ELSE @]
           ELSE IF child(g1, p, L) = n THEN [g1 EXCEPT !.node[p].cld[L] = c]
           ELSE Checked([g1 EXCEPT !.node[p].cld[R] = c], child(g1, p, R) = n)
  BY DEF replace_child
<1> HIDE DEF g1, g2
<1> SUFFICES ReplacesTo(g, g2, t, p, n, c)
  BY DEF g2
<1>3. /\ g1 \in Heaps /\ g1.root = g.root /\ g1.live = g.live /\ g1.failed = g.failed
      /\ \A m \in Nodes :
            /\ g1.node[m].cld = g.node[m].cld /\ g1.node[m].dir = g.node[m].dir
            /\ g1.node[m].val = g.node[m].val /\ g1.node[m].sz = g.node[m].sz
            /\ g1.node[m].height = g.node[m].height
            /\ Par(g1, m) = IF m = c THEN p ELSE Par(g, m)
      /\ \A m \in Nodes \ {c} : g1.node[m] = g.node[m]
  BY <1>1 DEF ParIsSet, SameButNodes
<1>4. CASE p = Null
  <2> DEFINE w == IF g.root[t] = n THEN c ELSE g.root[t]
             W == [g.root EXCEPT ![t] = w]
  <2>1. g.root \in [Trees -> Links]
    BY NodeTypes
  <2>2. w \in Links
    BY <2>1
  <2>3. g2 = [g1 EXCEPT !.root[t] = w]
    BY <1>2, <1>3, <1>4
  <2> HIDE DEF w
  <2>4. g2 = [g1 EXCEPT !.root = W]
    BY <1>3, <2>3 DEF Heaps
  <2>5. W \in [Trees -> Links]
    BY <2>1, <2>2
  <2> HIDE DEF W
  <2>6. g2 \in Heaps /\ g2.node = g1.node /\ g2.root = W /\ g2.live = g1.live /\ g2.failed = g1.failed
    BY <1>3, <2>4, <2>5 DEF Heaps
  <2>7. p \notin Nodes
    BY <1>4, KeysArePositive
  <2> QED BY <1>3, <1>4, <2>6, <2>7 DEF ReplacesTo, Val, Par, Dir, child, W, w
<1>5. CASE p # Null
  <2> DEFINE o == [g1.node[p] EXCEPT !.cld[s] = c]
             ga == [g1 EXCEPT !.node[p].cld[s] = c]
  <2>1. p \in Nodes /\ s \in {L, R}
    BY <1>5 DEF Links
  <2>2. child(g1, p, L) = child(g, p, L)
    BY <1>3, <2>1 DEF child
  <2>3. (g2 = ga \/ g2 = Checked(ga, child(g1, p, R) = n))
    BY <1>2, <1>5, <2>2
  <2> HIDE DEF s
  <2>4. g1.node[p] \in Node
    BY <1>3, <2>1, NodeTypes
  <2>5. ga = WithNode(g1, p, o)
    BY <1>3, <2>1 DEF WithNode, Heaps, Node
  <2>6. /\ o \in Node /\ o.sz = g1.node[p].sz /\ o.par = g1.node[p].par /\ o.val = g1.node[p].val
        /\ o.dir = g1.node[p].dir /\ o.height = g1.node[p].height
        /\ \A j \in {L, R} : o.cld[j] = IF j = s THEN c ELSE g1.node[p].cld[j]
    BY <2>1, <2>4 DEF Node
  <2> HIDE DEF o, ga
  <2>7. /\ ga \in Heaps /\ SameButNodes(g1, ga) /\ ga.node[p] = o
        /\ \A m \in Nodes \ {p} : ga.node[m] = g1.node[m]
    BY <1>3, <2>1, <2>5, <2>6, Replaced
  <2>8. /\ g2 \in Heaps /\ g2.node = ga.node /\ g2.root = ga.root /\ g2.live = ga.live /\ g2.failed = ga.failed
    <3>1. (child(g1, p, R) = n) \in BOOLEAN
      OBVIOUS
    <3> QED BY <2>3, <2>7, CheckedSets
  <2>9. \A m \in Nodes \ {c, p} : g2.node[m] = g.node[m]
    BY <1>3, <2>7, <2>8
  <2>10. ASSUME NEW m \in Nodes
         PROVE  /\ g2.node[m].sz = g.node[m].sz /\ Val(g2, m) = Val(g, m) /\ g2.node[m].height = g.node[m].height
                /\ Par(g2, m) = IF m = c THEN p ELSE Par(g, m)
                /\ \A j \in {L, R} : /\ Dir(g2, m, j) = Dir(g, m, j)
                                     /\ child(g2, m, j) = IF m = p /\ j = s THEN c ELSE child(g, m, j)
    BY <1>3, <2>6, <2>7, <2>8 DEF Val, Par, Dir, child
  <2>11. g2.root = g.root /\ g2.live = g.live /\ g2.failed = g.failed
    BY <1>3, <2>7, <2>8 DEF SameButNodes
  <2> QED BY <1>5, <2>8, <2>9, <2>10, <2>11 DEF ReplacesTo, s
<1> QED BY <1>4, <1>5

\* The threads around n are tied to each other.
Unthreads(g, g2, K, n) ==
    /\ g2 \in Heaps /\ SameButNodes(g, g2)
    /\ \A m \in Nodes :
          /\ g2.node[m].sz = g.node[m].sz /\ Val(g2, m) = Val(g, m) /\ g2.node[m].height = g.node[m].height
          /\ Par(g2, m) = Par(g, m) /\ \A j \in {L, R} : child(g2, m, j) = child(g, m, j)
    /\ \A m \in Nodes \ K : g2.node[m] = g.node[m]
    /\ Threads(g2, K \ {n})

\* The thread without n.
LEMMA ThreadsWithout ==
    ASSUME NEW g, NEW g2, NEW K \in SUBSET Nodes, NEW n \in K, Threads(g, K),
           \A m \in K : \A j \in {L, R} :
              Dir(g2, m, j) = IF m = Dir(g, n, Other(j)) THEN Dir(g, n, j) ELSE Dir(g, m, j)
    PROVE  Threads(g2, K \ {n})
<1> SUFFICES ASSUME NEW m \in K \ {n}, NEW j \in {L, R} PROVE Thread(g2, K \ {n}, m, j)
  BY DEF Threads
<1> DEFINE a == Dir(g, n, j)
           b == Dir(g, n, Other(j))
           d == Dir(g, m, j)
<1>1. Other(j) \in {L, R} /\ \A x, y \in Nodes : /\ On(j, x, y) <=> On(Other(j), y, x)
                                                 /\ ~(On(j, x, y) /\ On(Other(j), x, y))
                                                 /\ x # y => On(j, x, y) \/ On(Other(j), x, y)
  BY Sides, Orders
<1>2. \A x, y, z \in Nodes : On(j, x, y) /\ On(j, y, z) => On(j, x, z)
  BY Orders
<1>3. /\ IF a = Null THEN \A k \in K : ~On(j, k, n)
         ELSE a \in K /\ On(j, a, n) /\ \A k \in K : On(j, k, n) => k = a \/ On(j, k, a)
      /\ IF b = Null THEN \A k \in K : ~On(Other(j), k, n)
         ELSE b \in K /\ On(Other(j), b, n) /\ \A k \in K : On(Other(j), k, n) => k = b \/ On(Other(j), k, b)
      /\ IF d = Null THEN \A k \in K : ~On(j, k, m)
         ELSE d \in K /\ On(j, d, m) /\ \A k \in K : On(j, k, m) => k = d \/ On(j, k, d)
  BY <1>1 DEF Threads, Thread
<1>4. Dir(g2, m, j) = IF m = b THEN a ELSE d
  OBVIOUS
<1>5. Null \notin K
  BY KeysArePositive
<1> HIDE DEF a, b, d
<1>6. CASE m = b
  <2>1. On(j, n, m)
    BY <1>1, <1>3, <1>5, <1>6
  <2>2. ASSUME NEW k \in K \ {n}, On(j, k, m) PROVE On(j, k, n)
    <3> SUFFICES ASSUME ~On(j, k, n) PROVE FALSE
      OBVIOUS
    <3>1. On(Other(j), k, n)
      BY <1>1
    <3>2. k = m \/ On(Other(j), k, m)
      BY <1>3, <1>5, <1>6, <3>1
    <3>3. ~On(j, m, m)
      BY Orders
    <3> QED BY <1>1, <2>2, <3>2, <3>3
  <2>3. a # Null => a \in K \ {n} /\ On(j, a, m)
    <3>1. ~On(j, n, n)
      BY Orders
    <3> QED BY <1>2, <1>3, <2>1, <3>1
  <2> QED BY <1>3, <1>4, <1>6, <2>2, <2>3 DEF Thread
<1>7. CASE m # b
  <2>1. d # n
    <3> SUFFICES ASSUME d = n PROVE FALSE
      OBVIOUS
    <3>1. On(j, n, m) /\ On(Other(j), m, n)
      BY <1>1, <1>3, <1>5
    <3>2. b # Null /\ On(Other(j), m, b) /\ b \in K /\ On(Other(j), b, n)
      BY <1>3, <1>7, <3>1
    <3>3. On(j, b, m)
      BY <1>1, <3>2
    <3>4. b = n \/ On(j, b, n)
      BY <1>3, <1>5, <3>2, <3>3
    <3>5. ~On(Other(j), n, n)
      BY <1>1, Orders
    <3> QED BY <1>1, <3>2, <3>4, <3>5
  <2> QED BY <1>3, <1>4, <1>7, <2>1 DEF Thread
<1> QED BY <1>6, <1>7

\* What taking n out of the thread writes.
LEMMA UnthreadSets ==
    ASSUME NEW g \in Heaps, NEW K \in SUBSET Nodes, NEW n \in K, Threads(g, K)
    PROVE  Unthreads(g, Unthreaded(g, n), K, n)
<1> DEFINE xb == Dir(g, n, L)
           xa == Dir(g, n, R)
           g1 == SetDir(g, xb, R, xa)
           g2 == SetDir(g1, xa, L, xb)
<1>1. L \in {L, R} /\ R \in {L, R} /\ Other(L) = R /\ Other(R) = L /\ L # R /\ \A j \in {L, R} : j = L \/ j = R
  BY DEF L, R, Other
<1>2. xa \in K \cup {Null} /\ xb \in K \cup {Null}
  BY <1>1 DEF Threads, Thread
<1>3. xa \in Links /\ xb \in Links
  BY <1>2 DEF Links
<1>4. DirIsSet(g, g1, xb, R, xa)
  BY <1>1, <1>3, SetDirSets
<1> HIDE DEF g1
<1>5. g1 \in Heaps
  BY <1>4 DEF DirIsSet
<1>6. DirIsSet(g1, g2, xa, L, xb)
  BY <1>1, <1>3, <1>5, SetDirSets
<1>7. g2 = Unthreaded(g, n)
  BY DEF Unthreaded, g1, Dir
<1> HIDE DEF g2
<1>8. \A m \in Nodes : \A j \in {L, R} : Dir(g2, m, j) = IF m = xa /\ j = L THEN xb ELSE IF m = xb /\ j = R THEN xa ELSE Dir(g, m, j)
  BY <1>4, <1>6 DEF DirIsSet
<1>9. Threads(g2, K \ {n})
  <2>1. \A m \in K : \A j \in {L, R} :
              Dir(g2, m, j) = IF m = Dir(g, n, Other(j)) THEN Dir(g, n, j) ELSE Dir(g, m, j)
    BY <1>1, <1>8
  <2> QED BY <2>1, ThreadsWithout
<1>10. \A m \in Nodes \ K : g2.node[m] = g.node[m]
  <2> TAKE m \in Nodes \ K
  <2>1. m # xa /\ m # xb
    BY <1>2, KeysArePositive
  <2> QED BY <1>4, <1>6, <2>1 DEF DirIsSet
<1>11. Unthreads(g, g2, K, n)
  BY <1>4, <1>6, <1>9, <1>10 DEF DirIsSet, SameButNodes, Unthreads, Val, Par, child
<1> QED BY <1>7, <1>11

\* In g2 the tree t has lost n; only what s is below may be miscounted. The
\* root may be left at n.
RootLeft(g, g2, K, n) ==
    /\ child(g2, n, L) = Null /\ child(g2, n, R) \in (K \ {n}) \cup {Null}
    /\ g2.node[n].height = g.node[n].height
    /\ child(g, n, L) # Null /\ child(g, n, R) # Null
Cuts(g, g2, t, K, n, S2, r2, s) ==
    /\ g2 \in Heaps /\ g2.live = g.live /\ g2.failed = g.failed
    /\ Tree(g2, K \ {n}, S2, r2) /\ Threads(g2, K \ {n})
    /\ s \in (K \ {n}) \cup {Null} /\ (K \ {n} # {} => s # Null)
    /\ \A m \in K \ {n} : s \notin S2[m] => Counted(g2, m)
    /\ \A u \in Trees \ {t} : g2.root[u] = g.root[u]
    /\ \A m \in Nodes \ K : g2.node[m] = g.node[m]
    /\ \A m \in Nodes : Val(g2, m) = Val(g, m)
    /\ \/ g2.root[t] = r2
       \/ g2.root[t] = n /\ g.root[t] = n /\ RootLeft(g, g2, K, n)

\* p has n on one side, which is L or R.
LEMMA SideOf ==
    ASSUME NEW g, NEW K, NEW S, NEW r, Tree(g, K, S, r), NEW n \in K, NEW p \in K, NEW x \in {L, R}, child(g, p, x) = n,
           NEW j \in {L, R}
    PROVE  child(g, p, j) = n <=> j = (IF child(g, p, L) = n THEN L ELSE R)
<1>1. n # Null
  BY InTree
<1>2. \A a, b \in {L, R} : child(g, p, a) = n /\ child(g, p, b) = n => a = b
  BY <1>1, OneSide
<1>3. L \in {L, R} /\ R \in {L, R} /\ L # R /\ (x = L \/ x = R) /\ (j = L \/ j = R)
  BY DEF L, R
<1> HIDE DEF L, R
<1> QED BY <1>2, <1>3

\* Replacing n by its child bypasses it.
LEMMA BareBypassed ==
    ASSUME NEW g, NEW K, NEW S, NEW r, Tree(g, K, S, r), NEW n, NEW i, NEW c, NEW p,
           BareIn(g, K, S, r, n, i, c, p), NEW g3, Unthreads(g, g3, K, n),
           NEW t, NEW g4, ReplacesTo(g3, g4, t, p, n, c)
    PROVE  Bypassed(g, g4, K, n, c, p)
<1>1. K \subseteq Nodes /\ Null \notin K
  BY InTree
<1>2. n \in K /\ p = Par(g, n) /\ n # Null
  BY DEF BareIn
<1> DEFINE s == IF child(g3, p, L) = n THEN L ELSE R
<1>3. ASSUME NEW m \in K \ {n}
      PROVE  /\ Par(g4, m) = IF m = c THEN p ELSE Par(g, m)
             /\ \A j \in {L, R} : child(g4, m, j) = IF m = p /\ j = s THEN c ELSE child(g, m, j)
  <2>1. m \in Nodes
    BY <1>1
  <2>2. /\ Par(g4, m) = IF m = c THEN p ELSE Par(g3, m)
        /\ \A j \in {L, R} : child(g4, m, j) = IF m = p /\ j = s THEN c ELSE child(g3, m, j)
    BY <2>1 DEF ReplacesTo
  <2>3. Par(g3, m) = Par(g, m) /\ \A j \in {L, R} : child(g3, m, j) = child(g, m, j)
    BY <2>1 DEF Unthreads
  <2> QED BY <2>2, <2>3
<1>4. p \in K => s = (IF child(g, p, L) = n THEN L ELSE R)
  <2>1. p \in K => child(g3, p, L) = child(g, p, L)
    BY <1>1 DEF Unthreads, L, R
  <2> QED BY <2>1
<1> HIDE DEF s
<1>5. ASSUME NEW m \in K \ {n}, NEW j \in {L, R}
      PROVE  child(g, m, j) = n <=> m = p /\ j = s
  <2>1. CASE child(g, m, j) = n
    <3>1. Par(g, n) = m
      BY <1>2, <2>1, KidIs
    <3> QED BY <1>2, <1>4, <2>1, <3>1, SideOf
  <2>2. CASE m = p /\ j = s
    <3>1. n # r
      BY <1>1, <2>2 DEF BareIn
    <3>2. PICK x \in {L, R} : child(g, p, x) = n
      BY <3>1 DEF BareIn
    <3>3. p \in K
      BY <2>2
    <3>4. j = (IF child(g, p, L) = n THEN L ELSE R)
      BY <1>4, <2>2, <3>3
    <3>5. child(g, p, j) = n
      BY <1>2, <3>2, <3>3, <3>4, SideOf
    <3> QED BY <2>2, <3>5
  <2> QED BY <2>1, <2>2
<1>6. \A m \in K \ {n} : /\ Par(g4, m) = IF m = c THEN p ELSE Par(g, m)
                         /\ \A j \in {L, R} : child(g4, m, j) = IF child(g, m, j) = n THEN c ELSE child(g, m, j)
  BY <1>3, <1>5
<1> QED BY <1>6 DEF Bypassed

\* A node with one child at most is taken out.
LEMMA BareCuts ==
    ASSUME NEW g \in Heaps, NEW t \in Trees, NEW K, NEW S, NEW r, Tree(g, K, S, r), r = g.root[t],
           \A m \in K : Counted(g, m), NEW n, NEW i, NEW c, NEW p,
           BareIn(g, K, S, r, n, i, c, p), NEW g3, Unthreads(g, g3, K, n),
           NEW g4, ReplacesTo(g3, g4, t, p, n, c)
    PROVE  Cuts(g, g4, t, K, n, Without(K, S, n), IF n = r THEN c ELSE r, IF c = Null THEN p ELSE c)
<1> DEFINE S2 == Without(K, S, n)
           r2 == IF n = r THEN c ELSE r
           s == IF c = Null THEN p ELSE c
           K2 == K \ {n}
<1>1. K \subseteq Nodes /\ Null \notin K /\ n \in K /\ n \in S[n] /\ Null \notin Nodes
  <2>1. K \subseteq Nodes /\ Null \notin K
    BY InTree
  <2>2. Null \notin Nodes
    BY KeysArePositive
  <2>3. n \in K /\ n \in S[n]
    BY DEF BareIn
  <2> QED BY <2>1, <2>2, <2>3
<1>2. Bypassed(g, g4, K, n, c, p)
  BY BareBypassed
<1>3. Tree(g4, K2, S2, r2)
  BY <1>2, BypassTree
<1>3A. g4 \in Heaps /\ g4.live = g.live /\ g4.failed = g.failed
  BY DEF ReplacesTo, Unthreads, SameButNodes
<1>4. Threads(g4, K2)
  <2>1. \A m \in K2 : \A j \in {L, R} : Dir(g4, m, j) = Dir(g3, m, j)
    BY <1>1 DEF ReplacesTo
  <2>2. Threads(g3, K2)
    BY DEF Unthreads
  <2> HIDE DEF K2
  <2> QED BY <2>1, <2>2, SameThreads
<1>5. (c # Null => c \in K2 /\ c \in S[n]) /\ (c = Null /\ n # r => p \in K2) /\ (n = r => p = Null)
  <2>1. c # Null => c \in S[n]
    <3>1. c # Null => c \in K /\ S[c] = S[n] \ {n}
      BY DEF BareIn
    <3>2. c # Null => c \in S[c]
      BY <3>1, InTree
    <3> QED BY <3>1, <3>2
  <2> QED BY <2>1 DEF BareIn
<1>6. s \in K2 \cup {Null} /\ (K2 # {} => s # Null)
  <2>1. CASE c # Null
    BY <1>5, <2>1
  <2>2. CASE c = Null /\ n # r
    BY <1>1, <1>5, <2>2
  <2>3. CASE c = Null /\ n = r
    <3>1. K2 = {}
      BY <2>3 DEF BareIn
    <3> QED BY <1>5, <2>3, <3>1
  <2> QED BY <2>1, <2>2, <2>3
<1>7. ASSUME NEW m \in K2, s \notin S2[m]
      PROVE  Counted(g4, m)
  <2>1. S2[m] = S[m] \ {n} /\ m \in K /\ m # n /\ m \in Nodes
    BY <1>1 DEF Without
  <2>2. n \notin S[m]
    <3> SUFFICES ASSUME n \in S[m] PROVE FALSE
      OBVIOUS
    <3>1. p \in S[m] /\ n # r /\ S[n] \subseteq S[m]
      BY <2>1, InTree DEF BareIn
    <3>2. p # n
      BY <3>1 DEF BareIn
    <3> QED BY <1>5, <1>7, <2>1, <3>1, <3>2
  <2>3. \A j \in {L, R} : child(g, m, j) # n
    <3> TAKE j \in {L, R}
    <3>1. child(g, m, j) # Null => child(g, m, j) \in S[m]
      BY <2>1, KidBelow
    <3> QED BY <1>1, <2>2, <3>1
  <2>4. \A j \in {L, R} : child(g4, m, j) = child(g, m, j)
    BY <1>2, <2>1, <2>3 DEF Bypassed
  <2>5. \A x \in Nodes : g4.node[x].sz = g.node[x].sz
    BY DEF ReplacesTo, Unthreads
  <2>6. \A j \in {L, R} : sz(g4, child(g, m, j)) = sz(g, child(g, m, j))
    <3> TAKE j \in {L, R}
    <3>1. child(g, m, j) = Null \/ child(g, m, j) \in Nodes
      BY <1>1, <2>1, KidIs
    <3> QED BY <2>5, <3>1 DEF sz
  <2>7. Counted(g, m)
    BY <2>1
  <2> QED BY <2>1, <2>4, <2>5, <2>6, <2>7 DEF Counted, L, R
<1>8. \A u \in Trees \ {t} : g4.root[u] = g.root[u]
  <2>1. g3.root = g.root /\ g.root \in [Trees -> Links]
    BY NodeTypes DEF Unthreads, SameButNodes
  <2> QED BY <2>1 DEF ReplacesTo
<1>9. \A m \in Nodes \ K : g4.node[m] = g.node[m]
  <2> TAKE m \in Nodes \ K
  <2>1. m # c /\ m # p
    BY <1>1, <1>5 DEF BareIn
  <2> QED BY <2>1 DEF ReplacesTo, Unthreads
<1>10. \A m \in Nodes : Val(g4, m) = Val(g, m)
  BY DEF ReplacesTo, Unthreads
<1>11. g4.root[t] = r2
  <2>1. g3.root = g.root /\ g.root \in [Trees -> Links]
    BY NodeTypes DEF Unthreads, SameButNodes
  <2>2. CASE n = r
    <3>1. p = Null
      BY <1>5, <2>2
    <3> QED BY <2>1, <2>2, <3>1 DEF ReplacesTo
  <2>3. CASE n # r
    <3>1. p # Null
      BY <1>1, <2>3 DEF BareIn
    <3> QED BY <2>1, <2>3, <3>1 DEF ReplacesTo
  <2> QED BY <2>2, <2>3
<1> HIDE DEF S2, r2, s, K2
<1>12. Cuts(g, g4, t, K, n, S2, r2, s)
  BY <1>3, <1>3A, <1>4, <1>6, <1>7, <1>8, <1>9, <1>10, <1>11 DEF Cuts, K2
<1> QED BY <1>12 DEF S2, r2, s

\* No node outside K links to one of K.
Private(g, K) ==
    \A m \in Nodes \ K : Par(g, m) \notin K /\ \A j \in {L, R} : child(g, m, j) \notin K

\* What is known of the nodes around X, which follows n.
Around(g, K, S, r, n, X, c, q) ==
    /\ n \in K /\ X \in K /\ X # n /\ X \in S[n] /\ n \notin S[X] /\ X # r /\ n # Null /\ X # Null
    /\ child(g, X, L) = Null /\ c = child(g, X, R) /\ q = Par(g, X)
    /\ c # n /\ c # X /\ (c # Null => c \in K /\ c \in S[X] /\ c \in S[n])
    /\ q \in K /\ q \in S[n] /\ q # X /\ \E x \in {L, R} : child(g, q, x) = X
    /\ Par(g, n) # X /\ Par(g, n) # n
    /\ \A m \in K \ {X} : Par(g, m) = X => m = c
    /\ \A m \in K \ {X} : X \in S[m] => q \in S[m] /\ (c # Null => c \in S[m])

\* What there is around the next key.
LEMMA AroundIs ==
    ASSUME NEW g, NEW K, NEW S, NEW r, Tree(g, K, S, r), NEW n, NEW X, Succeeds(g, K, S, r, n, X)
    PROVE  Around(g, K, S, r, n, X, child(g, X, R), Par(g, X))
<1> DEFINE c == child(g, X, R)
           q == Par(g, X)
<1>1. /\ n \in K /\ X \in K /\ X # n /\ X \in S[n] /\ n \notin S[X] /\ X # r /\ child(g, X, L) = Null
  BY DEF Succeeds
<1>2. Bare(g, X, L, c, q)
  BY <1>1 DEF Bare, Other, L, R
<1> HIDE DEF c, q
<1>3. BareIn(g, K, S, r, X, L, c, q)
  BY <1>1, <1>2, Bares
<1>4. /\ Null \notin K
      /\ \A m \in K : m \in S[m] /\ S[m] \subseteq K
      /\ \A m \in K : \A x \in S[m] : S[x] \subseteq S[m] /\ (x # m => Par(g, x) \in S[m])
  BY InTree
<1>5. q \in K /\ q # X /\ (\E x \in {L, R} : child(g, q, x) = X)
  BY <1>1, <1>3 DEF BareIn
<1>6. q \in S[n]
  BY <1>1, <1>3, <1>4 DEF BareIn
<1>7. c # Null => c \in K /\ c # X /\ c \in S[X]
  <2>1. c # Null => c \in K /\ c # X /\ S[c] = S[X] \ {X}
    BY <1>3 DEF BareIn
  <2> QED BY <1>4, <2>1
<1>8. c # n /\ c # X /\ (c # Null => c \in S[n])
  <2>1. CASE c = Null
    BY <1>1, <1>4, <2>1
  <2>2. CASE c # Null
    BY <1>1, <1>4, <1>7, <2>2
  <2> QED BY <2>1, <2>2
<1>9. Par(g, n) # X /\ Par(g, n) # n
  <2>1. \A m \in K : Par(g, n) = m => n = r \/ (n \in S[m] /\ n # m)
    <3> SUFFICES ASSUME NEW m \in K, Par(g, n) = m, n # r PROVE n \in S[m] /\ n # m
      OBVIOUS
    <3>1. \E j \in {L, R} : child(g, m, j) = n
      BY <1>1 DEF Tree, Parents
    <3> QED BY <1>1, <1>4, <3>1, KidBelow
  <2>2. n = r => Par(g, n) = Null
    BY <1>1, InTree
  <2> QED BY <1>1, <1>4, <2>1, <2>2
<1>10. \A m \in K \ {X} : Par(g, m) = X => m = c
  BY <1>3 DEF BareIn
<1>11. \A m \in K \ {X} : X \in S[m] => q \in S[m] /\ (c # Null => c \in S[m])
  BY <1>3, <1>4, <1>7 DEF BareIn
<1>12. child(g, X, L) = Null /\ c = child(g, X, R) /\ q = Par(g, X)
  BY <1>1 DEF c, q
<1>13. Around(g, K, S, r, n, X, c, q)
  BY <1>1, <1>4, <1>5, <1>6, <1>7, <1>8, <1>9, <1>10, <1>11, <1>12 DEF Around
<1> QED BY <1>13 DEF c, q

\* The heap after the swap, the threads, and the child that takes over.
Promoting(g, g1, g3, g4, t, K, n, X, c, q) ==
    /\ SwapsTo(g, g1, t, n, X) /\ Unthreads(g1, g3, K, n) /\ ReplacesTo(g3, g4, t, Swap(n, X, q), n, c)

\* The links, when the next key has taken the place of n.
LEMMA PromotingLinks ==
    ASSUME NEW g, NEW K, NEW S, NEW r, Tree(g, K, S, r), NEW n, NEW X, NEW c, NEW q, Around(g, K, S, r, n, X, c, q),
           NEW t, NEW g1, NEW g3, NEW g4, Promoting(g, g1, g3, g4, t, K, n, X, c, q)
    PROVE  Promoted(g, g4, K, n, X, c, q)
<1> DEFINE p == Swap(n, X, q)
           s == IF child(g3, p, L) = n THEN L ELSE R
<1>1. K \subseteq Nodes /\ Null \notin K
  BY InTree
<1>2. /\ n \in K /\ X \in K /\ X # n /\ n # Null /\ X # Null
      /\ c # n /\ c # X /\ (c # Null => c \in K)
      /\ q \in K /\ q # X /\ \E x \in {L, R} : child(g, q, x) = X
      /\ Par(g, n) # X /\ Par(g, n) # n
      /\ \A m \in K \ {X} : Par(g, m) = X => m = c
  BY DEF Around
<1>3. \A m \in Nodes : /\ Par(g4, m) = IF m = c THEN p ELSE Swap(n, X, Par(g, Swap(n, X, m)))
                       /\ \A j \in {L, R} : child(g4, m, j) = IF m = p /\ j = s THEN c
                                                              ELSE Swap(n, X, child(g, Swap(n, X, m), j))
  <2>1. \A m \in Nodes : /\ Par(g4, m) = IF m = c THEN p ELSE Par(g3, m)
                         /\ \A j \in {L, R} : child(g4, m, j) = IF m = p /\ j = s THEN c ELSE child(g3, m, j)
    BY DEF Promoting, ReplacesTo
  <2>2. \A m \in Nodes : Par(g3, m) = Par(g1, m) /\ \A j \in {L, R} : child(g3, m, j) = child(g1, m, j)
    BY DEF Promoting, Unthreads
  <2>3. \A m \in Nodes : /\ Par(g1, m) = Swap(n, X, Par(g, Swap(n, X, m)))
                         /\ \A j \in {L, R} : child(g1, m, j) = Swap(n, X, child(g, Swap(n, X, m), j))
    BY DEF Promoting, SwapsTo
  <2> HIDE DEF p, s
  <2> QED BY <2>1, <2>2, <2>3
<1>4. s = IF child(g, q, L) = X THEN L ELSE R
  <2>1. p \in Nodes /\ Swap(n, X, p) = q
    BY <1>1, <1>2 DEF Swap
  <2>2. child(g3, p, L) = Swap(n, X, child(g, q, L))
    <3>1. child(g3, p, L) = child(g1, p, L)
      BY <2>1 DEF Promoting, Unthreads
    <3>2. child(g1, p, L) = Swap(n, X, child(g, Swap(n, X, p), L))
      BY <2>1 DEF Promoting, SwapsTo
    <3> QED BY <2>1, <3>1, <3>2
  <2>3. Swap(n, X, child(g, q, L)) = n <=> child(g, q, L) = X
    BY <1>2 DEF Swap
  <2> QED BY <2>2, <2>3
<1>5. p = Sub(n, X, q)
  BY <1>2 DEF Swap, Sub
<1> HIDE DEF p, s
<1>6. ASSUME NEW m \in K \ {X}, NEW j \in {L, R}
      PROVE  child(g, m, j) = X <=> Sub(n, X, m) = p /\ j = s
  <2>1. Sub(n, X, m) = p <=> m = q
    BY <1>2, <1>5 DEF Sub
  <2>2. child(g, q, j) = X <=> j = s
    BY <1>2, <1>4, SideOf
  <2>3. child(g, m, j) = X => m = q
    <3>1. child(g, m, j) = X => Par(g, X) = m
      BY <1>2, KidIs
    <3> QED BY <3>1 DEF Around
  <2> QED BY <2>1, <2>2, <2>3
<1> SUFFICES ASSUME NEW m \in K \ {X}
             PROVE  /\ Par(g4, Sub(n, X, m)) = Sub(n, X, IF m = c THEN q ELSE Par(g, m))
                    /\ \A j \in {L, R} :
                          child(g4, Sub(n, X, m), j) = Sub(n, X, IF child(g, m, j) = X THEN c ELSE child(g, m, j))
  BY DEF Promoted
<1>7. Sub(n, X, m) \in Nodes /\ Swap(n, X, Sub(n, X, m)) = m
  BY <1>1, <1>2 DEF Sub, Swap
<1>8. \A y : y # X => Swap(n, X, y) = Sub(n, X, y)
  BY DEF Swap, Sub
<1>9. Par(g4, Sub(n, X, m)) = Sub(n, X, IF m = c THEN q ELSE Par(g, m))
  <2>1. Par(g4, Sub(n, X, m)) = IF Sub(n, X, m) = c THEN p ELSE Swap(n, X, Par(g, m))
    BY <1>3, <1>7
  <2>2. Sub(n, X, m) = c <=> m = c
    BY <1>2 DEF Sub
  <2>3. m # c => Par(g, m) # X
    BY <1>2
  <2> QED BY <1>5, <1>8, <2>1, <2>2, <2>3
<1>10. ASSUME NEW j \in {L, R}
       PROVE  child(g4, Sub(n, X, m), j) = Sub(n, X, IF child(g, m, j) = X THEN c ELSE child(g, m, j))
  <2>1. child(g4, Sub(n, X, m), j) = IF Sub(n, X, m) = p /\ j = s THEN c ELSE Swap(n, X, child(g, m, j))
    BY <1>3, <1>7
  <2>2. Sub(n, X, c) = c
    BY <1>2 DEF Sub
  <2> QED BY <1>6, <1>8, <2>1, <2>2
<1> QED BY <1>9, <1>10

\* Only what hangs above X and n may be miscounted.
LEMMA PromotingCounts ==
    ASSUME NEW g \in Heaps, NEW K, NEW S, NEW r, Tree(g, K, S, r), \A m \in K : Counted(g, m),
           NEW n, NEW X, NEW c, NEW q, Around(g, K, S, r, n, X, c, q),
           NEW t, NEW g1, NEW g3, NEW g4, Promoting(g, g1, g3, g4, t, K, n, X, c, q),
           NEW S2, Promotes(g4, K, S, r, n, X, S2),
           NEW m2 \in K \ {n}, (IF c = Null THEN Swap(n, X, q) ELSE c) \notin S2[m2]
    PROVE  Counted(g4, m2)
<1> DEFINE e == IF c = Null THEN q ELSE c
           m == Sub(X, n, m2)
<1>1. K \subseteq Nodes /\ Null \notin K /\ \A x \in K : x \in S[x] /\ S[x] \subseteq K
  BY InTree
<1>2. /\ n \in K /\ X \in K /\ X # n /\ n # Null /\ X # Null /\ n \notin S[X]
      /\ c # n /\ c # X /\ (c # Null => c \in K /\ c \in S[n])
      /\ q \in K /\ q # X /\ q \in S[n]
      /\ \A x \in K \ {X} : X \in S[x] => q \in S[x] /\ (c # Null => c \in S[x])
  BY DEF Around
<1>3. /\ e \in K \ {X} /\ e \in S[n] /\ Sub(n, X, e) = (IF c = Null THEN Swap(n, X, q) ELSE c)
      /\ \A x \in K \ {X} : X \in S[x] => e \in S[x]
  BY <1>2 DEF Sub, Swap
<1> HIDE DEF e
<1>4. m \in K \ {X} /\ Sub(n, X, m) = m2
  BY <1>2 DEF Sub
<1>5. e \notin S[m]
  BY <1>3, <1>4 DEF Promotes
<1>6. m # n
  BY <1>3, <1>5
<1>7. m2 = m /\ m2 # X
  BY <1>6 DEF Sub
<1>8. X \notin S[m]
  BY <1>3, <1>4, <1>5
<1>9. n \notin S[m]
  <2>1. n \in S[m] => S[n] \subseteq S[m]
    BY <1>4, InTree
  <2> QED BY <1>3, <1>5, <2>1
<1> HIDE DEF m
<1>10. \A j \in {L, R} : child(g, m, j) # n /\ child(g, m, j) # X
  <2> TAKE j \in {L, R}
  <2>1. child(g, m, j) # Null => child(g, m, j) \in S[m]
    BY <1>4, KidBelow
  <2> QED BY <1>2, <1>8, <1>9, <2>1
<1>11. \A j \in {L, R} : child(g4, m, j) = child(g, m, j)
  <2>1. Promoted(g, g4, K, n, X, c, q)
    BY PromotingLinks
  <2>2. \A j \in {L, R} : child(g4, Sub(n, X, m), j) = Sub(n, X, IF child(g, m, j) = X THEN c ELSE child(g, m, j))
    BY <1>4, <2>1 DEF Promoted
  <2> QED BY <1>4, <1>7, <1>10, <2>2 DEF Sub
<1>12. \A x \in Nodes : g4.node[x].sz = g.node[x].sz
  BY DEF Promoting, ReplacesTo, Unthreads, SwapsTo
<1>13. \A j \in {L, R} : sz(g4, child(g, m, j)) = sz(g, child(g, m, j))
  <2> TAKE j \in {L, R}
  <2>1. child(g, m, j) = Null \/ child(g, m, j) \in Nodes
    BY <1>1, <1>4, KidIs
  <2> QED BY <1>12, <2>1 DEF sz
<1>14. Counted(g, m) /\ m \in Nodes
  BY <1>1, <1>4
<1> QED BY <1>7, <1>11, <1>12, <1>13, <1>14 DEF Counted, L, R

\* A node with two children is taken out, and the next key takes its place.
LEMMA PromotingCuts ==
    ASSUME NEW g \in Heaps, NEW t \in Trees, NEW K, NEW S, NEW r, Tree(g, K, S, r), r = g.root[t],
           Threads(g, K), \A m \in K : Counted(g, m), Private(g, K),
           NEW n, child(g, n, L) # Null, child(g, n, R) # Null, NEW X, Succeeds(g, K, S, r, n, X),
           NEW c, NEW q, c = child(g, X, R), q = Par(g, X),
           NEW g1, NEW g3, NEW g4, Promoting(g, g1, g3, g4, t, K, n, X, c, q)
    PROVE  Cuts(g, g4, t, K, n, Moved(K, S, n, X), Sub(n, X, r), IF c = Null THEN Swap(n, X, q) ELSE c)
<1> DEFINE S2 == Moved(K, S, n, X)
           r2 == Sub(n, X, r)
           p == Swap(n, X, q)
           s == IF c = Null THEN p ELSE c
<1>0. Around(g, K, S, r, n, X, c, q)
  BY AroundIs
<1>1. K \subseteq Nodes /\ Null \notin K
  BY InTree
<1>2. /\ n \in K /\ X \in K /\ X # n /\ n # Null /\ X # Null /\ X # r
      /\ c # n /\ c # X /\ (c # Null => c \in K)
      /\ q \in K /\ q # X /\ child(g, X, L) = Null /\ c = child(g, X, R)
  BY <1>0 DEF Around
<1>3. Promoted(g, g4, K, n, X, c, q)
  BY <1>0, PromotingLinks
<1>4. Promotes(g4, K, S, r, n, X, S2)
  BY <1>3, PromotedTree
<1>5. p \in K \ {n} /\ s \in K \ {n} /\ s # Null /\ p # Null
  BY <1>1, <1>2 DEF Swap
<1>6. \A m \in K \ {n} : s \notin S2[m] => Counted(g4, m)
  <2> HIDE DEF S2
  <2> QED BY <1>0, <1>4, PromotingCounts
<1>7. Tree(g4, K \ {n}, S2, r2)
  BY <1>4 DEF Promotes
<1> HIDE DEF S2, s, p
<1>8. /\ g4 \in Heaps /\ g4.live = g.live /\ g4.failed = g.failed
  BY DEF Promoting, ReplacesTo, Unthreads, SwapsTo, SameButNodes
<1>9. Threads(g4, K \ {n})
  <2>1. \A m \in Nodes : \A j \in {L, R} : Dir(g4, m, j) = Dir(g3, m, j)
    BY DEF Promoting, ReplacesTo
  <2>2. Threads(g3, K \ {n})
    BY DEF Promoting, Unthreads
  <2>3. \A m \in K \ {n} : \A j \in {L, R} : Dir(g4, m, j) = Dir(g3, m, j)
    BY <1>1, <2>1
  <2> QED BY <2>2, <2>3, SameThreads
<1>10. g.root \in [Trees -> Links]
  BY NodeTypes
<1>11. /\ \A u \in Trees \ {t} : g4.root[u] = g.root[u]
       /\ g4.root = g1.root
  <2>1. g4.root = g1.root
    BY <1>5 DEF Promoting, ReplacesTo, Unthreads, SameButNodes, p
  <2>2. g1.root = IF Par(g, n) \in {Null, X} /\ Par(g, X) \in {Null, n} THEN g.root
                  ELSE [g.root EXCEPT ![t] = Swap(n, X, g.root[t])]
    BY DEF Promoting, SwapsTo
  <2> QED BY <1>10, <2>1, <2>2
<1>12. \A m \in Nodes \ K : g4.node[m] = g.node[m]
  <2> TAKE m \in Nodes \ K
  <2>1. m # c /\ m # p /\ m # n /\ m # X
    BY <1>1, <1>2, <1>5, KeysArePositive
  <2>2. g4.node[m] = g1.node[m]
    BY <2>1 DEF Promoting, ReplacesTo, Unthreads, p
  <2>3. Par(g, m) \notin K /\ \A j \in {L, R} : child(g, m, j) \notin K
    BY DEF Private
  <2>4. Par(g1, m) = Swap(n, X, Par(g, Swap(n, X, m)))
        /\ \A j \in {L, R} : child(g1, m, j) = Swap(n, X, child(g, Swap(n, X, m), j))
    BY DEF Promoting, SwapsTo
  <2>5. Par(g1, m) = Par(g, m) /\ \A j \in {L, R} : child(g1, m, j) = child(g, m, j)
    BY <1>2, <2>1, <2>3, <2>4 DEF Swap
  <2>6. g1.node[m] = g.node[m]
    BY <2>5 DEF Promoting, SwapsTo
  <2> QED BY <2>2, <2>6
<1>13. \A m \in Nodes : Val(g4, m) = Val(g, m)
  BY DEF Promoting, ReplacesTo, Unthreads, SwapsTo
<1>14. g4.root[t] = r2 \/ (g4.root[t] = n /\ g.root[t] = n /\ RootLeft(g, g4, K, n))
  <2>1. g1.root = IF Par(g, n) \in {Null, X} /\ Par(g, X) \in {Null, n} THEN g.root
                  ELSE [g.root EXCEPT ![t] = Swap(n, X, g.root[t])]
    BY DEF Promoting, SwapsTo
  <2>2. CASE n = r /\ Par(g, X) \in {Null, n} /\ Par(g, n) \in {Null, X}
    <3>1. g4.root[t] = n
      BY <1>11, <2>1, <2>2
    <3>2. n \in Nodes /\ n # p
      BY <1>1, <1>2, <1>5
    <3>3. \A j \in {L, R} : child(g4, n, j) = Swap(n, X, child(g, X, j))
      <4>1. \A j \in {L, R} : child(g4, n, j) = child(g3, n, j)
        BY <3>2 DEF Promoting, ReplacesTo, p
      <4>2. \A j \in {L, R} : child(g3, n, j) = child(g1, n, j)
        BY <3>2 DEF Promoting, Unthreads
      <4>3. \A j \in {L, R} : child(g1, n, j) = Swap(n, X, child(g, Swap(n, X, n), j))
        BY <3>2 DEF Promoting, SwapsTo
      <4> QED BY <4>1, <4>2, <4>3 DEF Swap
    <3>4. child(g4, n, L) = Null /\ child(g4, n, R) = c
      BY <1>2, <3>3 DEF Swap, L, R
    <3>5. g4.node[n].height = g.node[n].height
      BY <3>2 DEF Promoting, ReplacesTo, Unthreads, SwapsTo
    <3>6. RootLeft(g, g4, K, n)
      BY <1>2, <3>4, <3>5 DEF RootLeft
    <3> QED BY <2>2, <3>1, <3>6
  <2>3. CASE ~(n = r /\ Par(g, X) \in {Null, n} /\ Par(g, n) \in {Null, X})
    <3>1. n # r => Par(g, n) # Null
      BY <1>2, InTree
    <3>2. n # r => Par(g, n) # X
      BY <1>0 DEF Around
    <3>3. n = r => Par(g, n) = Null
      BY <1>2, InTree
    <3>4. g1.root = [g.root EXCEPT ![t] = Swap(n, X, g.root[t])]
      BY <2>1, <2>3, <3>1, <3>2, <3>3
    <3>5. Swap(n, X, r) = r2
      BY <1>2 DEF Swap, Sub
    <3> QED BY <1>10, <1>11, <3>4, <3>5
  <2> QED BY <2>2, <2>3
<1> HIDE DEF r2
<1>15. Cuts(g, g4, t, K, n, S2, r2, s)
  BY <1>5, <1>6, <1>7, <1>8, <1>9, <1>11, <1>12, <1>13, <1>14 DEF Cuts
<1> QED BY <1>15 DEF S2, r2, s, p

\* A root that passes is_valid.
LEMMA ValidRoot ==
    ASSUME NEW g, NEW n, n # Null, is_valid(g, n)
    PROVE  /\ height(g, n) = 1 + Larger(height(g, child(g, n, L)), height(g, child(g, n, R)))
           /\ \A i \in {L, R} : child(g, n, i) # Null => Par(g, child(g, n, i)) = n
<1>1. Proper(g, n)
  BY DEF is_valid
<1> QED BY <1>1 DEF Proper, Par

\* The root is not left at n when the tree is valid in the end.
LEMMA RootMoves ==
    ASSUME NEW g \in Heaps, NEW g4, NEW g5 \in Heaps, NEW K \in SUBSET Nodes, NEW n \in K, RootLeft(g, g4, K, n),
           g5.node[n] = g4.node[n], NEW S, NEW r, Tree(g5, K \ {n}, S, r),
           is_valid(g, n), is_valid(g5, n)
    PROVE  FALSE
<1>1. n # Null /\ n \in Nodes
  BY KeysArePositive
<1>2. /\ height(g, n) = 1 + Larger(height(g, child(g, n, L)), height(g, child(g, n, R)))
      /\ height(g5, n) = 1 + Larger(height(g5, child(g5, n, L)), height(g5, child(g5, n, R)))
      /\ \A i \in {L, R} : child(g5, n, i) # Null => Par(g5, child(g5, n, i)) = n
  BY <1>1, ValidRoot
<1>3. child(g5, n, L) = Null /\ child(g5, n, R) = child(g4, n, R) /\ height(g5, n) = height(g, n)
  BY <1>1 DEF RootLeft, child, height
<1>4. CASE child(g4, n, R) # Null
  <2>1. child(g5, n, R) \in K \ {n} /\ Par(g5, child(g5, n, R)) = n
    BY <1>2, <1>3, <1>4 DEF RootLeft, R
  <2>2. Par(g5, child(g5, n, R)) \in K \ {n} \/ Par(g5, child(g5, n, R)) = Null
    BY <2>1, InTree DEF Tree, Parents
  <2> QED BY <1>1, <2>1, <2>2
<1>5. CASE child(g4, n, R) = Null
  <2>1. height(g5, n) = 1
    BY <1>2, <1>3, <1>5 DEF height, Larger
  <2>2. child(g, n, L) \in Nodes /\ child(g, n, R) \in Nodes
    <3>1. child(g, n, L) \in Links /\ child(g, n, R) \in Links
      BY <1>1, NodeTypes DEF L, R
    <3> QED BY <3>1 DEF RootLeft, Links
  <2>3. height(g, child(g, n, L)) \in Nat \ {0} /\ height(g, child(g, n, R)) \in Nat \ {0}
    BY <2>2, NodeTypes, KeysArePositive DEF height
  <2>4. height(g, n) > 1
    BY <1>2, <2>3 DEF Larger
  <2> QED BY <1>3, <2>1, <2>4
<1> QED BY <1>4, <1>5

Erased(g, g2, t, K, n) ==
    /\ Whole(g2, t, K \ {n}) /\ Spares(g, g2, t, K)
    /\ g2.live = g.live \ {n} /\ g2.failed = g.failed /\ g2.node[n] = NewNode
    /\ \A m \in Nodes \ {n} : Val(g2, m) = Val(g, m)

\* What is forgotten of n.
LEMMA ForgottenSets ==
    ASSUME NEW g \in Heaps, NEW n \in Nodes
    PROVE  /\ Forgotten(g, n) \in Heaps /\ Forgotten(g, n).root = g.root
           /\ Forgotten(g, n).live = g.live \ {n} /\ Forgotten(g, n).failed = g.failed
           /\ Forgotten(g, n).node[n] = NewNode
           /\ \A m \in Nodes \ {n} : Forgotten(g, n).node[m] = g.node[m]
<1> DEFINE F == [g.node EXCEPT ![n] = NewNode]
           now == g.live \ {n}
           g2 == Forgotten(g, n)
<1>1. g2 = [g EXCEPT !.node = F, !.live = now]
  <2>1. g2 = [g EXCEPT !.node[n] = NewNode, !.live = now]
    BY DEF Forgotten
  <2> HIDE DEF g2, now
  <2> QED BY <2>1 DEF Heaps
<1>2. g.node \in [Nodes -> Node] /\ now \in SUBSET Nodes
  BY NodeTypes
<1>3. F \in [Nodes -> Node] /\ F[n] = NewNode /\ \A m \in Nodes \ {n} : F[m] = g.node[m]
  BY <1>2, FreshNode
<1> HIDE DEF g2, F, now
<1>4. /\ g2 \in Heaps /\ g2.node = F /\ g2.root = g.root /\ g2.live = now /\ g2.failed = g.failed
  BY <1>1, <1>2, <1>3 DEF Heaps
<1> QED BY <1>3, <1>4 DEF g2, now

\* A tree without n does not depend on n.
LEMMA ForgottenWhole ==
    ASSUME NEW g, NEW t, NEW K \in SUBSET Nodes, NEW n \in Nodes \ K, Whole(g, t, K)
    PROVE  Whole(Forgotten(g, n), t, K)
<1> DEFINE g2 == Forgotten(g, n)
<1>1. g \in Heaps
  BY DEF Whole
<1>2. /\ g2 \in Heaps /\ g2.root = g.root /\ \A m \in Nodes \ {n} : g2.node[m] = g.node[m]
  BY <1>1, ForgottenSets
<1> HIDE DEF g2
<1>3. \A m \in K : g2.node[m] = g.node[m]
  BY <1>2
<1>4. PICK S : Tree(g, K, S, g.root[t])
  BY DEF Whole
<1>5. Tree(g2, K, S, g2.root[t])
  <2>1. \A m \in K : Par(g2, m) = Par(g, m) /\ \A i \in {L, R} : child(g2, m, i) = child(g, m, i)
    BY <1>3 DEF Par, child
  <2> QED BY <1>2, <1>4, <2>1, SameTree
<1>6. Threads(g2, K)
  <2>1. \A m \in K : \A i \in {L, R} : Dir(g2, m, i) = Dir(g, m, i)
    BY <1>3 DEF Dir
  <2>2. Threads(g, K)
    BY DEF Whole
  <2> QED BY <2>1, <2>2, SameThreads
<1>7. ASSUME NEW m \in K PROVE Counted(g2, m)
  <2>1. Counted(g, m)
    BY DEF Whole
  <2>2. \A i \in {L, R} : child(g2, m, i) = child(g, m, i) /\ sz(g2, child(g, m, i)) = sz(g, child(g, m, i))
    <3> TAKE i \in {L, R}
    <3>1. child(g, m, i) = Null \/ child(g, m, i) \in K
      BY <1>4, KidIs
    <3> QED BY <1>3, <3>1 DEF child, sz
  <2>3. g2.node[m].sz = g.node[m].sz
    BY <1>3
  <2> QED BY <2>1, <2>2, <2>3 DEF Counted, L, R
<1> QED BY <1>2, <1>5, <1>6, <1>7 DEF Whole, g2

\* Taking n out and rebalancing erases it.
LEMMA CutsErase ==
    ASSUME NEW g \in Heaps, NEW t \in Trees, NEW K \in SUBSET Nodes, NEW n \in K, NEW g4, NEW S2, NEW r2, NEW s,
           Cuts(g, g4, t, K, n, S2, r2, s), rebalance(g4, t, s).fault = "none",
           is_valid(g, g.root[t]), is_valid(rebalance(g4, t, s), rebalance(g4, t, s).root[t])
    PROVE  Erased(g, Forgotten(rebalance(g4, t, s), n), t, K, n)
<1> DEFINE g5 == rebalance(g4, t, s)
           K2 == K \ {n}
           g7 == Forgotten(g5, n)
<1>1. /\ g4 \in Heaps /\ g4.live = g.live /\ g4.failed = g.failed
      /\ Tree(g4, K2, S2, r2) /\ Threads(g4, K2)
      /\ s \in K2 \cup {Null}
      /\ \A m \in K2 : s \notin S2[m] => Counted(g4, m)
      /\ \A u \in Trees \ {t} : g4.root[u] = g.root[u]
      /\ \A m \in Nodes \ K : g4.node[m] = g.node[m]
      /\ \A m \in Nodes : Val(g4, m) = Val(g, m)
      /\ g4.root[t] = r2 \/ (g4.root[t] = n /\ g.root[t] = n /\ RootLeft(g, g4, K, n))
  BY DEF Cuts
<1>2. s \in K2
  <2>1. s = Null => g5 = Fail(g4, "null")
    BY DEF rebalance
  <2>2. s # Null
    BY <1>1, <2>1, FailSets
  <2> QED BY <1>1, <2>2
<1>3. K2 \in SUBSET Nodes /\ n \in Nodes \ K2
  OBVIOUS
<1> HIDE DEF K2
<1>4. PICK S3, r3 : Settled(g4, r2, t, K2, g5, S3, r3)
  BY <1>1, <1>2, RebalanceSettles
<1> HIDE DEF g5
<1>5. /\ g5 \in Heaps /\ Tree(g5, K2, S3, r3) /\ Shuffled(g4, g5, t, K2)
      /\ \A m \in K2 : Counted(g5, m)
      /\ g5.root[t] = r3 \/ (r3 = r2 /\ g5.root[t] = g4.root[t])
  BY <1>4 DEF Settled, Follows
<1>6. g5.root[t] = r3
  <2> SUFFICES ASSUME g5.root[t] # r3 PROVE FALSE
    OBVIOUS
  <2>1. g5.root[t] = n /\ g.root[t] = n /\ RootLeft(g, g4, K, n)
    BY <1>1, <1>5
  <2>2. g5.node[n] = g4.node[n]
    BY <1>3, <1>5 DEF Shuffled
  <2>3. is_valid(g, n) /\ is_valid(g5, n) /\ Tree(g5, K \ {n}, S3, r3)
    BY <1>5, <2>1 DEF g5, K2
  <2> QED BY <1>5, <2>1, <2>2, <2>3, RootMoves
<1>7. Threads(g5, K2)
  <2>1. \A m \in K2 : \A i \in {L, R} : Dir(g5, m, i) = Dir(g4, m, i)
    BY <1>3, <1>5 DEF Shuffled
  <2> QED BY <1>1, <2>1, SameThreads
<1>8. Whole(g5, t, K2)
  BY <1>5, <1>6, <1>7 DEF Whole
<1>9. Whole(g7, t, K2)
  BY <1>3, <1>8, ForgottenWhole
<1>10. /\ g7.root = g5.root /\ g7.live = g5.live \ {n} /\ g7.failed = g5.failed
       /\ g7.node[n] = NewNode
       /\ \A m \in Nodes \ {n} : g7.node[m] = g5.node[m]
  BY <1>5, ForgottenSets
<1> HIDE DEF g7
<1>11. Spares(g, g7, t, K)
  <2>1. \A u \in Trees \ {t} : g7.root[u] = g.root[u]
    BY <1>1, <1>5, <1>10 DEF Shuffled
  <2>2. \A m \in Nodes \ K : g7.node[m] = g.node[m]
    <3> TAKE m \in Nodes \ K
    <3>1. m # n /\ m \notin K2
      BY DEF K2
    <3> QED BY <1>1, <1>5, <1>10, <3>1 DEF Shuffled
  <2> QED BY <2>1, <2>2 DEF Spares
<1>12. \A m \in Nodes \ {n} : Val(g7, m) = Val(g, m)
  <2> TAKE m \in Nodes \ {n}
  <2>1. Val(g7, m) = Val(g5, m)
    BY <1>10 DEF Val
  <2>2. Val(g5, m) = Val(g4, m)
    BY <1>5 DEF Shuffled
  <2> QED BY <1>1, <2>1, <2>2
<1>13. g7.live = g.live \ {n} /\ g7.failed = g.failed
  BY <1>1, <1>5, <1>10 DEF Shuffled
<1>14. Erased(g, g7, t, K, n)
  BY <1>9, <1>10, <1>11, <1>12, <1>13 DEF Erased, K2
<1> QED BY <1>14 DEF g7, g5

\* The heap before n is unlinked: n and the next node are swapped when it has
\* two children.
Swapped(g, g2, t, n) == IF Both(g, n) THEN SwapsTo(g, g2, t, n, Dir(g, n, R)) ELSE g2 = g
CutsOut(g, g4, t, K, n, s) == \E S2, r2 : Cuts(g, g4, t, K, n, S2, r2, s)

\* Whichever way, n is taken out.
LEMMA HeirCuts ==
    ASSUME NEW g, NEW t \in Trees, NEW K \in SUBSET Nodes, Whole(g, t, K), Private(g, K), NEW n \in K,
           NEW g2, Swapped(g, g2, t, n)
    PROVE  CutsOut(g, Unlinked(Unthreaded(g2, n), t, n), t, K, n, Below(Unthreaded(g2, n), n))
<1> DEFINE g3 == Unthreaded(g2, n)
           p == Par(g3, n)
           c == Heir(g3, n)
           g4 == replace_child(g3, t, p, n, c)
           s == IF c = Null THEN p ELSE c
           r == g.root[t]
<1>1. g \in Heaps /\ Threads(g, K) /\ \A m \in K : Counted(g, m)
  BY DEF Whole
<1>2. PICK S : Tree(g, K, S, r)
  BY DEF Whole
<1>3. n \in Nodes /\ L \in {L, R} /\ R \in {L, R} /\ Other(L) = R /\ Other(R) = L
  BY DEF L, R, Other
<1>3A. r = g.root[t]
  OBVIOUS
<1>4. g2 \in Heaps /\ \A m \in K : \A i \in {L, R} : Dir(g2, m, i) = Dir(g, m, i)
  BY <1>1 DEF Swapped, SwapsTo
<1>5. Unthreads(g2, g3, K, n)
  <2>1. Threads(g2, K)
    BY <1>1, <1>4, SameThreads
  <2> QED BY <1>4, <2>1, UnthreadSets
<1> HIDE DEF g3, r
<1>6. g3 \in Heaps /\ Par(g3, n) = Par(g2, n) /\ \A i \in {L, R} : child(g3, n, i) = child(g2, n, i)
  BY <1>3, <1>5 DEF Unthreads
<1>7. p \in Links /\ c \in Links
  BY <1>3, <1>6, NodeTypes DEF Heir
<1> HIDE DEF p, c
<1>8. ReplacesTo(g3, g4, t, p, n, c)
  BY <1>3, <1>6, <1>7, ReplaceSets
<1> HIDE DEF g4
<1>9. CutsOut(g, g4, t, K, n, s)
  <2>1. CASE Both(g, n)
    <3> DEFINE X == Dir(g, n, R)
    <3>1. child(g, n, R) # Null /\ child(g, n, L) # Null
      BY <2>1 DEF Both
    <3>2. Succeeds(g, K, S, r, n, X)
      BY <1>1, <1>2, <3>1, SuccessorIs
    <3>3. SwapsTo(g, g2, t, n, X)
      BY <2>1 DEF Swapped
    <3> HIDE DEF X
    <3> DEFINE q == Par(g, X)
               d == child(g, X, R)
    <3>4. child(g, X, L) = Null /\ X # n /\ d # n /\ d # X /\ n # Null /\ X # Null
      <4>1. Around(g, K, S, r, n, X, child(g, X, R), Par(g, X))
        BY <1>2, <3>2, AroundIs
      <4> QED BY <4>1 DEF Around
    <3>5. Par(g2, n) = Swap(n, X, q) /\ child(g2, n, L) = Null /\ child(g2, n, R) = d
      <4>1. Swap(n, X, n) = X
        BY DEF Swap
      <4>2. Par(g2, n) = Swap(n, X, q) /\ \A j \in {L, R} : child(g2, n, j) = Swap(n, X, child(g, X, j))
        BY <1>3, <3>3, <4>1 DEF SwapsTo
      <4> HIDE DEF q
      <4> QED BY <3>4, <4>2 DEF Swap, L, R
    <3>6. p = Swap(n, X, q) /\ c = d
      BY <1>3, <1>6, <3>5 DEF p, c, Heir
    <3>7. Promoting(g, g2, g3, g4, t, K, n, X, d, q)
      BY <1>5, <1>8, <3>3, <3>6 DEF Promoting
    <3>8. q = Par(g, X) /\ d = child(g, X, R)
      OBVIOUS
    <3> HIDE DEF q, d
    <3>9. Cuts(g, g4, t, K, n, Moved(K, S, n, X), Sub(n, X, r), IF d = Null THEN Swap(n, X, q) ELSE d)
      BY <1>1, <1>2, <1>3A, <3>1, <3>2, <3>7, <3>8, PromotingCuts
    <3> QED BY <3>6, <3>9 DEF CutsOut
  <2>2. CASE ~Both(g, n)
    <3> DEFINE i == IF child(g, n, L) # Null THEN R ELSE L
    <3>1. g2 = g
      BY <2>2 DEF Swapped
    <3>2. Bare(g, n, i, c, p)
      BY <1>3, <1>6, <2>2, <3>1 DEF Bare, p, c, Heir, Both
    <3> HIDE DEF i
    <3>3. BareIn(g, K, S, r, n, i, c, p)
      BY <1>2, <3>2, Bares
    <3>4. Unthreads(g, g3, K, n)
      BY <1>5, <3>1
    <3>5. Cuts(g, g4, t, K, n, Without(K, S, n), IF n = r THEN c ELSE r, s)
      BY <1>1, <1>2, <1>3A, <1>8, <3>3, <3>4, BareCuts
    <3> QED BY <3>5 DEF CutsOut
  <2> QED BY <2>1, <2>2
<1>10. g4 = Unlinked(g3, t, n) /\ s = Below(g3, n)
  BY DEF g4, p, c, s, Par, Unlinked, Below
<1> HIDE DEF s
<1> QED BY <1>9, <1>10 DEF g3

\* An assertion that is checked does not change what is cut out.
LEMMA CheckedCuts ==
    ASSUME NEW g, NEW t \in Trees, NEW K \in SUBSET Nodes, NEW n \in K, NEW g2, NEW S2, NEW r2, NEW s,
           Cuts(g, g2, t, K, n, S2, r2, s), NEW P \in BOOLEAN, NEW g3, g3 = Checked(g2, P)
    PROVE  Cuts(g, g3, t, K, n, S2, r2, s)
<1> DEFINE K2 == K \ {n}
<1>1. /\ g2 \in Heaps /\ g2.live = g.live /\ g2.failed = g.failed
      /\ Tree(g2, K2, S2, r2) /\ Threads(g2, K2)
      /\ \A m \in K2 : s \notin S2[m] => Counted(g2, m)
  BY DEF Cuts
<1>2. /\ g3 \in Heaps /\ g3.node = g2.node /\ g3.root = g2.root
      /\ g3.live = g2.live /\ g3.failed = g2.failed
  BY <1>1, CheckedSets
<1>3. \A m \in Nodes : /\ Val(g3, m) = Val(g2, m) /\ Par(g3, m) = Par(g2, m)
                       /\ \A j \in {L, R} : child(g3, m, j) = child(g2, m, j) /\ Dir(g3, m, j) = Dir(g2, m, j)
  BY <1>2 DEF Val, Par, child, Dir
<1>4. Tree(g3, K2, S2, r2)
  BY <1>1, <1>3, SameTree
<1>5. Threads(g3, K2)
  BY <1>1, <1>3, SameThreads
<1>6. \A m \in K2 : Counted(g2, m) => Counted(g3, m)
  BY <1>2 DEF Counted, child, sz
<1>7. RootLeft(g, g2, K, n) => RootLeft(g, g3, K, n)
  BY <1>2, <1>3 DEF RootLeft
<1> QED BY <1>1, <1>2, <1>3, <1>4, <1>5, <1>6, <1>7 DEF Cuts

\* remove_node takes n out of the tree, and erase forgets it.
LEMMA UnhangErases ==
    ASSUME NEW t \in Trees, NEW K \in SUBSET Nodes, Whole(h, t, K), Private(h, K), NEW n \in K,
           is_valid(h, h.root[t]), Unhang(t, n).fault = "none"
    PROVE  Erased(h, Unhang(t, n), t, K, n)
<1> DEFINE g1 == IF Both(h, n) THEN swap_positions(h, t, n, Dir(h, n, R)) ELSE h
           g2 == Checked(g1, Both(h, n) => is_sound(g1, g1.root[t]))
           gu == Unthreaded(g2, n)
           g3 == Unlinked(gu, t, n)
           right == child(gu, n, L) = Null /\ Heir(gu, n) # Null
           g4 == Checked(g3, right => is_sound(g3, g3.root[t]))
           g5 == rebalance(g4, t, Below(gu, n))
           g6 == Checked(g5, is_valid(g5, g5.root[t]))
<1>1. Unhang(t, n) = Forgotten(g6, n)
  BY DEF Unhang, Placed, TakenOver, Dir
<1>2. h \in Heaps /\ n \in Nodes
  BY DEF Whole
<1>3. Swapped(h, g2, t, n)
  <2>1. CASE Both(h, n)
    <3>1. Dir(h, n, R) \in Nodes
      <4>1. PICK S : Tree(h, K, S, h.root[t])
        BY DEF Whole
      <4>2. Succeeds(h, K, S, h.root[t], n, Dir(h, n, R))
        BY <2>1, <4>1, SuccessorIs DEF Whole, Both
      <4> QED BY <4>1, <4>2, InTree DEF Succeeds
    <3>2. SwapsTo(h, g1, t, n, Dir(h, n, R))
      BY <1>2, <2>1, <3>1, SwapSets
    <3>3. g1 \in Heaps
      BY <3>2 DEF SwapsTo
    <3> HIDE DEF g1
    <3>4. /\ g2 \in Heaps /\ g2.node = g1.node /\ g2.root = g1.root /\ g2.live = g1.live
          /\ g2.failed = g1.failed
      <4> DEFINE b == Both(h, n) => is_sound(g1, g1.root[t])
      <4>1. b \in BOOLEAN
        OBVIOUS
      <4> HIDE DEF b
      <4> QED BY <3>3, <4>1, CheckedSets
    <3> HIDE DEF g2
    <3>5. SwapsTo(h, g2, t, n, Dir(h, n, R))
      <4>1. \A m \in Nodes : /\ g2.node[m] = g1.node[m] /\ Val(g2, m) = Val(g1, m) /\ Par(g2, m) = Par(g1, m)
                             /\ \A j : Dir(g2, m, j) = Dir(g1, m, j) /\ child(g2, m, j) = child(g1, m, j)
        BY <3>4 DEF Val, Par, Dir, child
      <4> QED BY <3>2, <3>4, <4>1 DEF SwapsTo
    <3> QED BY <2>1, <3>5 DEF Swapped
  <2>2. CASE ~Both(h, n)
    BY <2>2 DEF Swapped, Checked
  <2> QED BY <2>1, <2>2
<1> HIDE DEF g2
<1>4. CutsOut(h, g3, t, K, n, Below(gu, n))
  BY <1>3, HeirCuts
<1> HIDE DEF g3
<1>5. PICK S2, r2 : Cuts(h, g4, t, K, n, S2, r2, Below(gu, n))
  <2> DEFINE b == right => is_sound(g3, g3.root[t])
  <2>1. b \in BOOLEAN /\ g4 = Checked(g3, b)
    OBVIOUS
  <2> HIDE DEF b, g4
  <2> QED BY <1>4, <2>1, CheckedCuts DEF CutsOut
<1> HIDE DEF g4
<1> DEFINE s == Below(gu, n)
<1> HIDE DEF s
<1>6. Cuts(h, g4, t, K, n, S2, r2, s)
  BY <1>5 DEF s
<1>7. g5 = rebalance(g4, t, s) /\ g6 = Checked(g5, is_valid(g5, g5.root[t]))
  BY DEF s
<1> HIDE DEF g5, g6
<1>8. /\ g4 \in Heaps /\ s \in (K \ {n}) \cup {Null} /\ Tree(g4, K \ {n}, S2, r2)
      /\ \A m \in K \ {n} : s \notin S2[m] => Counted(g4, m)
  BY <1>6 DEF Cuts
<1>9. g5 \in Heaps
  <2>1. CASE s = Null
    <3>1. g5 = Fail(g4, "null")
      BY <1>7, <2>1 DEF rebalance
    <3> QED BY <1>8, <3>1, FailSets
  <2>2. CASE s # Null
    <3>1. s \in K \ {n}
      BY <1>8, <2>2
    <3>2. SettlesTo(g4, r2, t, K \ {n}, rebalance(g4, t, s))
      BY <1>8, <3>1, RebalanceSettlesTo
    <3> QED BY <1>7, <3>2 DEF SettlesTo
  <2> QED BY <2>1, <2>2
<1>10. g6 = g5 /\ is_valid(g5, g5.root[t]) /\ g5.fault = "none"
  <2> DEFINE b == is_valid(g5, g5.root[t])
  <2>1. g6 = Checked(g5, b) /\ b \in BOOLEAN
    BY <1>7 DEF is_valid
  <2>2. b = is_valid(g5, g5.root[t])
    OBVIOUS
  <2> HIDE DEF b
  <2>3. g6 \in Heaps /\ (g6.fault = "none" => g6 = g5 /\ b)
    BY <1>9, <2>1, CheckedSets
  <2>4. Forgotten(g6, n).fault = g6.fault
    BY <2>3 DEF Forgotten, Heaps
  <2> QED BY <1>1, <2>2, <2>3, <2>4
<1>11. Erased(h, Forgotten(rebalance(g4, t, s), n), t, K, n)
  <2>1. rebalance(g4, t, s).fault = "none"
    BY <1>7, <1>10
  <2>2. is_valid(rebalance(g4, t, s), rebalance(g4, t, s).root[t])
    BY <1>7, <1>10
  <2> QED BY <1>2, <1>6, <2>1, <2>2, CutsErase
<1> QED BY <1>1, <1>7, <1>10, <1>11

-----------------------------------------------------------------------------
(* Two trees and a key between them: join.                                 *)

\* A tree on each side of top: KK[i] are the keys of the one on side i.
Parts(g, KK, SS, rr, top) ==
    /\ top \in Nodes /\ Par(g, top) = Null
    /\ \A i \in {L, R} : /\ Tree(g, KK[i], SS[i], rr[i]) /\ KK[i] # {}
                         /\ \A x \in KK[i] : On(i, x, top)
Whole2(KK, top) == KK[L] \cup KK[R] \cup {top}
JoinLinks(g, g2, KK, rr, top) ==
    \A m \in Whole2(KK, top) :
       /\ Par(g2, m) = IF m = rr[L] \/ m = rr[R] THEN top ELSE Par(g, m)
       /\ \A j \in {L, R} : child(g2, m, j) = IF m = top THEN rr[j] ELSE child(g, m, j)
Grown(KK, SS, top) ==
    [m \in Whole2(KK, top) |-> IF m \in KK[L] THEN SS[L][m] ELSE IF m \in KK[R] THEN SS[R][m]
                               ELSE Whole2(KK, top)]

Sorted(KK, SS, rr, top) ==
    /\ top \in Nodes /\ \A i \in {L, R} : KK[i] \subseteq Nodes /\ top \notin KK[i] /\ rr[i] \in KK[i]
    /\ KK[L] \cap KK[R] = {}
    /\ \A i \in {L, R} : \A x \in KK[i] : \A y \in Whole2(KK, top) \ KK[i] : On(i, x, y) /\ ~On(i, y, x)
    /\ \A i \in {L, R} : \A x \in KK[i] : /\ Grown(KK, SS, top)[x] = SS[i][x] /\ SS[i][x] \subseteq KK[i]
                                          /\ x \in SS[i][x]
    /\ Grown(KK, SS, top)[top] = Whole2(KK, top)
    /\ Grown(KK, SS, top) = [m \in Whole2(KK, top) |-> Grown(KK, SS, top)[m]]
    /\ \A m \in Whole2(KK, top) : m = top \/ \E i \in {L, R} : m \in KK[i]

\* What is known of two trees with a key between them.
LEMMA SortedParts ==
    ASSUME NEW g, NEW KK, NEW SS, NEW rr, NEW top, Parts(g, KK, SS, rr, top)
    PROVE  Sorted(KK, SS, rr, top)
<1> DEFINE K == Whole2(KK, top)
           S == Grown(KK, SS, top)
<1>1. \A i \in {L, R} : /\ KK[i] \subseteq Nodes /\ rr[i] \in KK[i] /\ \A x \in KK[i] : On(i, x, top)
                        /\ \A x \in KK[i] : x \in SS[i][x] /\ SS[i][x] \subseteq KK[i]
  BY InTree DEF Parts
<1>2. top \in Nodes
  BY DEF Parts
<1>3. \A i \in {L, R} : top \notin KK[i]
  BY <1>1, <1>2, Orders
<1>4. L \in {L, R} /\ R \in {L, R} /\ Other(L) = R /\ Other(R) = L /\ \A i \in {L, R} : i = L \/ i = R
  BY DEF L, R, Other
<1> HIDE DEF L, R
<1>5. ASSUME NEW i \in {L, R}, NEW x \in KK[i], NEW y \in KK[Other(i)]
      PROVE  On(i, x, y) /\ ~On(i, y, x) /\ x # y
  <2>1. On(i, x, top) /\ On(Other(i), y, top) /\ x \in Nodes /\ y \in Nodes /\ Other(i) \in {L, R}
    BY <1>1, <1>4
  <2>2. On(i, top, y)
    BY <1>2, <2>1, Orders
  <2>3. On(i, x, y)
    BY <1>2, <2>1, <2>2, Orders
  <2> QED BY <2>1, <2>3, Orders
<1>6. KK[L] \cap KK[R] = {}
  BY <1>4, <1>5
<1>7. \A m \in K : m = top \/ \E i \in {L, R} : m \in KK[i]
  BY DEF Whole2
<1>8. ASSUME NEW i \in {L, R}, NEW x \in KK[i], NEW y \in K \ KK[i] PROVE On(i, x, y) /\ ~On(i, y, x)
  <2>1. CASE y = top
    BY <1>1, <1>2, <2>1, Orders
  <2>2. CASE y # top
    <3>1. y \in KK[Other(i)]
      BY <1>4, <1>7, <2>2
    <3> QED BY <1>5, <3>1
  <2> QED BY <2>1, <2>2
<1>9. \A i \in {L, R} : KK[i] \subseteq K
  BY <1>4 DEF Whole2
<1>10. \A i \in {L, R} : \A x \in KK[i] : S[x] = SS[i][x]
  BY <1>4, <1>6, <1>9 DEF Grown
<1>11. S[top] = K /\ S = [m \in K |-> S[m]]
  BY <1>3, <1>4 DEF Grown, Whole2
<1> HIDE DEF K, S
<1> QED BY <1>1, <1>2, <1>3, <1>6, <1>7, <1>8, <1>10, <1>11 DEF Sorted, K, S

\* The subtrees of all three.
LEMMA JoinSpans ==
    ASSUME NEW g, NEW KK, NEW SS, NEW rr, NEW top, Parts(g, KK, SS, rr, top)
    PROVE  /\ Spans(Whole2(KK, top), Grown(KK, SS, top)) /\ Nested(Whole2(KK, top), Grown(KK, SS, top))
           /\ Apart(Whole2(KK, top), Grown(KK, SS, top))
<1> DEFINE K == Whole2(KK, top)
           S == Grown(KK, SS, top)
<1>1. Sorted(KK, SS, rr, top)
  BY SortedParts
<1>2. /\ top \in Nodes /\ \A i \in {L, R} : KK[i] \subseteq Nodes
      /\ \A i \in {L, R} : \A x \in KK[i] : \A y \in K \ KK[i] : On(i, x, y) /\ ~On(i, y, x)
      /\ \A i \in {L, R} : \A x \in KK[i] : S[x] = SS[i][x] /\ SS[i][x] \subseteq KK[i] /\ x \in SS[i][x]
      /\ S[top] = K /\ S = [m \in K |-> S[m]]
      /\ \A m \in K : m = top \/ \E i \in {L, R} : m \in KK[i]
  BY <1>1 DEF Sorted
<1>3. top \in K /\ \A i \in {L, R} : KK[i] \subseteq K
  BY DEF Whole2, L, R
<1>3A. \A i \in {L, R} : Nested(KK[i], SS[i]) /\ Apart(KK[i], SS[i])
  BY DEF Parts, Tree
<1> HIDE DEF K, S
<1>4. Spans(K, S)
  <2>1. \A m \in K : S[m] \in SUBSET K /\ m \in S[m]
    <3> TAKE m \in K
    <3>1. CASE m = top
      BY <1>2, <1>3, <3>1
    <3>2. CASE m # top
      <4>1. PICK i \in {L, R} : m \in KK[i]
        BY <1>2, <3>2
      <4> QED BY <1>2, <1>3, <4>1
    <3> QED BY <3>1, <3>2
  <2>2. S \in [K -> SUBSET K]
    BY <1>2, <2>1
  <2>3. K \subseteq Nodes
    BY <1>2
  <2> QED BY <2>1, <2>2, <2>3 DEF Spans
<1>5. Nested(K, S)
  <2> SUFFICES ASSUME NEW n \in K, NEW m \in S[n] PROVE S[m] \subseteq S[n]
    BY DEF Nested
  <2>1. CASE n = top
    <3>1. S[n] = K /\ m \in K
      BY <1>2, <2>1
    <3> QED BY <1>4, <3>1 DEF Spans
  <2>2. CASE n # top
    <3>1. PICK i \in {L, R} : n \in KK[i]
      BY <1>2, <2>2
    <3>2. S[n] = SS[i][n] /\ m \in KK[i] /\ S[m] = SS[i][m]
      BY <1>2, <3>1
    <3> QED BY <1>3A, <3>1, <3>2 DEF Nested
  <2> QED BY <2>1, <2>2
<1>6. Apart(K, S)
  <2> SUFFICES ASSUME NEW m \in K, NEW x \in S[m], NEW z \in S[m], NEW w \in K \ S[m], NEW j \in {L, R}, On(j, w, x)
               PROVE  On(j, w, z)
    BY DEF Apart
  <2>1. m # top
    BY <1>2
  <2>2. PICK i \in {L, R} : m \in KK[i]
    BY <1>2, <2>1
  <2>3. S[m] = SS[i][m] /\ x \in KK[i] /\ z \in KK[i]
    BY <1>2, <2>2
  <2>4. CASE w \in KK[i]
    BY <1>3A, <2>2, <2>3, <2>4 DEF Apart
  <2>5. CASE w \notin KK[i]
    <3>1. On(i, x, w) /\ On(i, z, w) /\ x \in Nodes /\ z \in Nodes /\ w \in Nodes
      <4>1. K \subseteq Nodes
        BY <1>4 DEF Spans
      <4> QED BY <1>2, <2>3, <2>5, <4>1
    <3>2. Other(i) \in {L, R} /\ (j = i \/ j = Other(i))
      BY DEF L, R, Other
    <3>3. j = Other(i)
      BY <3>1, <3>2, Orders
    <3> QED BY <3>1, <3>3, Orders
  <2> QED BY <2>4, <2>5
<1> QED BY <1>4, <1>5, <1>6 DEF K, S

\* The three make one tree.
LEMMA JoinTree ==
    ASSUME NEW g, NEW KK, NEW SS, NEW rr, NEW top, Parts(g, KK, SS, rr, top),
           NEW g2, JoinLinks(g, g2, KK, rr, top)
    PROVE  Tree(g2, Whole2(KK, top), Grown(KK, SS, top), top)
<1> DEFINE K == Whole2(KK, top)
           S == Grown(KK, SS, top)
<1>1. Sorted(KK, SS, rr, top)
  BY SortedParts
<1>2. /\ top \in Nodes /\ \A i \in {L, R} : KK[i] \subseteq Nodes /\ top \notin KK[i] /\ rr[i] \in KK[i]
      /\ KK[L] \cap KK[R] = {}
      /\ \A i \in {L, R} : \A x \in KK[i] : \A y \in K \ KK[i] : On(i, x, y) /\ ~On(i, y, x)
      /\ \A i \in {L, R} : \A x \in KK[i] : S[x] = SS[i][x] /\ SS[i][x] \subseteq KK[i] /\ x \in SS[i][x]
      /\ S[top] = K
      /\ \A m \in K : m = top \/ \E i \in {L, R} : m \in KK[i]
  BY <1>1 DEF Sorted
<1>3. top \in K /\ \A i \in {L, R} : KK[i] \subseteq K
  BY DEF Whole2, L, R
<1>4. \A i \in {L, R} : Tree(g, KK[i], SS[i], rr[i]) /\ \A x \in KK[i] : On(i, x, top)
  BY DEF Parts
<1>5. Par(g, top) = Null /\ Null \notin Nodes
  BY KeysArePositive DEF Parts
<1>6. \A m \in K : /\ Par(g2, m) = IF m = rr[L] \/ m = rr[R] THEN top ELSE Par(g, m)
                   /\ \A j \in {L, R} : child(g2, m, j) = IF m = top THEN rr[j] ELSE child(g, m, j)
  BY DEF JoinLinks
<1>7. \A i \in {L, R} : \A x \in KK[i] : (x = rr[L] \/ x = rr[R]) <=> x = rr[i]
  <2>1. L \in {L, R} /\ R \in {L, R} /\ \A i \in {L, R} : i = L \/ i = R
    OBVIOUS
  <2> HIDE DEF L, R
  <2> QED BY <1>2, <2>1
<1>8. Spans(K, S) /\ Nested(K, S) /\ Apart(K, S)
  BY JoinSpans
<1> HIDE DEF K, S
<1>9. RootedAt(g2, K, S, top)
  <2>1. Par(g2, top) = Null
    <3>1. top # rr[L] /\ top # rr[R]
      BY <1>2 DEF L, R
    <3> QED BY <1>3, <1>5, <1>6, <3>1
  <2> QED BY <1>2, <1>3, <2>1 DEF RootedAt
<1>10. Kids(g2, K, S)
  <2> SUFFICES ASSUME NEW m \in K, NEW j \in {L, R} PROVE Kid(g2, K, S, m, j)
    BY DEF Kids
  <2>1. CASE m = top
    <3>1. child(g2, m, j) = rr[j] /\ rr[j] \in KK[j] /\ rr[j] # Null /\ rr[j] \in K
      BY <1>2, <1>3, <1>5, <1>6, <2>1
    <3>2. Par(g2, rr[j]) = m
      <4>1. rr[j] = rr[L] \/ rr[j] = rr[R]
        BY DEF L, R
      <4> QED BY <1>6, <2>1, <3>1, <4>1
    <3>3. S[rr[j]] = KK[j]
      <4>1. SS[j][rr[j]] = KK[j]
        BY <1>4, <3>1, InTree
      <4> QED BY <1>2, <3>1, <4>1
    <3>4. KK[j] = {k \in S[m] : On(j, k, m)}
      <4>1. ASSUME NEW k \in K, On(j, k, top) PROVE k \in KK[j]
        <5>1. k # top
          BY <1>2, <4>1, Orders
        <5>2. PICK i \in {L, R} : k \in KK[i]
          BY <1>2, <5>1
        <5>3. On(i, k, top) /\ k \in Nodes
          BY <1>2, <1>4, <5>2
        <5>4. i = j \/ i = Other(j)
          BY DEF L, R, Other
        <5>5. i = j
          BY <1>2, <4>1, <5>3, <5>4, Orders
        <5> QED BY <5>2, <5>5
      <4> QED BY <1>2, <1>3, <1>4, <2>1, <4>1
    <3> QED BY <3>1, <3>2, <3>3, <3>4 DEF Kid
  <2>2. CASE m # top
    <3>1. PICK i \in {L, R} : m \in KK[i]
      BY <1>2, <2>2
    <3>2. child(g2, m, j) = child(g, m, j) /\ S[m] = SS[i][m]
      BY <1>2, <1>6, <2>2, <3>1
    <3> DEFINE T == SS[i]
               A == KK[i]
               q == rr[i]
    <3>3. Tree(g, A, T, q) /\ m \in A
      BY <1>4, <3>1
    <3>4. A \subseteq K /\ (\A x \in A : S[x] = T[x]) /\ \A x \in A : x = rr[L] \/ x = rr[R] <=> x = q
      BY <1>2, <1>3, <1>7
    <3>5. S[m] = T[m]
      BY <3>2
    <3> HIDE DEF T, A, q
    <3>6. CASE child(g, m, j) = Null
      <4>1. \A k \in T[m] : ~On(j, k, m)
        BY <3>3, <3>6, NoKid
      <4> QED BY <3>2, <3>5, <3>6, <4>1 DEF Kid
    <3>7. CASE child(g, m, j) # Null
      <4> DEFINE c == child(g, m, j)
      <4>1. c \in A /\ Par(g, c) = m /\ T[c] = {k \in T[m] : On(j, k, m)}
        BY <3>3, <3>7, KidIs
      <4>2. c # q
        <5>1. m # Null /\ Par(g, q) = Null
          BY <3>3, InTree
        <5> QED BY <4>1, <5>1
      <4>3. child(g2, m, j) = c /\ c # Null
        BY <3>2, <3>7
      <4> HIDE DEF c
      <4>4. Par(g2, c) = m /\ S[c] = T[c] /\ c \in K
        BY <1>6, <3>4, <4>1, <4>2
      <4> QED BY <3>5, <4>1, <4>3, <4>4 DEF Kid
    <3> QED BY <3>6, <3>7
  <2> QED BY <2>1, <2>2
<1>11. Parents(g2, K, top)
  <2> SUFFICES ASSUME NEW m \in K \ {top}
               PROVE  Par(g2, m) \in K /\ \E j \in {L, R} : child(g2, Par(g2, m), j) = m
    BY DEF Parents
  <2>1. PICK i \in {L, R} : m \in KK[i]
    BY <1>2
  <2>2. CASE m = rr[i]
    <3>1. Par(g2, m) = top
      BY <1>6, <1>7, <2>1, <2>2
    <3>2. child(g2, top, i) = m
      BY <1>3, <1>6, <2>2
    <3> QED BY <1>3, <3>1, <3>2
  <2>3. CASE m # rr[i]
    <3>1. Par(g2, m) = Par(g, m)
      BY <1>6, <1>7, <2>1, <2>3
    <3>2. Par(g, m) \in KK[i] /\ \E j \in {L, R} : child(g, Par(g, m), j) = m
      <4>1. Parents(g, KK[i], rr[i])
        BY <1>4 DEF Tree
      <4> QED BY <2>1, <2>3, <4>1 DEF Parents
    <3>3. Par(g, m) \in K /\ Par(g, m) # top
      BY <1>2, <1>3, <3>2
    <3> QED BY <1>6, <3>1, <3>2, <3>3
  <2> QED BY <2>2, <2>3
<1>12. Upward(g2, K, S)
  <2> SUFFICES ASSUME NEW n \in K, NEW m \in S[n] \ {n} PROVE Par(g2, m) \in S[n]
    BY DEF Upward
  <2>0. m \in K
    BY <1>8 DEF Spans
  <2>1. CASE n = top
    <3>1. m \in K \ {top} /\ S[n] = K
      BY <1>2, <2>0, <2>1
    <3> QED BY <1>11, <3>1 DEF Parents
  <2>2. CASE n # top
    <3>1. PICK i \in {L, R} : n \in KK[i]
      BY <1>2, <2>2
    <3>2. S[n] = SS[i][n] /\ m \in KK[i]
      BY <1>2, <3>1
    <3>3. Par(g, m) \in SS[i][n]
      BY <1>4, <3>1, <3>2, InTree
    <3>4. m # rr[i]
      <4>1. Par(g, rr[i]) = Null
        BY <1>2, <1>4, InTree
      <4>2. SS[i][n] \subseteq Nodes
        BY <1>2, <3>1
      <4> QED BY <1>5, <3>3, <4>1, <4>2
    <3>5. Par(g2, m) = Par(g, m)
      BY <1>6, <1>7, <2>0, <3>2, <3>4
    <3> QED BY <3>2, <3>3, <3>5
  <2> QED BY <2>1, <2>2
<1> QED BY <1>8, <1>9, <1>10, <1>11, <1>12 DEF Tree, K, S

\* oo[i] is the node of the tree on side i that is next to top.
JoinDirs(g, g2, KK, oo, top) ==
    \A m \in Whole2(KK, top) : \A j \in {L, R} :
       Dir(g2, m, j) = IF m = top THEN oo[j] ELSE IF m = oo[Other(j)] THEN top ELSE Dir(g, m, j)

\* And one thread.
LEMMA JoinThreads ==
    ASSUME NEW g, NEW KK, NEW SS, NEW rr, NEW top, Parts(g, KK, SS, rr, top),
           \A i \in {L, R} : Threads(g, KK[i]), NEW oo,
           \A i \in {L, R} : oo[i] \in KK[i] /\ \A k \in KK[i] : ~On(Other(i), k, oo[i]),
           NEW g2, JoinDirs(g, g2, KK, oo, top)
    PROVE  Threads(g2, Whole2(KK, top))
<1> DEFINE K == Whole2(KK, top)
<1>1. Sorted(KK, SS, rr, top)
  BY SortedParts
<1>2. /\ top \in Nodes /\ \A i \in {L, R} : KK[i] \subseteq Nodes /\ top \notin KK[i] /\ rr[i] \in KK[i]
      /\ KK[L] \cap KK[R] = {}
      /\ \A i \in {L, R} : \A x \in KK[i] : \A y \in K \ KK[i] : On(i, x, y) /\ ~On(i, y, x)
      /\ \A m \in K : m = top \/ \E i \in {L, R} : m \in KK[i]
  BY <1>1 DEF Sorted
<1>3. top \in K /\ \A i \in {L, R} : KK[i] \subseteq K
  BY DEF Whole2, L, R
<1>4. \A i \in {L, R} : \A x \in KK[i] : On(i, x, top)
  BY DEF Parts
<1>5. Null \notin Nodes
  BY KeysArePositive
<1>6. \A m \in K : \A j \in {L, R} :
       Dir(g2, m, j) = IF m = top THEN oo[j] ELSE IF m = oo[Other(j)] THEN top ELSE Dir(g, m, j)
  BY DEF JoinDirs
<1>7. \A i \in {L, R} : Other(i) \in {L, R} /\ Other(Other(i)) = i /\ Other(i) # i /\ KK[i] \cap KK[Other(i)] = {}
  BY <1>2 DEF L, R, Other
<1>8. \A i, j \in {L, R} : i = j \/ i = Other(j)
  BY DEF L, R, Other
<1> HIDE DEF K
<1>9. K \subseteq Nodes
  BY <1>2
<1> SUFFICES ASSUME NEW m \in K, NEW j \in {L, R} PROVE Thread(g2, K, m, j)
  BY DEF Threads, K
<1>10. \A k \in K \ KK[j] : \A x \in KK[j] : ~On(j, k, x)
  BY <1>2
<1>11. CASE m = top
  <2>1. Dir(g2, m, j) = oo[j] /\ oo[j] \in KK[j] /\ oo[j] # Null
    BY <1>2, <1>5, <1>6, <1>11
  <2>2. ASSUME NEW k \in K, On(j, k, top) PROVE k \in KK[j]
    <3>1. k # top
      BY <1>2, <2>2, Orders
    <3>2. PICK i \in {L, R} : k \in KK[i]
      BY <1>2, <3>1
    <3>3. On(i, k, top)
      BY <1>4, <3>2
    <3>4. i = j
      BY <1>2, <1>8, <1>9, <2>2, <3>3, Orders
    <3> QED BY <3>2, <3>4
  <2>3. \A k \in KK[j] : k = oo[j] \/ On(j, k, oo[j])
    <3> TAKE k \in KK[j]
    <3>1. ~On(Other(j), k, oo[j]) /\ k \in Nodes /\ oo[j] \in Nodes
      BY <1>2, <2>1
    <3> QED BY <3>1, Orders
  <2>4. On(j, oo[j], top)
    BY <1>4, <2>1
  <2> QED BY <1>3, <1>11, <2>1, <2>2, <2>3, <2>4 DEF Thread
<1>12. CASE m \in KK[j]
  <2>1. m # top /\ m # oo[Other(j)]
    BY <1>2, <1>7, <1>12
  <2>2. Dir(g2, m, j) = Dir(g, m, j)
    BY <1>6, <2>1
  <2>3. Thread(g, KK[j], m, j)
    BY <1>12 DEF Threads
  <2> QED BY <1>3, <1>10, <1>12, <2>2, <2>3 DEF Thread
<1>13. CASE m \in KK[Other(j)]
  <2> DEFINE i == Other(j)
  <2>1. i \in {L, R} /\ m \in KK[i] /\ m # top /\ oo[i] \in KK[i]
    BY <1>2, <1>7, <1>13
  <2>2. CASE m = oo[i]
    <3>1. Dir(g2, m, j) = top /\ top # Null
      BY <1>2, <1>5, <1>6, <2>1, <2>2
    <3>2. On(j, top, m)
      <4>1. On(i, m, top)
        BY <1>4, <2>1
      <4> QED BY <1>2, <1>9, <4>1, Orders
    <3>3. ASSUME NEW k \in K, On(j, k, m) PROVE k = top \/ On(j, k, top)
      <4>1. k \notin KK[i]
        <5>1. Other(i) = j
          BY <1>7
        <5> QED BY <2>1, <2>2, <3>3, <5>1
      <4>2. CASE k # top
        <5>1. k \in KK[j]
          BY <1>2, <1>8, <4>1, <4>2
        <5> QED BY <1>4, <5>1
      <4> QED BY <4>2
    <3> QED BY <1>3, <3>1, <3>2, <3>3 DEF Thread
  <2>3. CASE m # oo[i]
    <3>1. Dir(g2, m, j) = Dir(g, m, j)
      BY <1>6, <2>1, <2>3
    <3>2. Thread(g, KK[i], m, j)
      BY <2>1 DEF Threads
    <3>3. On(j, oo[i], m)
      <4>1. Other(i) = j /\ ~On(j, m, oo[i]) /\ m \in Nodes /\ oo[i] \in Nodes
        BY <1>2, <1>7, <2>1
      <4>2. On(i, m, oo[i])
        BY <2>1, <2>3, <4>1, Orders
      <4> QED BY <4>1, <4>2, Orders
    <3>4. Dir(g, m, j) # Null /\ Dir(g, m, j) \in KK[i] /\ On(j, Dir(g, m, j), m)
          /\ \A k \in KK[i] : On(j, k, m) => k = Dir(g, m, j) \/ On(j, k, Dir(g, m, j))
      BY <2>1, <3>2, <3>3 DEF Thread
    <3>5. \A k \in K \ KK[i] : On(j, k, Dir(g, m, j))
      <4> TAKE k \in K \ KK[i]
      <4>1. On(i, Dir(g, m, j), k) /\ Dir(g, m, j) \in Nodes /\ k \in Nodes
        BY <1>2, <1>9, <2>1, <3>4
      <4>2. j = Other(i)
        BY <1>7
      <4> QED BY <2>1, <4>1, <4>2, Orders
    <3> QED BY <1>3, <2>1, <3>1, <3>4, <3>5 DEF Thread
  <2> QED BY <2>2, <2>3
<1> QED BY <1>2, <1>8, <1>11, <1>12, <1>13

\* join, before the heights are looked at.
Tied(g, top, a, b, al, bf) ==
    LET g1 == [g EXCEPT !.node[top].cld = <<a, b>>, !.node[top].dir = <<al, bf>>]
        g2 == SetDir(SetDir(g1, al, R, top), bf, L, top)
    IN  SetPar(SetPar(g2, a, top), b, top)
Ties(g, g2, top, a, b, al, bf) ==
    /\ g2 \in Heaps /\ SameButNodes(g, g2)
    /\ \A m \in Nodes :
          /\ Val(g2, m) = Val(g, m) /\ g2.node[m].sz = g.node[m].sz
          /\ Par(g2, m) = IF m = a \/ m = b THEN top ELSE Par(g, m)
          /\ \A j \in {L, R} :
                /\ child(g2, m, j) = IF m = top THEN <<a, b>>[j] ELSE child(g, m, j)
                /\ Dir(g2, m, j) = IF m = bf /\ j = L THEN top ELSE IF m = al /\ j = R THEN top
                                   ELSE IF m = top THEN <<al, bf>>[j] ELSE Dir(g, m, j)
    /\ \A m \in Nodes \ {top, a, b, al, bf} : g2.node[m] = g.node[m]

TopIsSet(g, g2, n, c, d) ==
    /\ g2 \in Heaps /\ SameButNodes(g, g2)
    /\ g2.node[n].val = g.node[n].val /\ g2.node[n].sz = g.node[n].sz /\ g2.node[n].par = g.node[n].par
    /\ g2.node[n].cld = c /\ g2.node[n].dir = d
    /\ \A m \in Nodes \ {n} : g2.node[m] = g.node[m]

\* The links of the node that becomes the top.
LEMMA TopSets ==
    ASSUME NEW g \in Heaps, NEW n \in Nodes, NEW c \in [{L, R} -> Links], NEW d \in [{L, R} -> Links]
    PROVE  TopIsSet(g, [g EXCEPT !.node[n].cld = c, !.node[n].dir = d], n, c, d)
<1> DEFINE o == [g.node[n] EXCEPT !.cld = c, !.dir = d]
           g2 == [g EXCEPT !.node[n].cld = c, !.node[n].dir = d]
<1>1. g.node[n] \in Node
  BY NodeTypes
<1>2. /\ o \in Node /\ o.val = g.node[n].val /\ o.sz = g.node[n].sz /\ o.par = g.node[n].par
      /\ o.cld = c /\ o.dir = d
  BY <1>1 DEF Node
<1>3. g2 = WithNode(g, n, o)
  BY <1>1 DEF WithNode, Heaps, Node
<1> HIDE DEF o, g2
<1>4. /\ g2 \in Heaps /\ SameButNodes(g, g2) /\ g2.node[n] = o
      /\ \A m \in Nodes \ {n} : g2.node[m] = g.node[m]
  BY <1>2, <1>3, Replaced
<1>5. TopIsSet(g, g2, n, c, d)
  BY <1>2, <1>4 DEF TopIsSet
<1> QED BY <1>5 DEF g2

\* All that join writes before it looks at the heights.
LEMMA TiedSets ==
    ASSUME NEW g \in Heaps, NEW top \in Nodes, NEW a \in Nodes, NEW b \in Nodes, NEW al \in Nodes, NEW bf \in Nodes
    PROVE  Ties(g, Tied(g, top, a, b, al, bf), top, a, b, al, bf)
<1> DEFINE c == <<a, b>>
           d == <<al, bf>>
           o == [g.node[top] EXCEPT !.cld = c, !.dir = d]
           g1 == [g EXCEPT !.node[top].cld = c, !.node[top].dir = d]
           g2 == SetDir(g1, al, R, top)
           g3 == SetDir(g2, bf, L, top)
           g4 == SetPar(g3, a, top)
           g5 == SetPar(g4, b, top)
<1>1. /\ top \in Links /\ a \in Links /\ b \in Links /\ al \in Links /\ bf \in Links
      /\ L \in {L, R} /\ R \in {L, R} /\ L # R
  BY DEF Links, L, R
<1>2. c \in [{L, R} -> Links] /\ d \in [{L, R} -> Links]
  BY <1>1, PairOfLinks
<1>3. c = <<a, b>> /\ d = <<al, bf>> /\ g5 = Tied(g, top, a, b, al, bf)
  BY DEF Tied
<1> HIDE DEF c, d
<1>7. TopIsSet(g, g1, top, c, d)
  BY <1>2, TopSets
<1> HIDE DEF g1
<1>7a. g1 \in Heaps
  BY <1>7 DEF TopIsSet
<1>8. DirIsSet(g1, g2, al, R, top)
  BY <1>1, <1>7a, SetDirSets
<1> HIDE DEF g2
<1>9. g2 \in Heaps
  BY <1>8 DEF DirIsSet
<1>10. DirIsSet(g2, g3, bf, L, top)
  BY <1>1, <1>9, SetDirSets
<1> HIDE DEF g3
<1>11. g3 \in Heaps
  BY <1>10 DEF DirIsSet
<1>12. ParIsSet(g3, g4, a, top)
  BY <1>1, <1>11, SetParSets
<1> HIDE DEF g4
<1>13. g4 \in Heaps
  BY <1>12 DEF ParIsSet
<1>14. ParIsSet(g4, g5, b, top)
  BY <1>1, <1>13, SetParSets
<1> HIDE DEF g5
<1>15. g5 \in Heaps /\ SameButNodes(g, g5)
  BY <1>7, <1>8, <1>10, <1>12, <1>14 DEF TopIsSet, DirIsSet, ParIsSet, SameButNodes
<1>16. \A m \in Nodes \ {top, a, b, al, bf} : g5.node[m] = g.node[m]
  BY <1>7, <1>8, <1>10, <1>12, <1>14 DEF TopIsSet, DirIsSet, ParIsSet
<1>17. \A m \in Nodes : /\ Val(g1, m) = Val(g, m) /\ g1.node[m].sz = g.node[m].sz /\ Par(g1, m) = Par(g, m)
                        /\ \A j \in {L, R} : /\ child(g1, m, j) = IF m = top THEN c[j] ELSE child(g, m, j)
                                             /\ Dir(g1, m, j) = IF m = top THEN d[j] ELSE Dir(g, m, j)
  BY <1>7 DEF TopIsSet, Val, Par, child, Dir
<1>18. \A m \in Nodes : /\ Val(g5, m) = Val(g1, m) /\ g5.node[m].sz = g1.node[m].sz
                        /\ Par(g5, m) = IF m = b THEN top ELSE IF m = a THEN top ELSE Par(g1, m)
                        /\ \A j \in {L, R} : child(g5, m, j) = child(g1, m, j) /\ Dir(g5, m, j) = Dir(g3, m, j)
  BY <1>8, <1>10, <1>12, <1>14 DEF DirIsSet, ParIsSet, Val, Par, child, Dir
<1>19. \A m \in Nodes : \A j \in {L, R} :
          Dir(g3, m, j) = IF m = bf /\ j = L THEN top ELSE IF m = al /\ j = R THEN top ELSE Dir(g1, m, j)
  BY <1>8, <1>10 DEF DirIsSet
<1>20. Ties(g, g5, top, a, b, al, bf)
  BY <1>3, <1>15, <1>16, <1>17, <1>18, <1>19 DEF Ties
<1> QED BY <1>3, <1>20

\* The loop of join on the root, and that of rotate_up on a node.
LevelsFrom(g, t, p, N, after) ==
    after = [i \in 0 .. N |-> IF i = 0 THEN g ELSE Level(after[i - 1], t, p)]

\* There is such a function, for any number of rounds.
LEMMA LevelsExist ==
    ASSUME NEW g, NEW t, NEW p, NEW N \in Nat
    PROVE  \E after : LevelsFrom(g, t, p, N, after)
<1> DEFINE T == {k \in Nat : ~\E f : LevelsFrom(g, t, p, k, f)}
<1>1. ASSUME T # {} PROVE FALSE
  <2>1. PICK k \in T : \A j \in T : k <= j
    BY <1>1, Least
  <2>2. k # 0
    <3>1. LevelsFrom(g, t, p, 0, [j \in 0 .. 0 |-> g])
      BY DEF LevelsFrom
    <3> QED BY <2>1, <3>1
  <2>3. k - 1 \in Nat /\ k - 1 \notin T /\ k \in Nat
    BY <2>1, <2>2
  <2>4. PICK f : LevelsFrom(g, t, p, k - 1, f)
    BY <2>3
  <2> DEFINE f2 == [j \in 0 .. k |-> IF j = k THEN Level(f[k - 1], t, p) ELSE f[j]]
  <2>5. \A j \in 0 .. k - 1 : f[j] = IF j = 0 THEN g ELSE Level(f[j - 1], t, p)
    BY <2>4 DEF LevelsFrom
  <2>6. \A j \in 0 .. k - 1 : f2[j] = f[j]
    BY <2>3
  <2>7. ASSUME NEW j \in 0 .. k PROVE f2[j] = IF j = 0 THEN g ELSE Level(f2[j - 1], t, p)
    <3>1. CASE j = k
      <4>1. f2[k - 1] = f[k - 1] /\ f2[k] = Level(f[k - 1], t, p)
        BY <2>2, <2>3, <2>6
      <4> QED BY <3>1, <4>1, <2>2
    <3>2. CASE j # k
      <4>1. j \in 0 .. k - 1 /\ (j # 0 => j - 1 \in 0 .. k - 1)
        BY <3>2, <2>3
      <4> QED BY <4>1, <2>5, <2>6
    <3> QED BY <3>1, <3>2
  <2>8. LevelsFrom(g, t, p, k, f2)
    <3>1. f2 = [j \in 0 .. k |-> f2[j]]
      OBVIOUS
    <3> HIDE DEF f2
    <3> QED BY <2>7, <3>1 DEF LevelsFrom
  <2> QED BY <2>1, <2>8
<1> QED BY <1>1

\* Settle ends in the last of its heaps.
LEMMA SettleSteps ==
    ASSUME NEW g, NEW t, NEW p
    PROVE  \E after : /\ \A i \in 0 .. Rounds : after[i] = IF i = 0 THEN g ELSE Level(after[i - 1], t, p)
                      /\ Settle(g, t, p) = IF imbalanced(after[Rounds], Top(after[Rounds], t, p))
                                           THEN Fail(after[Rounds], "endless") ELSE after[Rounds]
<1> DEFINE after == CHOOSE f : LevelsFrom(g, t, p, Rounds, f)
<1>1. LevelsFrom(g, t, p, Rounds, after)
  BY RoundsExist, LevelsExist
<1>2. Settle(g, t, p) = IF imbalanced(after[Rounds], Top(after[Rounds], t, p))
                        THEN Fail(after[Rounds], "endless") ELSE after[Rounds]
  BY DEF Settle, LevelsFrom
<1> HIDE DEF after
<1>3. \A i \in 0 .. Rounds : after[i] = IF i = 0 THEN g ELSE Level(after[i - 1], t, p)
  BY <1>1 DEF LevelsFrom
<1> QED BY <1>2, <1>3

\* g is h with its tree t turned into one of the keys of K, the root of which
\* need not be counted.
Stands(g0, t, K, g, S, q) ==
    /\ g \in Heaps /\ Tree(g, K, S, q) /\ q \in K /\ Shuffled(g0, g, t, K) /\ g.root[t] = q
    /\ \A m \in K \ {q} : Counted(g, m)
StandsCounted(g0, t, K, g) == \E S, q : Stands(g0, t, K, g, S, q) /\ Counted(g, q)
LevelsUp(g0, t, K, g, g2) == /\ StandsCounted(g0, t, K, g2)
                             /\ g2.fault = "none" => g.fault = "none"

\* update changes no link.
LEMMA UpdateShuffles ==
    ASSUME NEW g0, NEW t, NEW K, NEW g, NEW n \in K, NEW g2, Shuffled(g0, g, t, K), Updated(g, g2, n)
    PROVE  Shuffled(g0, g2, t, K)
BY DEF Shuffled, Updated, SameButNodes, SameLinks

\* One round on the root.
LEMMA LevelStands ==
    ASSUME NEW g0, NEW t \in Trees, NEW K, NEW g, NEW S, NEW q, Stands(g0, t, K, g, S, q)
    PROVE  LevelsUp(g0, t, K, g, Level(g, t, Null))
<1> DEFINE u == update(g, q)
           g2 == rebalance_local(u, t, q)
<1>1. /\ g \in Heaps /\ Tree(g, K, S, q) /\ q \in K /\ Shuffled(g0, g, t, K) /\ g.root[t] = q
      /\ \A m \in K \ {q} : Counted(g, m)
  BY DEF Stands
<1>2. K \subseteq Nodes /\ S[q] = K /\ \A m \in K : m \in S[m] /\ S[m] \subseteq K
  BY <1>1, InTree
<1>3. Updated(g, u, q)
  BY <1>1, <1>2, UpdateSets
<1>4. Level(g, t, Null) = IF u.fault = "none" /\ imbalanced(u, q) THEN g2 ELSE u
  BY <1>1 DEF Level, Top
<1> HIDE DEF u
<1>5. /\ Tree(u, K, S, q) /\ Counted(u, q)
      /\ \A m \in K : (q \notin S[m] \/ Counted(g, q)) /\ Counted(g, m) => Counted(u, m)
  BY <1>1, <1>3, UpdateCounts
<1>6. \A m \in K \ {q} : q \notin S[m]
  BY <1>1, <1>2, Above
<1>7. \A m \in K : Counted(u, m)
  BY <1>1, <1>5, <1>6
<1>8. u \in Heaps /\ u.root[t] = q /\ u.fault = g.fault /\ Shuffled(g0, u, t, K)
  BY <1>1, <1>3, UpdateShuffles DEF Updated, SameButNodes
<1>9. Stands(g0, t, K, u, S, q)
  BY <1>1, <1>5, <1>7, <1>8 DEF Stands
<1>10. LevelsUp(g0, t, K, g, u)
  BY <1>5, <1>8, <1>9 DEF LevelsUp, StandsCounted
<1>11. LevelsUp(g0, t, K, g, g2)
  <2>1. /\ g2.fault = "none" => u.fault = "none"
        /\ \E S2, r2 : Balances(u, S, q, t, K, q, g2, S2, r2)
    <3>1. \A m \in S[q] \ {q} : Counted(u, m)
      BY <1>2, <1>7
    <3> QED BY <1>1, <1>5, <1>8, <3>1, LocalBalances
  <2> HIDE DEF g2
  <2>2. PICK S2, r2 : Balances(u, S, q, t, K, q, g2, S2, r2)
    BY <2>1
  <2>3. /\ g2 \in Heaps /\ Tree(g2, K, S2, r2) /\ Shuffled(u, g2, t, K)
        /\ Follows(u, q, t, g2, r2) /\ \A m \in K : Counted(g2, m)
    BY <1>2, <2>2 DEF Balances
  <2>4. g2.root[t] = r2
    BY <1>8, <2>3 DEF Follows
  <2>5. Shuffled(g0, g2, t, K)
    BY <1>8, <2>3, ShuffledTwice
  <2>6. r2 \in K
    BY <1>1, <2>3, InTree
  <2>7. Stands(g0, t, K, g2, S2, r2) /\ Counted(g2, r2)
    BY <2>3, <2>4, <2>5, <2>6 DEF Stands
  <2> QED BY <1>8, <2>1, <2>7 DEF LevelsUp, StandsCounted
<1> QED BY <1>4, <1>10, <1>11

\* There is one round at least.
LEMMA RoundsPositive ==
    ASSUME NEW K \in SUBSET Nodes, K # {}
    PROVE  Rounds >= 1
<1>1. Nodes # {} /\ Cardinality(Nodes) \in Nat
  BY FiniteMemory, FS_CardinalityType
<1>2. Cardinality(Nodes) # 0
  BY <1>1, FiniteMemory, FS_EmptySet
<1> QED BY <1>1, <1>2 DEF Rounds, Size

SettlesUp(g0, t, K, g, g2) == g2 \in Heaps /\ (g2.fault = "none" => LevelsUp(g0, t, K, g, g2))

\* All rounds on the root.
LEMMA SettleStands ==
    ASSUME NEW g0, NEW t \in Trees, NEW K, NEW g, NEW S, NEW q, Stands(g0, t, K, g, S, q)
    PROVE  SettlesUp(g0, t, K, g, Settle(g, t, Null))
<1>1. PICK after : /\ \A i \in 0 .. Rounds : after[i] = IF i = 0 THEN g ELSE Level(after[i - 1], t, Null)
                   /\ Settle(g, t, Null) = IF imbalanced(after[Rounds], Top(after[Rounds], t, Null))
                                           THEN Fail(after[Rounds], "endless") ELSE after[Rounds]
  BY SettleSteps
<1>2. Rounds \in Nat /\ Rounds >= 1
  <2>1. K \in SUBSET Nodes /\ K # {}
    BY InTree DEF Stands
  <2> QED BY <2>1, RoundsExist, RoundsPositive
<1>3. ASSUME NEW i \in 1 .. Rounds, i = 1 \/ LevelsUp(g0, t, K, g, after[i - 1])
      PROVE  LevelsUp(g0, t, K, g, after[i])
  <2>1. CASE i = 1
    <3>1. after[0] = g /\ after[1] = Level(after[0], t, Null)
      BY <1>1, <1>2
    <3> QED BY <2>1, <3>1, LevelStands
  <2>2. CASE i # 1
    <3>1. after[i] = Level(after[i - 1], t, Null)
      BY <1>1, <1>2
    <3>2. LevelsUp(g0, t, K, g, after[i - 1])
      BY <1>3, <2>2
    <3>3. PICK S2, q2 : Stands(g0, t, K, after[i - 1], S2, q2)
      BY <3>2 DEF LevelsUp, StandsCounted
    <3>4. LevelsUp(g0, t, K, after[i - 1], after[i])
      BY <3>1, <3>3, LevelStands
    <3> QED BY <3>2, <3>4 DEF LevelsUp
  <2> QED BY <2>1, <2>2
<1>4. ASSUME ~LevelsUp(g0, t, K, g, after[Rounds]) PROVE FALSE
  <2> DEFINE T == {i \in 1 .. Rounds : ~LevelsUp(g0, t, K, g, after[i])}
  <2>1. Rounds \in T
    BY <1>2, <1>4
  <2>2. T \in SUBSET Nat /\ T # {}
    BY <2>1
  <2>3. \A i \in T : i \in 1 .. Rounds /\ ~LevelsUp(g0, t, K, g, after[i])
    OBVIOUS
  <2>4. \A i \in 1 .. Rounds : i \notin T => LevelsUp(g0, t, K, g, after[i])
    OBVIOUS
  <2> HIDE DEF T
  <2>5. PICK i \in T : \A j \in T : i <= j
    BY <2>2, Least
  <2>6. i # 1 => i - 1 \in 1 .. Rounds /\ i - 1 \notin T
    BY <2>3, <2>5, <1>2
  <2> QED BY <1>3, <2>3, <2>4, <2>5, <2>6
<1>5. after[Rounds] \in Heaps
  BY <1>4 DEF LevelsUp, StandsCounted, Stands
<1>6. Fail(after[Rounds], "endless") \in Heaps /\ Fail(after[Rounds], "endless").fault # "none"
  BY <1>5, FailSets
<1> QED BY <1>1, <1>4, <1>5, <1>6 DEF SettlesUp

JoinReady(g, a, b, r, Ka, Kb, top) ==
    /\ Whole(g, a, Ka) /\ Whole(g, b, Kb) /\ Whole(g, r, {top})
    /\ top \in Nodes /\ Ka # {} /\ Kb # {}
    /\ \A x \in Ka : x < top
    /\ \A y \in Kb : top < y
\* What join does to the roots of a, b and r, before the tree is checked.
Joined(g, a, b, r) ==
    Settle(Tied(g, g.root[r], g.root[a], g.root[b], outermost(g, g.root[a], R), outermost(g, g.root[b], L)), r, Null)

\* What a whole tree is.
LEMMA WholeTree ==
    ASSUME NEW g, NEW t, NEW K, Whole(g, t, K)
    PROVE  /\ g \in Heaps /\ Threads(g, K) /\ \A m \in K : Counted(g, m)
           /\ K \subseteq Nodes /\ Null \notin K
           /\ K # {} => g.root[t] \in K
           /\ K = {} => g.root[t] = Null
           /\ \A n \in K : Par(g, n) = Null <=> n = g.root[t]
<1>1. PICK S : Tree(g, K, S, g.root[t])
  BY DEF Whole
<1>2. K = {} => g.root[t] = Null
  BY <1>1 DEF Tree, RootedAt
<1> QED BY <1>1, <1>2, InTree DEF Whole

\* The links that join writes make one tree of three.
Bound(g, g2, r, K, top) ==
    /\ \E S : Stands(g2, r, K, g2, S, top)
    /\ Threads(g2, K) /\ Spares(g, g2, r, K) /\ g2.live = g.live /\ g2.failed = g.failed
    /\ g2.fault = g.fault /\ \A m \in Nodes : Val(g2, m) = Val(g, m)

\* The links that join writes make one whole tree, but for the size of its root.
LEMMA TiesBind ==
    ASSUME NEW g, NEW r \in Trees, NEW a, NEW b, NEW Ka, NEW Kb, NEW top, JoinReady(g, a, b, r, Ka, Kb, top),
           NEW al \in Ka, \A k \in Ka : ~On(R, k, al), NEW bf \in Kb, \A k \in Kb : ~On(L, k, bf),
           NEW g2, Ties(g, g2, top, g.root[a], g.root[b], al, bf)
    PROVE  Bound(g, g2, r, Ka \cup Kb \cup {top}, top)
<1> DEFINE K == Ka \cup Kb \cup {top}
           KK == <<Ka, Kb>>
           rr == <<g.root[a], g.root[b]>>
           oo == <<al, bf>>
<1>1. PICK Sa : Tree(g, Ka, Sa, g.root[a])
  BY DEF JoinReady, Whole
<1>2. PICK Sb : Tree(g, Kb, Sb, g.root[b])
  BY DEF JoinReady, Whole
<1> DEFINE SS == <<Sa, Sb>>
<1>3. g \in Heaps /\ Ka \subseteq Nodes /\ Kb \subseteq Nodes /\ Ka # {} /\ Kb # {} /\ top \in Nodes
  BY WholeTree DEF JoinReady
<1>4. /\ g.root[a] \in Ka /\ g.root[b] \in Kb /\ Threads(g, Ka) /\ Threads(g, Kb)
      /\ \A m \in Ka \cup Kb : Counted(g, m)
  BY WholeTree DEF JoinReady
<1>5. g.root[r] = top /\ Par(g, top) = Null
  BY WholeTree DEF JoinReady
<1>6. KK[L] = Ka /\ KK[R] = Kb /\ rr[L] = g.root[a] /\ rr[R] = g.root[b] /\ oo[L] = al /\ oo[R] = bf
      /\ SS[L] = Sa /\ SS[R] = Sb /\ Whole2(KK, top) = K
  BY DEF L, R, Whole2
<1>7. L # R /\ Other(L) = R /\ Other(R) = L /\ \A i \in {L, R} : i = L \/ i = R
  BY DEF L, R, Other
<1>8. (\A x \in Ka : On(L, x, top)) /\ (\A y \in Kb : On(R, y, top))
  BY <1>7 DEF JoinReady, On
<1>9. top \notin Ka /\ top \notin Kb
  <2>1. L \in {L, R} /\ R \in {L, R}
    OBVIOUS
  <2>2. ~On(L, top, top) /\ ~On(R, top, top)
    BY <1>3, <2>1, Orders
  <2> QED BY <1>8, <2>2
<1> HIDE DEF KK, rr, oo, SS
<1>10. Parts(g, KK, SS, rr, top)
  <2>1. Tree(g, KK[L], SS[L], rr[L]) /\ KK[L] # {} /\ \A x \in KK[L] : On(L, x, top)
    BY <1>1, <1>3, <1>6, <1>8
  <2>2. Tree(g, KK[R], SS[R], rr[R]) /\ KK[R] # {} /\ \A x \in KK[R] : On(R, x, top)
    BY <1>2, <1>3, <1>6, <1>8
  <2> QED BY <1>3, <1>5, <1>7, <2>1, <2>2 DEF Parts
<1>11. \A m \in Nodes :
          /\ Val(g2, m) = Val(g, m) /\ g2.node[m].sz = g.node[m].sz
          /\ Par(g2, m) = IF m = g.root[a] \/ m = g.root[b] THEN top ELSE Par(g, m)
          /\ \A j \in {L, R} :
                /\ child(g2, m, j) = IF m = top THEN <<g.root[a], g.root[b]>>[j] ELSE child(g, m, j)
                /\ Dir(g2, m, j) = IF m = bf /\ j = L THEN top ELSE IF m = al /\ j = R THEN top
                                   ELSE IF m = top THEN <<al, bf>>[j] ELSE Dir(g, m, j)
  BY DEF Ties
<1>12. JoinLinks(g, g2, KK, rr, top)
  <2>1. ASSUME NEW m \in Nodes
        PROVE  /\ Par(g2, m) = IF m = rr[L] \/ m = rr[R] THEN top ELSE Par(g, m)
               /\ \A j \in {L, R} : child(g2, m, j) = IF m = top THEN rr[j] ELSE child(g, m, j)
    BY <1>6, <1>11 DEF rr
  <2>2. Whole2(KK, top) \subseteq Nodes
    BY <1>3, <1>6
  <2> QED BY <2>1, <2>2 DEF JoinLinks
<1>13. JoinDirs(g, g2, KK, oo, top)
  <2>1. ASSUME NEW m \in Nodes, NEW j \in {L, R}
        PROVE  Dir(g2, m, j) = IF m = top THEN oo[j] ELSE IF m = oo[Other(j)] THEN top ELSE Dir(g, m, j)
    <3>0. al # top /\ bf # top
      BY <1>9
    <3>1. Dir(g2, m, j) = IF m = bf /\ j = L THEN top ELSE IF m = al /\ j = R THEN top
                          ELSE IF m = top THEN <<al, bf>>[j] ELSE Dir(g, m, j)
      BY <1>11
    <3>2. CASE j = L
      <4>1. <<al, bf>>[j] = oo[j] /\ oo[Other(j)] = bf /\ j # R
        BY <1>6, <1>7, <3>2 DEF oo
      <4> QED BY <3>0, <3>1, <3>2, <4>1
    <3>3. CASE j = R
      <4>1. <<al, bf>>[j] = oo[j] /\ oo[Other(j)] = al /\ j # L
        BY <1>6, <1>7, <3>3 DEF oo
      <4> QED BY <3>0, <3>1, <3>3, <4>1
    <3> QED BY <1>7, <3>2, <3>3
  <2>2. Whole2(KK, top) \subseteq Nodes
    BY <1>3, <1>6
  <2> QED BY <2>1, <2>2 DEF JoinDirs
<1>14. Tree(g2, K, Grown(KK, SS, top), top)
  BY <1>6, <1>10, <1>12, JoinTree
<1>15. Threads(g2, K)
  <2>1. \A i \in {L, R} : Threads(g, KK[i])
    BY <1>4, <1>6, <1>7
  <2>2. \A i \in {L, R} : oo[i] \in KK[i] /\ \A k \in KK[i] : ~On(Other(i), k, oo[i])
    BY <1>6, <1>7
  <2>3. Threads(g2, Whole2(KK, top))
    BY <1>10, <1>13, <2>1, <2>2, JoinThreads
  <2> QED BY <1>6, <2>3
<1>16. \A m \in K \ {top} : Counted(g2, m)
  <2>1. \A m \in Nodes : g2.node[m].sz = g.node[m].sz
    BY <1>11
  <2>2. ASSUME NEW m \in K \ {top} PROVE Counted(g2, m)
    <3>1. m \in Nodes /\ Counted(g, m) /\ L \in {L, R} /\ R \in {L, R}
      BY <1>3, <1>4
    <3>2. child(g2, m, L) = child(g, m, L) /\ child(g2, m, R) = child(g, m, R)
      BY <1>11, <3>1, <2>2
    <3>3. child(g, m, L) \in Links /\ child(g, m, R) \in Links
      BY <1>3, <3>1, NodeTypes
    <3>4. sz(g2, child(g, m, L)) = sz(g, child(g, m, L)) /\ sz(g2, child(g, m, R)) = sz(g, child(g, m, R))
      BY <2>1, <3>3 DEF Links, sz
    <3> QED BY <2>1, <3>1, <3>2, <3>4 DEF Counted
  <2> QED BY <2>2
<1>17. Shuffled(g2, g2, r, K)
  BY DEF Shuffled
<1>18. g2 \in Heaps /\ SameButNodes(g, g2) /\ \A m \in Nodes \ {top, g.root[a], g.root[b], al, bf} : g2.node[m] = g.node[m]
  BY DEF Ties
<1>19. Stands(g2, r, K, g2, Grown(KK, SS, top), top)
  BY <1>5, <1>14, <1>16, <1>17, <1>18 DEF Stands, SameButNodes
<1>20. Spares(g, g2, r, K)
  BY <1>4, <1>18 DEF Spares, SameButNodes
<1> QED BY <1>11, <1>15, <1>18, <1>19, <1>20 DEF Bound, SameButNodes

KeepsIf(g, g2, t, K) == g2 \in Heaps /\ (g2.fault = "none" => Kept(g, g2, t, K))

\* And join makes that right.
LEMMA JoinKeeps ==
    ASSUME NEW g, NEW r \in Trees, NEW a, NEW b, NEW Ka, NEW Kb, NEW top, JoinReady(g, a, b, r, Ka, Kb, top)
    PROVE  KeepsIf(g, Joined(g, a, b, r), r, Ka \cup Kb \cup {top})
<1> DEFINE K == Ka \cup Kb \cup {top}
           al == outermost(g, g.root[a], R)
           bf == outermost(g, g.root[b], L)
           g1 == Tied(g, top, g.root[a], g.root[b], al, bf)
           g2 == Settle(g1, r, Null)
<1>1. PICK Sa : Tree(g, Ka, Sa, g.root[a])
  BY DEF JoinReady, Whole
<1>2. PICK Sb : Tree(g, Kb, Sb, g.root[b])
  BY DEF JoinReady, Whole
<1>3. /\ g \in Heaps /\ Ka \subseteq Nodes /\ Kb \subseteq Nodes /\ Ka # {} /\ Kb # {} /\ top \in Nodes
      /\ g.root[a] \in Ka /\ g.root[b] \in Kb
  BY WholeTree DEF JoinReady
<1>4. g.root[r] = top
  BY WholeTree DEF JoinReady
<1>5. L \in {L, R} /\ R \in {L, R}
  OBVIOUS
<1>6. al \in Ka /\ \A k \in Ka : ~On(R, k, al)
  BY <1>1, <1>3, <1>5, OutermostIs
<1>7. bf \in Kb /\ \A k \in Kb : ~On(L, k, bf)
  BY <1>2, <1>3, <1>5, OutermostIs
<1>8. Joined(g, a, b, r) = g2
  BY <1>4 DEF Joined
<1> HIDE DEF al, bf
<1>9. Ties(g, g1, top, g.root[a], g.root[b], al, bf)
  <2>1. g.root[a] \in Nodes /\ g.root[b] \in Nodes /\ al \in Nodes /\ bf \in Nodes
    BY <1>3, <1>6, <1>7
  <2> QED BY <1>3, <2>1, TiedSets
<1> HIDE DEF g1
<1>10. Bound(g, g1, r, K, top)
  BY <1>6, <1>7, <1>9, TiesBind
<1>11. PICK S : Stands(g1, r, K, g1, S, top)
  BY <1>10 DEF Bound
<1> HIDE DEF K
<1>12. SettlesUp(g1, r, K, g1, g2)
  BY <1>11, SettleStands
<1> HIDE DEF g2
<1>13. ASSUME g2.fault = "none" PROVE Kept(g, g2, r, K)
  <2>1. PICK S2, q : Stands(g1, r, K, g2, S2, q) /\ Counted(g2, q)
    BY <1>12, <1>13 DEF SettlesUp, LevelsUp, StandsCounted
  <2>2. Settled(g1, g1.root[r], r, K, g2, S2, q)
    BY <2>1 DEF Stands, Settled, Follows
  <2>3. Kept(g1, g2, r, K)
    <3>1. K \in SUBSET Nodes
      BY <1>3 DEF K
    <3> QED BY <1>10, <2>2, <3>1, SettledWhole DEF Bound
  <2> QED BY <1>10, <2>3 DEF Bound, Kept, Spares
<1>14. KeepsIf(g, g2, r, K)
  BY <1>12, <1>13 DEF KeepsIf, SettlesUp
<1> QED BY <1>8, <1>14 DEF K

-----------------------------------------------------------------------------
(* Rotations up to the root: split.                                        *)

\* update, when all sizes are right already.
LEMMA UpdateTurns ==
    ASSUME NEW g0, NEW S0, NEW r0, NEW t \in Trees, NEW K, NEW g, NEW n \in K,
           Reaches(g0, S0, r0, t, K, K, g)
    PROVE  ReachesFrom(g0, S0, r0, t, K, K, g, update(g, n))
<1> DEFINE u == update(g, n)
<1>1. PICK S, r : Turning(g0, S0, r0, t, K, K, g, S, r)
  BY DEF Reaches
<1>2. /\ g \in Heaps /\ Tree(g, K, S, r) /\ Shuffled(g0, g, t, K) /\ Follows(g0, r0, t, g, r)
      /\ \A m \in K : S[m] \subseteq K /\ Counted(g, m)
  BY <1>1 DEF Turning
<1>3. K \subseteq Nodes
  BY <1>2, InTree
<1>4. Updated(g, u, n)
  BY <1>2, <1>3, UpdateSets
<1> HIDE DEF u
<1>5. /\ Tree(u, K, S, r) /\ Counted(u, n)
      /\ \A m \in K : (n \notin S[m] \/ Counted(g, n)) /\ Counted(g, m) => Counted(u, m)
  BY <1>2, <1>4, UpdateCounts
<1>6. \A m \in K : S[m] \subseteq K /\ Counted(u, m)
  BY <1>2, <1>5
<1>7. Shuffled(g0, u, t, K)
  BY <1>2, <1>4, UpdateShuffles
<1>8. u \in Heaps /\ u.root = g.root /\ u.fault = g.fault
  BY <1>4 DEF Updated, SameButNodes
<1>9. Follows(g0, r0, t, u, r)
  BY <1>2, <1>8 DEF Follows
<1>10. Turning(g0, S0, r0, t, K, K, u, S, r)
  BY <1>5, <1>6, <1>7, <1>8, <1>9 DEF Turning
<1>11. ReachesFrom(g0, S0, r0, t, K, K, g, u)
  BY <1>8, <1>10 DEF ReachesFrom, Reaches
<1> QED BY <1>11 DEF u

\* One round on a node below the root.
LEMMA LevelTurns ==
    ASSUME NEW g0, NEW S0, NEW r0, NEW t \in Trees, NEW K, NEW g, NEW p \in K, p # Null,
           Reaches(g0, S0, r0, t, K, K, g)
    PROVE  Reaches(g0, S0, r0, t, K, K, Level(g, t, p))
<1> DEFINE u == update(g, p)
           w == update(u, p)
           g2 == LowerRight(LowerLeft(w, t, p), t, p)
<1>1. Level(g, t, p) = IF u.fault = "none" /\ imbalanced(u, p) THEN g2 ELSE u
  BY DEF Level, Top, rebalance_local
<1>2. Reaches(g0, S0, r0, t, K, K, u)
  BY UpdateTurns DEF ReachesFrom
<1> HIDE DEF u
<1>3. Reaches(g0, S0, r0, t, K, K, w)
  BY <1>2, UpdateTurns DEF ReachesFrom
<1> HIDE DEF w
<1>4. Reaches(g0, S0, r0, t, K, K, g2)
  BY <1>3, LowerSidesTurn DEF ReachesFrom
<1> QED BY <1>1, <1>2, <1>4

\* A heap with a fault may be any.
Raises(g0, S0, r0, t, K, g) ==
    g \in Heaps /\ (g.fault = "none" => Reaches(g0, S0, r0, t, K, K, g))

\* One that has no fault yet.
LEMMA ReachesRaises ==
    ASSUME NEW g0, NEW S0, NEW r0, NEW t, NEW K, NEW g, Reaches(g0, S0, r0, t, K, K, g)
    PROVE  Raises(g0, S0, r0, t, K, g)
BY DEF Reaches, Raises, Turning

\* All rounds on a node below the root.
LEMMA SettleRaises ==
    ASSUME NEW g0, NEW S0, NEW r0, NEW t \in Trees, NEW K, NEW g, NEW p \in K, p # Null,
           Reaches(g0, S0, r0, t, K, K, g)
    PROVE  Raises(g0, S0, r0, t, K, Settle(g, t, p))
<1>1. PICK after : /\ \A i \in 0 .. Rounds : after[i] = IF i = 0 THEN g ELSE Level(after[i - 1], t, p)
                   /\ Settle(g, t, p) = IF imbalanced(after[Rounds], Top(after[Rounds], t, p))
                                        THEN Fail(after[Rounds], "endless") ELSE after[Rounds]
  BY SettleSteps
<1>2. ASSUME ~Reaches(g0, S0, r0, t, K, K, after[Rounds]) PROVE FALSE
  <2> DEFINE T == {i \in 0 .. Rounds : ~Reaches(g0, S0, r0, t, K, K, after[i])}
  <2>1. Rounds \in T
    BY <1>2, RoundsExist
  <2>2. T \in SUBSET Nat /\ T # {}
    BY <2>1
  <2>3. \A i \in T : i \in 0 .. Rounds /\ ~Reaches(g0, S0, r0, t, K, K, after[i])
    OBVIOUS
  <2>4. \A i \in 0 .. Rounds : i \notin T => Reaches(g0, S0, r0, t, K, K, after[i])
    OBVIOUS
  <2> HIDE DEF T
  <2>5. PICK i \in T : \A j \in T : i <= j
    BY <2>2, Least
  <2>6. i # 0
    BY <1>1, <2>3, <2>5
  <2>7. i - 1 \in 0 .. Rounds /\ i - 1 \notin T
    BY <2>3, <2>5, <2>6, RoundsExist
  <2>8. Reaches(g0, S0, r0, t, K, K, Level(after[i - 1], t, p))
    BY <2>4, <2>7, LevelTurns
  <2>9. after[i] = Level(after[i - 1], t, p)
    BY <1>1, <2>3, <2>6
  <2> QED BY <2>3, <2>8, <2>9
<1>3. Raises(g0, S0, r0, t, K, after[Rounds])
  BY <1>2, ReachesRaises
<1>4. Fail(after[Rounds], "endless") \in Heaps /\ Fail(after[Rounds], "endless").fault # "none"
  BY <1>3, FailSets DEF Raises
<1> QED BY <1>1, <1>3, <1>4 DEF Raises

\* One rotation of split, and the rounds after it.
LEMMA RaiseRaises ==
    ASSUME NEW g0, NEW S0, NEW r0, NEW t \in Trees, NEW K, NEW n \in K, NEW g, Raises(g0, S0, r0, t, K, g)
    PROVE  Raises(g0, S0, r0, t, K, Raise(g, t, n))
<1> DEFINE p == Par(g, n)
           i == IF child(g, p, L) = n THEN R ELSE L
           g1 == Rotate(g, t, p, i)
<1>1. Raise(g, t, n) = IF p = Null \/ g.fault # "none" THEN g ELSE Settle(g1, t, p)
  BY DEF Raise, Par
<1>2. CASE p = Null \/ g.fault # "none"
  BY <1>1, <1>2
<1>3. CASE p # Null /\ g.fault = "none"
  <2>1. Reaches(g0, S0, r0, t, K, K, g)
    BY <1>3 DEF Raises
  <2>2. PICK S, r : Tree(g, K, S, r)
    BY <2>1 DEF Reaches, Turning
  <2>3. p \in K
    <3>1. n # r
      BY <1>3, <2>2, InTree
    <3> QED BY <2>2, <3>1 DEF Tree, Parents
  <2>4. i \in {L, R}
    OBVIOUS
  <2> HIDE DEF p, i
  <2>5. Reaches(g0, S0, r0, t, K, K, g1)
    BY <2>1, <2>3, <2>4, TurningRotates DEF ReachesFrom
  <2> HIDE DEF g1
  <2>6. Raises(g0, S0, r0, t, K, Settle(g1, t, p))
    BY <1>3, <2>3, <2>5, SettleRaises
  <2> QED BY <1>1, <1>3, <2>6
<1> QED BY <1>2, <1>3

RaisesFrom(g, t, n, N, up) ==
    up = [i \in 0 .. N |-> IF i = 0 THEN g ELSE Raise(up[i - 1], t, n)]

\* There is such a function, for any number of rotations.
LEMMA RaisesExist ==
    ASSUME NEW g, NEW t, NEW n, NEW N \in Nat
    PROVE  \E up : RaisesFrom(g, t, n, N, up)
<1> DEFINE T == {k \in Nat : ~\E f : RaisesFrom(g, t, n, k, f)}
<1>1. ASSUME T # {} PROVE FALSE
  <2>1. PICK k \in T : \A j \in T : k <= j
    BY <1>1, Least
  <2>2. k # 0
    <3>1. RaisesFrom(g, t, n, 0, [j \in 0 .. 0 |-> g])
      BY DEF RaisesFrom
    <3> QED BY <2>1, <3>1
  <2>3. k - 1 \in Nat /\ k - 1 \notin T /\ k \in Nat
    BY <2>1, <2>2
  <2>4. PICK f : RaisesFrom(g, t, n, k - 1, f)
    BY <2>3
  <2> DEFINE f2 == [j \in 0 .. k |-> IF j = k THEN Raise(f[k - 1], t, n) ELSE f[j]]
  <2>5. \A j \in 0 .. k - 1 : f[j] = IF j = 0 THEN g ELSE Raise(f[j - 1], t, n)
    BY <2>4 DEF RaisesFrom
  <2>6. \A j \in 0 .. k - 1 : f2[j] = f[j]
    BY <2>3
  <2>7. ASSUME NEW j \in 0 .. k PROVE f2[j] = IF j = 0 THEN g ELSE Raise(f2[j - 1], t, n)
    <3>1. CASE j = k
      <4>1. f2[k - 1] = f[k - 1] /\ f2[k] = Raise(f[k - 1], t, n)
        BY <2>2, <2>3, <2>6
      <4> QED BY <3>1, <4>1, <2>2
    <3>2. CASE j # k
      <4>1. j \in 0 .. k - 1 /\ (j # 0 => j - 1 \in 0 .. k - 1)
        BY <3>2, <2>3
      <4> QED BY <4>1, <2>5, <2>6
    <3> QED BY <3>1, <3>2
  <2>8. RaisesFrom(g, t, n, k, f2)
    <3>1. f2 = [j \in 0 .. k |-> f2[j]]
      OBVIOUS
    <3> HIDE DEF f2
    <3> QED BY <2>7, <3>1 DEF RaisesFrom
  <2> QED BY <2>1, <2>8
<1> QED BY <1>1

\* split leaves the host of the key at the root, and is otherwise rotations.
LEMMA RotateUpRoots ==
    ASSUME NEW g, NEW t \in Trees, NEW K, Whole(g, t, K), NEW n \in K, rotate_up(g, t, n).fault = "none"
    PROVE  Kept(g, rotate_up(g, t, n), t, K) /\ rotate_up(g, t, n).root[t] = n
<1> DEFINE up == CHOOSE f : RaisesFrom(g, t, n, Rounds, f)
           end == up[Rounds]
<1>1. RaisesFrom(g, t, n, Rounds, up)
  BY RoundsExist, RaisesExist
<1>2. rotate_up(g, t, n) = IF Par(end, n) = Null THEN end ELSE Fail(end, "endless")
  BY DEF rotate_up, RaisesFrom, Par
<1> HIDE DEF up
<1>3. \A i \in 0 .. Rounds : up[i] = IF i = 0 THEN g ELSE Raise(up[i - 1], t, n)
  BY <1>1 DEF RaisesFrom
<1>4. PICK S0 : Tree(g, K, S0, g.root[t])
  BY DEF Whole
<1> DEFINE P(x) == Raises(g, S0, g.root[t], t, K, x)
<1>5. P(g)
  <2>1. Shuffled(g, g, t, K) /\ Follows(g, g.root[t], t, g, g.root[t])
    BY DEF Shuffled, Follows
  <2>2. \A m \in K : S0[m] \subseteq K
    BY <1>4, InTree
  <2>3. Turning(g, S0, g.root[t], t, K, K, g, S0, g.root[t])
    BY <1>4, <2>1, <2>2 DEF Turning, Whole
  <2>4. Reaches(g, S0, g.root[t], t, K, K, g)
    BY <2>3 DEF Reaches
  <2> QED BY <2>4, ReachesRaises
<1>6. \A x : P(x) => P(Raise(x, t, n))
  BY RaiseRaises
<1> HIDE DEF P
<1>7. ASSUME ~P(end) PROVE FALSE
  <2> DEFINE T == {i \in 0 .. Rounds : ~P(up[i])}
  <2>1. Rounds \in T
    BY <1>7, RoundsExist
  <2>2. T \in SUBSET Nat /\ T # {}
    BY <2>1
  <2>3. \A i \in T : i \in 0 .. Rounds /\ ~P(up[i])
    OBVIOUS
  <2>4. \A i \in 0 .. Rounds : i \notin T => P(up[i])
    OBVIOUS
  <2> HIDE DEF T
  <2>5. PICK i \in T : \A j \in T : i <= j
    BY <2>2, Least
  <2>6. i # 0
    BY <1>3, <1>5, <2>3, <2>5
  <2>7. i - 1 \in 0 .. Rounds /\ i - 1 \notin T
    BY <2>3, <2>5, <2>6, RoundsExist
  <2> QED BY <1>3, <1>6, <2>3, <2>4, <2>6, <2>7
<1>8. end \in Heaps /\ (end.fault = "none" => Reaches(g, S0, g.root[t], t, K, K, end))
  BY <1>7 DEF P, Raises
<1> HIDE DEF end
<1>9. Par(end, n) = Null /\ rotate_up(g, t, n) = end
  <2>1. Fail(end, "endless").fault # "none"
    BY <1>8, FailSets
  <2> QED BY <1>2, <2>1
<1>10. PICK S, r : Turning(g, S0, g.root[t], t, K, K, end, S, r)
  BY <1>8, <1>9 DEF Reaches
<1>11. Settled(g, g.root[t], t, K, end, S, r)
  BY <1>10 DEF Turning, Settled
<1>12. end.root[t] = r /\ r = n
  BY <1>9, <1>11, SettledRoot, InTree DEF Settled
<1>13. Kept(g, end, t, K)
  <2>1. K \in SUBSET Nodes /\ Threads(g, K)
    BY WholeTree
  <2> QED BY <1>11, <2>1, SettledWhole
<1> QED BY <1>9, <1>12, <1>13

-----------------------------------------------------------------------------
(* All trees together, and the invariant.                                  *)

\* A tree is what its root and its nodes are.
LEMMA WholeFrame ==
    ASSUME NEW g, NEW u, NEW K, Whole(g, u, K), NEW g2 \in Heaps, g2.root[u] = g.root[u],
           \A m \in K : g2.node[m] = g.node[m]
    PROVE  Whole(g2, u, K)
<1>1. PICK S : Tree(g, K, S, g.root[u])
  BY DEF Whole
<1>2. Tree(g2, K, S, g2.root[u])
  <2>1. \A m \in K : Par(g2, m) = Par(g, m) /\ \A i \in {L, R} : child(g2, m, i) = child(g, m, i)
    BY DEF Par, child
  <2> QED BY <1>1, <2>1, SameTree
<1>3. Threads(g2, K)
  <2>1. \A m \in K : \A i \in {L, R} : Dir(g2, m, i) = Dir(g, m, i)
    BY DEF Dir
  <2> QED BY <2>1, SameThreads, WholeTree
<1>4. ASSUME NEW m \in K PROVE Counted(g2, m)
  <2>1. Counted(g, m)
    BY WholeTree
  <2>2. ASSUME NEW i \in {L, R} PROVE child(g2, m, i) = child(g, m, i) /\ sz(g2, child(g, m, i)) = sz(g, child(g, m, i))
    <3>1. child(g, m, i) = Null \/ child(g, m, i) \in K
      BY <1>1, KidIs
    <3> QED BY <3>1 DEF child, sz
  <2>3. /\ child(g2, m, L) = child(g, m, L) /\ sz(g2, child(g, m, L)) = sz(g, child(g, m, L))
        /\ child(g2, m, R) = child(g, m, R) /\ sz(g2, child(g, m, R)) = sz(g, child(g, m, R))
    BY <2>2
  <2> QED BY <2>1, <2>3 DEF Counted
<1> QED BY <1>2, <1>3, <1>4 DEF Whole

\* Where a key of the tree t can be from.
From(gone, t, k) ==
    \/ k \in KeysOf[t]
    \/ \E j \in Joins : j[3] = t /\ j[1] \in gone /\ j[2] \in gone /\ k \in KeysOf[j[1]] \cup KeysOf[j[2]]

Trunks(g, gone, K) == \A u \in Trees \ gone : Whole(g, u, K[u])
Asunder(K) == \A t, u \in Trees : t # u => K[t] \cap K[u] = {}
Owned(g, gone, K) ==
    /\ \A t \in gone : K[t] = {}
    /\ g.live = UNION {K[t] : t \in Trees}
    /\ \A t \in Trees : \A k \in K[t] : From(gone, t, k)
Contents(g) ==
    /\ \A m \in Nodes \ g.live : g.node[m] = NewNode
    /\ \A m \in g.live : Val(g, m) \in ValuesOf[m]
\* The tree t has the keys K[t], but for the trees in gone.
Grove(g, gone, K) ==
    /\ g \in Heaps /\ gone \subseteq Trees /\ K \in [Trees -> SUBSET Nodes]
    /\ Trunks(g, gone, K) /\ Asunder(K) /\ Owned(g, gone, K) /\ Contents(g)

\* A call on one tree leaves the others whole.
LEMMA TrunksFrame ==
    ASSUME NEW g, NEW gone, NEW K, Grove(g, gone, K), NEW t \in Trees, NEW X,
           NEW g2 \in Heaps, Spares(g, g2, t, X), \A u \in Trees \ {t} : u \notin gone => K[u] \cap X = {},
           NEW u \in Trees \ {t}, u \notin gone
    PROVE  Whole(g2, u, K[u])
<1>1. Whole(g, u, K[u])
  BY DEF Grove, Trunks
<1>2. g2.root[u] = g.root[u]
  BY DEF Spares
<1>3. \A m \in K[u] : g2.node[m] = g.node[m]
  <2>1. K[u] \subseteq Nodes
    BY DEF Grove
  <2> QED BY <2>1 DEF Spares
<1> QED BY <1>1, <1>2, <1>3, WholeFrame

\* A tree with other links.
LEMMA KeptGrove ==
    ASSUME NEW g, NEW gone, NEW K, Grove(g, gone, K), NEW t \in Trees, t \notin gone,
           NEW g2, Kept(g, g2, t, K[t])
    PROVE  Grove(g2, gone, K)
<1>1. g2 \in Heaps /\ Spares(g, g2, t, K[t]) /\ g2.live = g.live /\ Whole(g2, t, K[t])
      /\ \A m \in Nodes : Val(g2, m) = Val(g, m)
  BY DEF Kept, Whole
<1>2. Trunks(g2, gone, K)
  <2>1. \A u \in Trees \ {t} : u \notin gone => K[u] \cap K[t] = {}
    BY DEF Grove, Asunder
  <2>2. \A u \in Trees \ {t} : u \notin gone => Whole(g2, u, K[u])
    BY <1>1, <2>1, TrunksFrame
  <2> QED BY <1>1, <2>2 DEF Trunks
<1>3. Owned(g2, gone, K)
  BY <1>1 DEF Grove, Owned
<1>4. Contents(g2)
  <2>1. K[t] \subseteq g.live
    BY DEF Grove, Owned
  <2>2. g.live \subseteq Nodes
    BY NodeTypes DEF Grove
  <2> QED BY <1>1, <2>1, <2>2 DEF Grove, Contents, Spares
<1> QED BY <1>1, <1>2, <1>3, <1>4 DEF Grove

\* A key that t may be given is not in another tree.
LEMMA Unshared ==
    ASSUME NEW g, NEW gone, NEW K, Grove(g, gone, K), NEW t \in Trees, t \notin gone, NEW k \in KeysOf[t],
           NEW u \in Trees, u # t
    PROVE  k \notin K[u]
<1>1. ASSUME k \in K[u] PROVE FALSE
  <2>1. From(gone, u, k)
    BY <1>1 DEF Grove, Owned
  <2>2. CASE k \in KeysOf[u]
    BY <2>2, KeysApart
  <2>3. ASSUME NEW j \in Joins, j[3] = u, j[1] \in gone, j[2] \in gone, k \in KeysOf[j[1]] \cup KeysOf[j[2]]
        PROVE  FALSE
    <3>1. j[1] \in Trees /\ j[2] \in Trees
      BY <2>3 DEF Grove
    <3> QED BY <2>3, <3>1, KeysApart
  <2> QED BY <2>1, <2>2, <2>3 DEF From
<1> QED BY <1>1

\* A tree with a key more.
LEMMA InsertedGrove ==
    ASSUME NEW g, NEW gone, NEW K, Grove(g, gone, K), NEW t \in Trees, t \notin gone, NEW k \in KeysOf[t],
           NEW v \in ValuesOf[k], k \notin K[t], NEW g2, Inserted(g, g2, t, K[t], k, v)
    PROVE  Grove(g2, gone, [K EXCEPT ![t] = @ \cup {k}])
<1> DEFINE K2 == [K EXCEPT ![t] = @ \cup {k}]
           X == K[t] \cup {k}
<1>1. /\ g2 \in Heaps /\ Spares(g, g2, t, X) /\ Whole(g2, t, X)
      /\ g2.live = g.live \cup {k} /\ \A m \in Nodes : Val(g2, m) = IF m = k THEN v ELSE Val(g, m)
  BY DEF Inserted, Whole
<1>2. K \in [Trees -> SUBSET Nodes] /\ k \in Nodes
  BY DEF Grove, Nodes
<1>3. /\ K2 \in [Trees -> SUBSET Nodes] /\ K2[t] = X
      /\ \A u \in Trees \ {t} : K2[u] = K[u]
  BY <1>2
<1> HIDE DEF K2
<1>4. \A u \in Trees \ {t} : k \notin K[u]
  BY Unshared
<1>5. \A u \in Trees \ {t} : K[u] \cap X = {}
  BY <1>4 DEF Grove, Asunder
<1> HIDE DEF X
<1>6. Trunks(g2, gone, K2)
  <2>2. \A u \in Trees \ {t} : u \notin gone => Whole(g2, u, K[u])
    BY <1>1, <1>5, TrunksFrame
  <2> QED BY <1>1, <1>3, <2>2 DEF Trunks
<1>7. Asunder(K2)
  BY <1>3, <1>5 DEF Grove, Asunder
<1>8. Owned(g2, gone, K2)
  <2>1. g2.live = UNION {K2[u] : u \in Trees}
    <3>1. g.live = UNION {K[u] : u \in Trees}
      BY DEF Grove, Owned
    <3>2. ASSUME NEW m PROVE m \in (UNION {K[u] : u \in Trees}) \cup {k} <=> m \in UNION {K2[u] : u \in Trees}
      BY <1>3 DEF X
    <3> QED BY <1>1, <3>1, <3>2
  <2>2. \A u \in gone : K2[u] = {}
    BY <1>3 DEF Grove, Owned
  <2>3. \A u \in Trees : \A m \in K2[u] : From(gone, u, m)
    <3>1. \A m \in K2[t] : From(gone, t, m)
      BY <1>3 DEF X, Grove, Owned, From
    <3>2. \A u \in Trees \ {t} : \A m \in K2[u] : From(gone, u, m)
      BY <1>3 DEF Grove, Owned
    <3> QED BY <3>1, <3>2
  <2> QED BY <2>1, <2>2, <2>3 DEF Owned
<1>9. Contents(g2)
  <2>1. X \subseteq g2.live
    BY <1>1 DEF Grove, Owned, X
  <2>2. \A m \in Nodes \ g2.live : g2.node[m] = NewNode
    BY <1>1, <2>1 DEF Grove, Contents, Spares
  <2>3. \A m \in g2.live : Val(g2, m) \in ValuesOf[m]
    <3>1. g.live \subseteq Nodes
      BY NodeTypes DEF Grove
    <3> QED BY <1>1, <1>2, <3>1 DEF Grove, Contents
  <2> QED BY <2>2, <2>3 DEF Contents
<1>10. Grove(g2, gone, K2)
  BY <1>1, <1>3, <1>6, <1>7, <1>8, <1>9 DEF Grove
<1> QED BY <1>10 DEF K2

\* A tree with a key less.
LEMMA ErasedGrove ==
    ASSUME NEW g, NEW gone, NEW K, Grove(g, gone, K), NEW t \in Trees, t \notin gone, NEW n \in K[t],
           NEW g2, Erased(g, g2, t, K[t], n)
    PROVE  Grove(g2, gone, [K EXCEPT ![t] = @ \ {n}])
<1> DEFINE K2 == [K EXCEPT ![t] = @ \ {n}]
           X == K[t]
<1>1. /\ g2 \in Heaps /\ Spares(g, g2, t, X) /\ Whole(g2, t, X \ {n})
      /\ g2.live = g.live \ {n} /\ g2.node[n] = NewNode /\ \A m \in Nodes \ {n} : Val(g2, m) = Val(g, m)
  BY DEF Erased, Whole
<1>2. K \in [Trees -> SUBSET Nodes] /\ n \in Nodes
  BY DEF Grove
<1>3. /\ K2 \in [Trees -> SUBSET Nodes] /\ K2[t] = X \ {n}
      /\ \A u \in Trees \ {t} : K2[u] = K[u]
  BY <1>2
<1>4. \A u \in Trees \ {t} : n \notin K[u] /\ K[u] \cap X = {}
  BY DEF Grove, Asunder
<1> HIDE DEF K2
<1>6. Trunks(g2, gone, K2)
  <2>2. \A u \in Trees \ {t} : u \notin gone => Whole(g2, u, K[u])
    BY <1>1, <1>4, TrunksFrame
  <2> QED BY <1>1, <1>3, <2>2 DEF Trunks
<1>7. Asunder(K2)
  BY <1>3, <1>4 DEF Grove, Asunder
<1>8. Owned(g2, gone, K2)
  <2>1. g2.live = UNION {K2[u] : u \in Trees}
    <3>1. g.live = UNION {K[u] : u \in Trees}
      BY DEF Grove, Owned
    <3>2. ASSUME NEW m PROVE m \in (UNION {K[u] : u \in Trees}) \ {n} <=> m \in UNION {K2[u] : u \in Trees}
      BY <1>3, <1>4
    <3> QED BY <1>1, <3>1, <3>2
  <2>2. \A u \in gone : K2[u] = {}
    BY <1>3 DEF Grove, Owned
  <2>3. \A u \in Trees : \A m \in K2[u] : From(gone, u, m)
    BY <1>3 DEF Grove, Owned
  <2> QED BY <2>1, <2>2, <2>3 DEF Owned
<1>9. Contents(g2)
  <2>1. X \subseteq g.live
    BY DEF Grove, Owned
  <2>2. \A m \in Nodes \ g2.live : g2.node[m] = NewNode
    BY <1>1, <2>1 DEF Grove, Contents, Spares
  <2>3. \A m \in g2.live : Val(g2, m) \in ValuesOf[m]
    <3>1. g.live \subseteq Nodes
      BY NodeTypes DEF Grove
    <3> QED BY <1>1, <1>2, <3>1 DEF Grove, Contents
  <2> QED BY <2>2, <2>3 DEF Contents
<1>10. Grove(g2, gone, K2)
  BY <1>1, <1>3, <1>6, <1>7, <1>8, <1>9 DEF Grove
<1> QED BY <1>10 DEF K2

\* The keys of trees that can be joined are in order.
LEMMA Joinable ==
    ASSUME NEW g, NEW gone, NEW K, Grove(g, gone, K), NEW a \in Trees, NEW b \in Trees, NEW r \in Trees,
           a \notin gone, b \notin gone, r \notin gone, <<a, b, r>> \in Joins
    PROVE  /\ a # b /\ a # r /\ b # r
           /\ \A x \in K[a], y \in K[b], z \in K[r] : x < z /\ z < y
<1> DEFINE j == <<a, b, r>>
<1>1. j[1] = a /\ j[2] = b /\ j[3] = r /\ j \in Joins
  OBVIOUS
<1> HIDE DEF j
<1>2. a # b /\ a # r /\ b # r
  BY <1>1, JoinsOnce
<1>3. ASSUME NEW u \in {a, b, r}, NEW k \in K[u] PROVE k \in KeysOf[u]
  <2>1. u \in Trees /\ From(gone, u, k)
    BY DEF Grove, Owned
  <2>2. ASSUME NEW i \in Joins, i[3] = u, i[1] \in gone PROVE FALSE
    <3>1. i = j
      <4>1. u \in {i[1], i[2], i[3]} \cap {j[1], j[2], j[3]}
        BY <1>1, <2>2
      <4> QED BY <1>1, <4>1, JoinsOnce
    <3> QED BY <1>1, <2>2, <3>1
  <2> QED BY <2>1, <2>2 DEF From
<1>4. \A x \in KeysOf[a], y \in KeysOf[b], z \in KeysOf[r] : x < z /\ z < y
  BY <1>1, JoinsInOrder
<1> QED BY <1>2, <1>3, <1>4

JoinedKeys(K, a, b, r) ==
    [u \in Trees |-> IF u = r THEN K[a] \cup K[b] \cup K[r] ELSE IF u = a \/ u = b THEN {} ELSE K[u]]

\* Three trees in one.
LEMMA JoinedGrove ==
    ASSUME NEW g, NEW gone, NEW K, Grove(g, gone, K), NEW a \in Trees, NEW b \in Trees, NEW r \in Trees,
           a \notin gone, b \notin gone, r \notin gone, <<a, b, r>> \in Joins,
           NEW g2, Kept(g, g2, r, K[a] \cup K[b] \cup K[r])
    PROVE  Grove(g2, gone \cup {a, b}, JoinedKeys(K, a, b, r))
<1> DEFINE K2 == JoinedKeys(K, a, b, r)
           X == K[a] \cup K[b] \cup K[r]
           gone2 == gone \cup {a, b}
<1>1. /\ g2 \in Heaps /\ Spares(g, g2, r, X) /\ g2.live = g.live /\ Whole(g2, r, X)
      /\ \A m \in Nodes : Val(g2, m) = Val(g, m)
  BY DEF Kept, Whole
<1>2. a # b /\ a # r /\ b # r
  BY Joinable
<1>3. K \in [Trees -> SUBSET Nodes] /\ gone \subseteq Trees
  BY DEF Grove
<1>4. /\ K2 \in [Trees -> SUBSET Nodes] /\ K2[r] = X /\ K2[a] = {} /\ K2[b] = {}
      /\ \A u \in Trees \ {a, b, r} : K2[u] = K[u]
  BY <1>2, <1>3 DEF JoinedKeys
<1>5. \A u \in Trees \ {a, b, r} : K[u] \cap X = {}
  BY DEF Grove, Asunder
<1>5a. X = K[a] \cup K[b] \cup K[r]
  OBVIOUS
<1> HIDE DEF K2, X
<1>6. Trunks(g2, gone2, K2)
  <2>1. ASSUME NEW u \in Trees \ {a, b, r}, u \notin gone PROVE Whole(g2, u, K[u])
    <3>1. Whole(g, u, K[u])
      BY <2>1 DEF Grove, Trunks
    <3>2. g2.root[u] = g.root[u]
      BY <1>1 DEF Spares
    <3>3. \A m \in K[u] : g2.node[m] = g.node[m]
      BY <1>1, <1>3, <1>5 DEF Spares
    <3> QED BY <1>1, <3>1, <3>2, <3>3, WholeFrame
  <2> QED BY <1>1, <1>4, <2>1 DEF Trunks
<1>7. Asunder(K2)
  BY <1>4, <1>5 DEF Grove, Asunder
<1>8. Owned(g2, gone2, K2)
  <2>1. g2.live = UNION {K2[u] : u \in Trees}
    <3>1. g.live = UNION {K[u] : u \in Trees}
      BY DEF Grove, Owned
    <3>2. ASSUME NEW m PROVE m \in (UNION {K[u] : u \in Trees}) <=> m \in UNION {K2[u] : u \in Trees}
      <4>1. (\E u \in Trees : m \in K[u]) <=> (\E u \in Trees : m \in K2[u])
        <5>1. ASSUME NEW u \in Trees, m \in K[u] PROVE \E w \in Trees : m \in K2[w]
          BY <1>4, <1>5a, <5>1
        <5>2. ASSUME NEW u \in Trees, m \in K2[u] PROVE \E w \in Trees : m \in K[w]
          BY <1>4, <1>5a, <5>2
        <5> QED BY <5>1, <5>2
      <4> QED BY <4>1
    <3> QED BY <1>1, <3>1, <3>2
  <2>2. \A u \in gone2 : K2[u] = {}
    BY <1>3, <1>4 DEF Grove, Owned
  <2>3. \A u \in Trees : \A m \in K2[u] : From(gone2, u, m)
    <3>1. \A u \in Trees : \A m \in K[u] : From(gone2, u, m)
      BY DEF Grove, Owned, From
    <3>2. \A u \in {a, b} : \A m \in K[u] : m \in KeysOf[u]
      <4> DEFINE j == <<a, b, r>>
      <4>1. j[1] = a /\ j[2] = b /\ j[3] = r /\ j \in Joins
        OBVIOUS
      <4> HIDE DEF j
      <4>2. ASSUME NEW u \in {a, b}, NEW m \in K[u] PROVE m \in KeysOf[u]
        <5>1. From(gone, u, m)
          BY DEF Grove, Owned
        <5>2. ASSUME NEW i \in Joins, i[3] = u PROVE FALSE
          <6>1. i # j
            BY <1>2, <4>1, <5>2
          <6>2. u \in {i[1], i[2], i[3]} \cap {j[1], j[2], j[3]}
            BY <4>1, <5>2
          <6> QED BY <4>1, <6>1, <6>2, JoinsOnce
        <5> QED BY <5>1, <5>2 DEF From
      <4> QED BY <4>2
    <3>3. \A m \in K[a] \cup K[b] : From(gone2, r, m)
      <4> DEFINE j == <<a, b, r>>
      <4>1. j[1] = a /\ j[2] = b /\ j[3] = r /\ j \in Joins
        OBVIOUS
      <4> HIDE DEF j
      <4> QED BY <3>2, <4>1 DEF From
    <3>4. \A m \in X : From(gone2, r, m)
      BY <1>5a, <3>1, <3>3
    <3> QED BY <1>4, <3>1, <3>4
  <2> QED BY <2>1, <2>2, <2>3 DEF Owned
<1>9. Contents(g2)
  <2>1. X \subseteq g.live
    BY <1>5a DEF Grove, Owned
  <2>2. g.live \subseteq Nodes
    BY NodeTypes DEF Grove
  <2> QED BY <1>1, <2>1, <2>2 DEF Grove, Contents, Spares
<1>10. Grove(g2, gone2, K2)
  BY <1>1, <1>3, <1>4, <1>6, <1>7, <1>8, <1>9 DEF Grove
<1> QED BY <1>10 DEF K2

\* A call whose nodes end up as g: g is taken over unless it has a fault.
Taken(g) ==
    /\ h'.fault = "none" => h' = g /\ g.fault = "none"
    /\ g.fault = "none" => h' = g
    /\ g.fault # "none" => h'.fault # "none" /\ h'.node = h.node /\ h'.root = h.root

\* What a call leaves.
LEMMA LeavesTakes ==
    ASSUME h \in Heaps, NEW g, NEW call, Leaves(g, call)
    PROVE  Taken(g)
<1>1. CASE g.fault = "none"
  BY <1>1 DEF Leaves, Taken
<1>2. CASE g.fault # "none"
  <2>1. h' = [h EXCEPT !.fault = g.fault, !.failed = call]
    BY <1>2 DEF Leaves
  <2>2. h'.fault = g.fault /\ h'.node = h.node /\ h'.root = h.root
    BY <2>1 DEF Heaps
  <2> QED BY <1>2, <2>2 DEF Taken
<1> QED BY <1>1, <1>2

\* No node of another tree, and none that is not in a tree, has a link into t.
LEMMA GrovePrivate ==
    ASSUME NEW g, NEW gone, NEW K, Grove(g, gone, K), NEW t \in Trees
    PROVE  Private(g, K[t])
<1>1. K \in [Trees -> SUBSET Nodes] /\ K[t] \subseteq Nodes /\ Null \notin K[t]
  BY KeysArePositive DEF Grove
<1>2. ASSUME NEW m \in Nodes \ K[t]
      PROVE  Par(g, m) \notin K[t] /\ \A j \in {L, R} : child(g, m, j) \notin K[t]
  <2>1. CASE m \notin g.live
    <3>1. g.node[m] = NewNode
      BY <2>1 DEF Grove, Contents
    <3>2. NewNode.par = Null /\ \A j \in {L, R} : NewNode.cld[j] = Null
      BY DEF NewNode, L, R
    <3> QED BY <1>1, <3>1, <3>2 DEF Par, child
  <2>2. CASE m \in g.live
    <3>1. PICK u \in Trees : m \in K[u]
      BY <2>2 DEF Grove, Owned
    <3>2. u # t /\ u \notin gone /\ K[u] \cap K[t] = {}
      BY <3>1 DEF Grove, Owned, Asunder
    <3>3. PICK S : Tree(g, K[u], S, g.root[u])
      BY <3>2 DEF Grove, Trunks, Whole
    <3>4. Par(g, m) = Null \/ Par(g, m) \in K[u]
      <4>1. CASE m = g.root[u]
        BY <3>1, <3>3, <4>1, InTree
      <4>2. CASE m # g.root[u]
        BY <3>1, <3>3, <4>2 DEF Tree, Parents
      <4> QED BY <4>1, <4>2
    <3>5. \A j \in {L, R} : child(g, m, j) = Null \/ child(g, m, j) \in K[u]
      BY <3>1, <3>3, KidIs
    <3> QED BY <1>1, <3>2, <3>4, <3>5
  <2> QED BY <2>1, <2>2
<1> QED BY <1>2 DEF Private

\* A tree comes to have keys that are there.
LEMMA KeysInNodes == \A t \in Trees : KeysIn(t) \subseteq Nodes
BY JoinsOnce DEF KeysIn, Nodes

InsertsKey(K, t, k, v) ==
    given' = given /\ IF k \in K[t] THEN h' = h ELSE Inserted(h, h', t, K[t], k, v)

\* Insert puts the key into its tree, unless it is there.
LEMMA InsertStep ==
    ASSUME NEW K, Grove(h, given, K), NEW t \in Trees, NEW k \in KeysOf[t], NEW v \in ValuesOf[k],
           Insert(t, k, v), h'.fault = "none"
    PROVE  t \notin given /\ InsertsKey(K, t, k, v)
<1> DEFINE g == insert_node(t, k, v)
           b == is_valid(h, h.root[t])
           c == is_valid(g, g.root[t])
           e == IF b THEN Checked(g, c) ELSE Fail(h, "assertion")
<1>1. t \notin given /\ given' = given /\ Leaves(e, <<"insert", t, k>>) /\ h \in Heaps /\ k \in Nodes
      /\ K[t] \in SUBSET Nodes
  BY DEF Insert, Usable, Grove, Nodes
<1>2. Whole(h, t, K[t])
  BY <1>1 DEF Grove, Trunks
<1>3. IF k \in K[t] THEN g = h ELSE InsertsInto(h, g, t, K[t], k, v)
  BY <1>1, <1>2, InsertNode
<1>4. g \in Heaps
  BY <1>1, <1>3 DEF InsertsInto
<1>5. c \in BOOLEAN
  BY DEF is_valid
<1>6. Taken(e)
  BY <1>1, LeavesTakes
<1>7. e = IF b THEN Checked(g, c) ELSE Fail(h, "assertion")
  OBVIOUS
<1> HIDE DEF g, b, c, e
<1>8. h' = e /\ e.fault = "none"
  BY <1>6 DEF Taken
<1>9. Fail(h, "assertion").fault # "none"
  BY <1>1, FailSets
<1>10. e = Checked(g, c)
  BY <1>7, <1>8, <1>9
<1>11. e = g /\ g.fault = "none"
  BY <1>4, <1>5, <1>8, <1>10, CheckedSets
<1> QED BY <1>1, <1>3, <1>8, <1>11 DEF InsertsKey, InsertsInto

ErasesKey(K, t, k) ==
    given' = given /\ IF k \in K[t] THEN Erased(h, h', t, K[t], k) ELSE h' = h

\* Erase takes the key out of its tree, if it is there.
LEMMA EraseStep ==
    ASSUME NEW K, Grove(h, given, K), NEW t \in Trees, NEW k \in KeysIn(t), Erase(t, k), h'.fault = "none"
    PROVE  t \notin given /\ ErasesKey(K, t, k)
<1> DEFINE n == find_host_node(h, h.root[t], k)
           g == Unhang(t, k)
           b == is_valid(h, h.root[t])
           e == IF ~b THEN Fail(h, "assertion") ELSE IF n = k THEN g ELSE h
<1>1. t \notin given /\ given' = given /\ Leaves(e, <<"erase", t, k>>) /\ h \in Heaps /\ k \in Nodes
      /\ K[t] \in SUBSET Nodes
  BY KeysInNodes DEF Erase, Usable, Grove
<1>2. Whole(h, t, K[t])
  BY <1>1 DEF Grove, Trunks
<1>3. n = k <=> k \in K[t]
  <2>1. PICK S : Tree(h, K[t], S, h.root[t])
    BY <1>2 DEF Whole
  <2> DEFINE r == h.root[t]
  <2>2. Tree(h, K[t], S, r) /\ n = find_host_node(h, r, k)
    BY <2>1
  <2> HIDE DEF r, n
  <2> QED BY <1>1, <2>2, Hosts
<1>4. Taken(e)
  BY <1>1, LeavesTakes
<1>5. Private(h, K[t])
  BY GrovePrivate
<1>6. b = is_valid(h, h.root[t]) /\ g = Unhang(t, k) /\ e = IF ~b THEN Fail(h, "assertion") ELSE IF n = k THEN g ELSE h
  OBVIOUS
<1> HIDE DEF g, b, e, n
<1>7. h' = e /\ e.fault = "none"
  BY <1>4 DEF Taken
<1>8. Fail(h, "assertion").fault # "none"
  BY <1>1, FailSets
<1>9. b /\ e = IF n = k THEN g ELSE h
  BY <1>6, <1>7, <1>8
<1>10. CASE k \in K[t]
  <2>1. e = g /\ g.fault = "none"
    BY <1>3, <1>7, <1>9, <1>10
  <2>2. Erased(h, Unhang(t, k), t, K[t], k)
    BY <1>1, <1>2, <1>5, <1>6, <1>9, <1>10, <2>1, UnhangErases
  <2> QED BY <1>1, <1>6, <1>7, <1>10, <2>1, <2>2 DEF ErasesKey
<1>11. CASE k \notin K[t]
  BY <1>1, <1>3, <1>7, <1>9, <1>11 DEF ErasesKey
<1> QED BY <1>1, <1>10, <1>11

SplitsAt(K, t, k) ==
    given' = given /\ Kept(h, h', t, K[t]) /\ h'.root[t] = find_host_node(h, h.root[t], k)

\* Split makes the host of the key the root.
LEMMA SplitStep ==
    ASSUME NEW K, Grove(h, given, K), NEW t \in Trees, NEW k \in KeysIn(t), Split(t, k), h'.fault = "none"
    PROVE  t \notin given /\ SplitsAt(K, t, k)
<1> DEFINE n == find_host_node(h, h.root[t], k)
           g == rotate_up(h, t, n)
           e == IF n = Null THEN Fail(h, "null") ELSE g
<1>1. t \notin given /\ given' = given /\ Leaves(e, <<"split", t, k>>) /\ h \in Heaps /\ k \in Nodes
      /\ K[t] \in SUBSET Nodes
  BY KeysInNodes DEF Split, Usable, Grove
<1>2. Whole(h, t, K[t])
  BY <1>1 DEF Grove, Trunks
<1>3. n # Null => n \in K[t]
  <2>1. PICK S : Tree(h, K[t], S, h.root[t])
    BY <1>2 DEF Whole
  <2> DEFINE r == h.root[t]
  <2>2. Tree(h, K[t], S, r) /\ n = find_host_node(h, r, k)
    BY <2>1
  <2> HIDE DEF r, n
  <2> QED BY <1>1, <2>2, Hosts
<1>4. Taken(e)
  BY <1>1, LeavesTakes
<1>6. n = find_host_node(h, h.root[t], k) /\ g = rotate_up(h, t, n) /\ e = IF n = Null THEN Fail(h, "null") ELSE g
  OBVIOUS
<1> HIDE DEF g, e, n
<1>7. h' = e /\ e.fault = "none"
  BY <1>4 DEF Taken
<1>8. Fail(h, "null").fault # "none"
  BY <1>1, FailSets
<1>9. n # Null /\ e = g /\ n \in K[t]
  BY <1>3, <1>6, <1>7, <1>8
<1>10. Kept(h, rotate_up(h, t, n), t, K[t]) /\ rotate_up(h, t, n).root[t] = n
  BY <1>2, <1>6, <1>7, <1>9, RotateUpRoots
<1> QED BY <1>1, <1>6, <1>7, <1>9, <1>10 DEF SplitsAt

\* A tree of size one is its root.
LEMMA OneKey ==
    ASSUME NEW g, NEW t, NEW K \in SUBSET Nodes, Whole(g, t, K), sz(g, g.root[t]) = 1
    PROVE  K = {g.root[t]} /\ g.root[t] \in Nodes
<1> DEFINE r == g.root[t]
<1>1. K # {}
  <2>1. sz(g, Null) # 1
    BY DEF sz
  <2> QED BY <2>1, WholeTree
<1>2. r \in K
  BY <1>1, WholeTree
<1>3. r \in Nodes /\ r # Null
  BY <1>2, KeysArePositive
<1>4. PICK S : Tree(g, K, S, r)
  BY DEF Whole
<1>5. S[r] = K
  BY <1>1, <1>4, InTree
<1>6. g.node[r].sz = 1
  BY <1>3 DEF sz
<1> HIDE DEF r
<1>7. Cardinality(K) = 1
  <2>1. g \in Heaps /\ \A m \in K : Counted(g, m)
    BY WholeTree
  <2>2. g.node[r].sz = Cardinality(S[r])
    BY <1>2, <1>4, <2>1, SizesCount
  <2> QED BY <1>5, <1>6, <2>2
<1>8. IsFiniteSet(K)
  BY FiniteMemory, FS_Subset
<1>9. \E x : K = {x}
  BY <1>7, <1>8, FS_Singleton
<1>10. K = {r}
  BY <1>2, <1>9
<1> QED BY <1>3, <1>10 DEF r

JoinsTrees(K, a, b, r) ==
    /\ given' = given \cup {a, b}
    /\ Kept(h, h', r, K[a] \cup K[b] \cup K[r])

\* Join makes one tree of three.
LEMMA JoinStep ==
    ASSUME NEW K, Grove(h, given, K), NEW a \in Trees, NEW b \in Trees, NEW r \in Trees,
           Join(a, b, r), h'.fault = "none"
    PROVE  /\ a \notin given /\ b \notin given /\ r \notin given /\ <<a, b, r>> \in Joins
           /\ JoinsTrees(K, a, b, r)
<1> DEFINE top == h.root[r]
           g == Joined(h, a, b, r)
           c == is_valid(g, g.root[r])
           one == sz(h, top) = 1
           none == Null \in {h.root[a], h.root[b]}
           e == CASE ~one -> Fail(h, "assertion")
                  [] one /\ none -> Fail(h, "null")
                  [] OTHER -> Checked(g, c)
<1>1. /\ a \notin given /\ b \notin given /\ r \notin given /\ <<a, b, r>> \in Joins
      /\ h \in Heaps /\ K[a] \in SUBSET Nodes /\ K[b] \in SUBSET Nodes /\ K[r] \in SUBSET Nodes
  BY DEF Join, Usable, Grove
<1>2. Leaves(e, <<"join", a, b, r>>) /\ given' = IF e.fault = "none" THEN given \cup {a, b} ELSE given
  BY DEF Join, Joined, Tied
<1>3. Taken(e)
  BY <1>1, <1>2, LeavesTakes
<1>4. c \in BOOLEAN
  BY DEF is_valid
<1>5. e = IF ~one THEN Fail(h, "assertion") ELSE IF none THEN Fail(h, "null") ELSE Checked(g, c)
  <2> HIDE DEF g, c, one, none
  <2> QED OBVIOUS
<1>6. (one <=> sz(h, h.root[r]) = 1) /\ (none <=> Null \in {h.root[a], h.root[b]}) /\ g = Joined(h, a, b, r)
  OBVIOUS
<1> HIDE DEF g, c, one, none, e, top
<1>7. h' = e /\ e.fault = "none"
  BY <1>3 DEF Taken
<1>8. Fail(h, "assertion").fault # "none" /\ Fail(h, "null").fault # "none"
  BY <1>1, FailSets
<1>9. sz(h, h.root[r]) = 1 /\ h.root[a] # Null /\ h.root[b] # Null /\ e = Checked(g, c)
  BY <1>5, <1>6, <1>7, <1>8
<1>10. Whole(h, a, K[a]) /\ Whole(h, b, K[b]) /\ Whole(h, r, K[r])
  BY <1>1 DEF Grove, Trunks
<1>11. K[r] = {h.root[r]} /\ h.root[r] \in Nodes
  BY <1>1, <1>9, <1>10, OneKey
<1>12. K[a] # {} /\ K[b] # {}
  BY <1>9, <1>10, WholeTree
<1>13. JoinReady(h, a, b, r, K[a], K[b], h.root[r])
  <2>1. \A x \in K[a], y \in K[b], z \in K[r] : x < z /\ z < y
    BY <1>1, Joinable
  <2>2. \A x \in K[a] : x < h.root[r]
    BY <1>11, <1>12, <2>1
  <2>3. \A y \in K[b] : h.root[r] < y
    BY <1>11, <1>12, <2>1
  <2> QED BY <1>10, <1>11, <1>12, <2>2, <2>3 DEF JoinReady
<1>14. KeepsIf(h, g, r, K[a] \cup K[b] \cup K[r])
  BY <1>6, <1>11, <1>13, JoinKeeps
<1>15. e = g /\ g.fault = "none"
  <2>1. g \in Heaps
    BY <1>14 DEF KeepsIf
  <2> QED BY <1>4, <1>7, <1>9, <2>1, CheckedSets
<1> QED BY <1>1, <1>2, <1>7, <1>14, <1>15 DEF KeepsIf, JoinsTrees

(* Between calls, each tree that has not been given away has keys of its own, *)
(* its nodes are in order, threaded and counted, and those of no tree are new.*)
GroveStands == h.fault = "none" => \E K : Grove(h, given, K)

\* Before the first call.
LEMMA InitStands == Init => GroveStands
<1> DEFINE K == [t \in Trees |-> {}]
<1> SUFFICES ASSUME Init PROVE Grove(h, given, K)
  BY DEF GroveStands
<1>1. h = None /\ given = {}
  BY DEF Init
<1>2. /\ None.node = [n \in Nodes |-> NewNode] /\ None.root = [t \in Trees |-> Null] /\ None.live = {}
      /\ None \in Heaps
  <2>1. [n \in Nodes |-> NewNode] \in [Nodes -> Node] /\ [t \in Trees |-> Null] \in [Trees -> Links]
    BY FreshNode DEF Links
  <2> QED BY <2>1 DEF None, Heaps, Calls
<1>3. ASSUME NEW t \in Trees PROVE Whole(None, t, {})
  <2>1. Tree(None, {}, [k \in {} |-> {}], Null)
    BY DEF Tree, Spans, Nested, Apart, RootedAt, Kids, Parents, Upward
  <2>2. None.root[t] = Null
    BY <1>2
  <2> QED BY <1>2, <2>1, <2>2 DEF Whole, Threads
<1>4. K \in [Trees -> SUBSET Nodes] /\ \A t \in Trees : K[t] = {}
  OBVIOUS
<1> HIDE DEF K
<1>5. Trunks(None, {}, K)
  BY <1>3, <1>4 DEF Trunks
<1>6. Owned(None, {}, K)
  BY <1>2, <1>4 DEF Owned
<1>7. Contents(None)
  BY <1>2 DEF Contents
<1> QED BY <1>1, <1>2, <1>4, <1>5, <1>6, <1>7 DEF Grove, Asunder

\* A program that has failed makes no calls.
LEMMA NextRuns == Next => h.fault = "none"
<1>1. ASSUME NEW t, NEW k, NEW v, Insert(t, k, v) PROVE h.fault = "none"
  BY <1>1 DEF Insert, Running
<1>2. ASSUME NEW t, NEW k, Erase(t, k) \/ Split(t, k) PROVE h.fault = "none"
  BY <1>2 DEF Erase, Split, Running
<1>3. ASSUME NEW a, NEW b, NEW r, Join(a, b, r) PROVE h.fault = "none"
  BY <1>3 DEF Join, Running
<1> QED BY <1>1, <1>2, <1>3 DEF Next

\* Every call.
LEMMA StandsStep == GroveStands /\ [Next]_vars => GroveStands'
<1> SUFFICES ASSUME GroveStands, [Next]_vars, h'.fault = "none" PROVE \E K : Grove(h', given', K)
  BY DEF GroveStands
<1>1. CASE UNCHANGED vars
  BY <1>1 DEF vars, GroveStands
<1>2. CASE Next
  <2>1. h.fault = "none"
    BY <1>2, NextRuns
  <2>2. PICK K : Grove(h, given, K)
    BY <2>1 DEF GroveStands
  <2>3. ASSUME NEW t \in Trees, NEW k \in KeysOf[t], NEW v \in ValuesOf[k], Insert(t, k, v)
        PROVE  \E K2 : Grove(h', given', K2)
    <3>1. t \notin given /\ InsertsKey(K, t, k, v)
      BY <2>2, <2>3, InsertStep
    <3>2. CASE k \in K[t]
      BY <2>2, <3>1, <3>2 DEF InsertsKey
    <3>3. CASE k \notin K[t]
      BY <2>2, <3>1, <3>3, InsertedGrove DEF InsertsKey
    <3> QED BY <3>2, <3>3
  <2>4. ASSUME NEW t \in Trees, NEW k \in KeysIn(t), Erase(t, k)
        PROVE  \E K2 : Grove(h', given', K2)
    <3>1. t \notin given /\ ErasesKey(K, t, k)
      BY <2>2, <2>4, EraseStep
    <3>2. CASE k \in K[t]
      BY <2>2, <3>1, <3>2, ErasedGrove DEF ErasesKey
    <3>3. CASE k \notin K[t]
      BY <2>2, <3>1, <3>3 DEF ErasesKey
    <3> QED BY <3>2, <3>3
  <2>5. ASSUME NEW t \in Trees, NEW k \in KeysIn(t), Split(t, k)
        PROVE  \E K2 : Grove(h', given', K2)
    <3>1. t \notin given /\ SplitsAt(K, t, k)
      BY <2>2, <2>5, SplitStep
    <3> QED BY <2>2, <3>1, KeptGrove DEF SplitsAt
  <2>6. ASSUME NEW a \in Trees, NEW b \in Trees, NEW r \in Trees, Join(a, b, r)
        PROVE  \E K2 : Grove(h', given', K2)
    <3>1. /\ a \notin given /\ b \notin given /\ r \notin given /\ <<a, b, r>> \in Joins
          /\ JoinsTrees(K, a, b, r)
      BY <2>2, <2>6, JoinStep
    <3> QED BY <2>2, <3>1, JoinedGrove DEF JoinsTrees
  <2> QED BY <1>2, <2>3, <2>4, <2>5, <2>6 DEF Next
<1> QED BY <1>1, <1>2

(* Whatever is inserted, erased, joined and split, in any number of trees of *)
(* any size: until a call fails, the shape, the thread and the sizes of every *)
(* tree are right, and no node is in two trees or in none.                   *)
THEOREM Invariance == Spec => []GroveStands
BY InitStands, StandsStep, PTL DEF Spec

-----------------------------------------------------------------------------
(* What the invariant says of the nodes.                                   *)

\* The descents find the keys of the tree.
LEMMA HeldKeys ==
    ASSUME NEW g, NEW K, NEW S, NEW r, Tree(g, K, S, r)
    PROVE  {k \in Nodes : find_host_node(g, r, k) = k} = K
<1>1. K \subseteq Nodes
  BY InTree
<1>2. \A k \in Nodes : find_host_node(g, r, k) = k <=> k \in K
  BY Hosts
<1> QED BY <1>1, <1>2

\* The same, of the state.
LEMMA HoldingIs ==
    ASSUME NEW t, NEW K, Whole(h, t, K)
    PROVE  Holding(t) = K
<1>1. PICK S : Tree(h, K, S, h.root[t])
  BY DEF Whole
<1> DEFINE r == h.root[t]
<1>2. Tree(h, K, S, r)
  BY <1>1
<1>3. Holding(t) = {k \in Nodes : find_host_node(h, r, k) = k}
  BY DEF Holding, HasKey, Root
<1> HIDE DEF r
<1> QED BY <1>2, <1>3, HeldKeys

\* The sizes count the keys.
LEMMA WholeSizes ==
    ASSUME NEW g, NEW t, NEW K, Whole(g, t, K)
    PROVE  /\ sz(g, g.root[t]) = Cardinality(K)
           /\ \A n \in K : g.node[n].sz \in 1 .. Cardinality(Nodes)
<1> DEFINE r == g.root[t]
<1>1. PICK S : Tree(g, K, S, r)
  BY DEF Whole
<1>2. g \in Heaps /\ (\A m \in K : Counted(g, m)) /\ K \subseteq Nodes /\ Null \notin K
  BY WholeTree
<1>3. \A n \in K : g.node[n].sz = Cardinality(S[n])
  BY <1>1, <1>2, SizesCount
<1>4. CASE K = {}
  <2>1. r = Null
    BY <1>4, WholeTree
  <2>2. sz(g, r) = 0
    BY <2>1 DEF sz
  <2> QED BY <1>4, <2>2, FS_EmptySet
<1>5. CASE K # {}
  <2>1. r \in K /\ S[r] = K
    BY <1>1, <1>5, InTree
  <2>2. sz(g, r) = g.node[r].sz
    BY <1>2, <2>1 DEF sz
  <2>3. sz(g, r) = Cardinality(K)
    BY <1>3, <2>1, <2>2
  <2>4. ASSUME NEW n \in K PROVE g.node[n].sz \in 1 .. Cardinality(Nodes)
    <3>1. g.node[n].sz \in Nat \ {0}
      BY <1>2, NodeTypes
    <3>2. S[n] \in SUBSET Nodes
      BY <1>1, <1>2, InTree
    <3>3. Cardinality(S[n]) <= Cardinality(Nodes) /\ Cardinality(Nodes) \in Nat
      BY <3>2, FiniteMemory, FS_Subset, FS_CardinalityType
    <3> QED BY <1>3, <3>1, <3>3
  <2> QED BY <2>3, <2>4
<1> QED BY <1>4, <1>5

\* The links of a node lead to nodes of its tree.
LEMMA LinksWithin ==
    ASSUME NEW g, NEW t, NEW K, Whole(g, t, K), NEW n \in K
    PROVE  /\ Par(g, n) \in K \cup {Null}
           /\ \A i \in {L, R} : child(g, n, i) \in K \cup {Null} /\ Dir(g, n, i) \in K \cup {Null}
<1>1. PICK S : Tree(g, K, S, g.root[t])
  BY DEF Whole
<1>2. Par(g, n) \in K \cup {Null}
  <2>1. n = g.root[t] => Par(g, n) = Null
    BY WholeTree
  <2>2. n # g.root[t] => Par(g, n) \in K
    BY <1>1 DEF Tree, Parents
  <2> QED BY <2>1, <2>2
<1>3. \A i \in {L, R} : child(g, n, i) = Null \/ child(g, n, i) \in K
  BY <1>1, KidIs
<1>4. \A i \in {L, R} : Dir(g, n, i) \in K \cup {Null}
  <2>1. \A i \in {L, R} : Thread(g, K, n, i)
    BY WholeTree DEF Threads
  <2> QED BY <2>1 DEF Thread
<1> QED BY <1>2, <1>3, <1>4

\* The type invariant follows.
LEMMA GroveTyped ==
    ASSUME NEW K, Grove(h, given, K)
    PROVE  TypeOK
<1>1. h \in Heaps /\ given \subseteq Trees /\ h.live \subseteq Nodes
  BY NodeTypes DEF Grove
<1>2. h.root \in [Trees -> Nodes \cup {Null}]
  BY <1>1, NodeTypes DEF Links
<1>3. h.fault \in {"none", "assertion", "null", "endless"}
  BY <1>1 DEF Heaps
<1>4. ASSUME NEW n \in h.live
      PROVE  /\ {Par(h, n), child(h, n, L), child(h, n, R), Dir(h, n, L), Dir(h, n, R)} \subseteq h.live \cup {Null}
             /\ Val(h, n) \in ValuesOf[n] /\ h.node[n].height \in Nat \ {0}
             /\ h.node[n].sz \in 1 .. Cardinality(Nodes)
  <2>1. PICK t \in Trees : n \in K[t]
    BY DEF Grove, Owned
  <2>2. t \notin given /\ K[t] \subseteq h.live
    BY <2>1 DEF Grove, Owned
  <2>3. Whole(h, t, K[t])
    BY <2>2 DEF Grove, Trunks
  <2>4. Par(h, n) \in K[t] \cup {Null} /\ \A i \in {L, R} : child(h, n, i) \in K[t] \cup {Null} /\ Dir(h, n, i) \in K[t] \cup {Null}
    BY <2>1, <2>3, LinksWithin
  <2>5. h.node[n].sz \in 1 .. Cardinality(Nodes)
    BY <2>1, <2>3, WholeSizes
  <2>6. h.node[n].height \in Nat \ {0} /\ Val(h, n) \in ValuesOf[n]
    BY <1>1, NodeTypes DEF Grove, Contents
  <2> QED BY <2>2, <2>4, <2>5, <2>6
<1> QED BY <1>1, <1>2, <1>3, <1>4 DEF TypeOK, Par, child, Dir, Val

\* So does that nodes are held.
LEMMA GroveHolds ==
    ASSUME NEW K, Grove(h, given, K)
    PROVE  NodesHeld
<1>1. \A t \in Trees \ given : Whole(h, t, K[t])
  BY DEF Grove, Trunks
<1>2. \A t \in Trees \ given : Holding(t) = K[t]
  BY <1>1, HoldingIs
<1>3. h.live = UNION {Holding(t) : t \in Trees \ given}
  <2>1. h.live = UNION {K[t] : t \in Trees} /\ \A t \in given : K[t] = {}
    BY DEF Grove, Owned
  <2> QED BY <1>2, <2>1
<1>4. \A t, u \in Trees \ given : t # u => Holding(t) \cap Holding(u) = {}
  BY <1>2 DEF Grove, Asunder
<1>5. \A t \in Standing : sz(h, Root(t)) = Cardinality(Holding(t))
  <2>1. ASSUME NEW t \in Standing PROVE sz(h, Root(t)) = Cardinality(Holding(t))
    <3>1. t \in Trees \ given
      BY DEF Standing, Usable
    <3>2. sz(h, h.root[t]) = Cardinality(K[t])
      BY <1>1, <3>1, WholeSizes
    <3> QED BY <1>2, <3>1, <3>2 DEF Root
  <2> QED BY <2>1
<1> QED BY <1>3, <1>4, <1>5, GroveTyped DEF NodesHeld

Neighbours(X, n, prev, next) ==
    LET below == {k \in X : k < n}
        above == {k \in X : k > n}
    IN  /\ IF below = {} THEN prev = Null ELSE prev \in below /\ \A k \in below : k <= prev
        /\ IF above = {} THEN next = Null ELSE next \in above /\ \A k \in above : next <= k

\* And that they are threaded.
LEMMA GroveThreads ==
    ASSUME NEW K, Grove(h, given, K)
    PROVE  Threaded
<1> SUFFICES ASSUME NEW t \in Standing, NEW n \in Holding(t)
             PROVE  Neighbours(Holding(t), n, h.node[n].dir[L], h.node[n].dir[R])
  BY DEF Threaded, Neighbours
<1> DEFINE below == {k \in Holding(t) : k < n}
           above == {k \in Holding(t) : k > n}
           prev == h.node[n].dir[L]
           next == h.node[n].dir[R]
<1>0. /\ below = {k \in Holding(t) : k < n} /\ above = {k \in Holding(t) : k > n}
      /\ prev = Dir(h, n, L) /\ next = Dir(h, n, R)
  BY DEF Dir
<1>A. Neighbours(Holding(t), n, prev, next) <=>
          /\ IF below = {} THEN prev = Null ELSE prev \in below /\ \A k \in below : k <= prev
          /\ IF above = {} THEN next = Null ELSE next \in above /\ \A k \in above : next <= k
  BY DEF Neighbours
<1> HIDE DEF below, above, prev, next
<1>1. t \in Trees \ given
  BY DEF Standing, Usable
<1>2. Whole(h, t, K[t])
  BY <1>1 DEF Grove, Trunks
<1>3. Holding(t) = K[t]
  BY <1>2, HoldingIs
<1>4. K[t] \subseteq Nodes /\ Threads(h, K[t])
  BY <1>2, WholeTree
<1>5. K[t] \subseteq Nat \ {Null}
  BY <1>4, KeysArePositive
<1>6. Thread(h, K[t], n, L) /\ Thread(h, K[t], n, R)
  BY <1>3, <1>4 DEF Threads
<1>7. \A k \in K[t] : (On(L, k, n) <=> k < n) /\ (On(R, k, n) <=> k > n)
  BY <1>3, <1>5 DEF On, L, R
<1>8. below = {k \in K[t] : On(L, k, n)} /\ above = {k \in K[t] : On(R, k, n)}
  BY <1>0, <1>3, <1>7
<1>9. IF below = {} THEN prev = Null ELSE prev \in below /\ \A k \in below : k <= prev
  <2>1. IF prev = Null THEN \A k \in K[t] : ~On(L, k, n)
        ELSE /\ prev \in K[t] /\ On(L, prev, n)
             /\ \A k \in K[t] : On(L, k, n) => k = prev \/ On(L, k, prev)
    BY <1>0, <1>6 DEF Thread
  <2>2. \A k \in K[t] : prev \in K[t] => (On(L, k, prev) <=> k < prev)
    BY <1>5 DEF On, L, R
  <2> QED BY <1>5, <1>8, <2>1, <2>2
<1>10. IF above = {} THEN next = Null ELSE next \in above /\ \A k \in above : next <= k
  <2>1. IF next = Null THEN \A k \in K[t] : ~On(R, k, n)
        ELSE /\ next \in K[t] /\ On(R, next, n)
             /\ \A k \in K[t] : On(R, k, n) => k = next \/ On(R, k, next)
    BY <1>0, <1>6 DEF Thread
  <2>2. \A k \in K[t] : next \in K[t] => (On(R, k, next) <=> next < k)
    BY <1>5 DEF On, L, R
  <2> QED BY <1>5, <1>8, <2>1, <2>2
<1> QED BY <1>9, <1>10, <1>A DEF prev, next

(* No call loses, shares or leaks a node, and size() counts the keys.        *)
THEOREM NodesAreHeld == Spec => []NodesHeld
<1>1. GroveStands => NodesHeld
  BY GroveHolds DEF GroveStands, NodesHeld
<1> QED BY <1>1, Invariance, PTL

(* The links from node to node, which erase relies on, are in key order.      *)
THEOREM NodesAreThreaded == Spec => []Threaded
<1>1. GroveStands => Threaded
  <2>1. h.fault = "none" /\ GroveStands => Threaded
    BY GroveThreads DEF GroveStands
  <2>2. h.fault # "none" => Threaded
    BY DEF Threaded, Standing
  <2> QED BY <2>1, <2>2
<1> QED BY <1>1, Invariance, PTL

SplitRoots ==
    h' # h /\ h'.live = h.live /\ h'.fault = "none" =>
       \A t \in Trees : \A k \in KeysIn(t) :
          Split(t, k) => h'.root[t] = find_host_node(h, Root(t), k)

(* A split that ends has the host of its key at the root of the tree.        *)
THEOREM HostsAreRooted == Spec => SplitRootsTheHost
<1>1. GroveStands /\ [Next]_vars => [SplitRoots]_vars
  <2> SUFFICES ASSUME GroveStands, h'.fault = "none", NEW t \in Trees, NEW k \in KeysIn(t), Split(t, k)
               PROVE  h'.root[t] = find_host_node(h, Root(t), k)
    BY DEF SplitRoots
  <2>1. h.fault = "none"
    BY DEF Split, Running
  <2>2. PICK K : Grove(h, given, K)
    BY <2>1 DEF GroveStands
  <2>3. SplitsAt(K, t, k)
    BY <2>2, SplitStep
  <2> QED BY <2>3 DEF SplitsAt, Root
<1>2. SplitRootsTheHost <=> [][SplitRoots]_vars
  BY DEF SplitRootsTheHost, SplitRoots
<1> QED BY <1>1, <1>2, Invariance, PTL DEF Spec

-----------------------------------------------------------------------------
(* The map that a tree is.                                                   *)
MapOf(g, X) == [k \in X |-> g.node[k].val]
MapsOf(g, gone) ==
    [t \in Trees |-> IF t \notin gone THEN [k \in {k \in Nodes : find_host_node(g, g.root[t], k) = k} |-> g.node[k].val]
                     ELSE [k \in {} |-> {}]]
Rooted(g, gone, K) ==
    /\ K \in [Trees -> SUBSET Nodes]
    /\ \A t \in Trees \ gone : \E S : Tree(g, K[t], S, g.root[t])
    /\ \A t \in Trees : t \in gone => K[t] = {}
DictOf(g, K) == [t \in Trees |-> MapOf(g, K[t])]

\* The map of no keys.
LEMMA NoKeys == \A g : MapOf(g, {}) = [k \in {} |-> {}]
BY DEF MapOf

\* The maps are those of the keys.
LEMMA RootedMaps ==
    ASSUME NEW g, NEW gone, NEW K, Rooted(g, gone, K)
    PROVE  MapsOf(g, gone) = DictOf(g, K)
<1>1. ASSUME NEW t \in Trees, t \notin gone
      PROVE  {k \in Nodes : find_host_node(g, g.root[t], k) = k} = K[t]
  <2>1. PICK S : Tree(g, K[t], S, g.root[t])
    BY <1>1 DEF Rooted
  <2> DEFINE r == g.root[t]
  <2>2. Tree(g, K[t], S, r)
    BY <2>1
  <2> HIDE DEF r
  <2>3. {k \in Nodes : find_host_node(g, r, k) = k} = K[t]
    BY <2>2, HeldKeys
  <2> QED BY <2>3 DEF r
<1> DEFINE One(t) == IF t \notin gone THEN MapOf(g, {k \in Nodes : find_host_node(g, g.root[t], k) = k})
                     ELSE [k \in {} |-> {}]
<1>2. MapsOf(g, gone) = [t \in Trees |-> One(t)]
  BY DEF MapsOf, MapOf
<1>3. ASSUME NEW t \in Trees PROVE One(t) = MapOf(g, K[t])
  <2>1. CASE t \notin gone
    BY <1>1, <2>1
  <2>2. CASE t \in gone
    <3>1. K[t] = {}
      BY <2>2 DEF Rooted
    <3> QED BY <2>2, <3>1, NoKeys
  <2> QED BY <2>1, <2>2
<1> HIDE DEF One
<1> QED BY <1>2, <1>3 DEF DictOf

\* What the maps depend on.
LEMMA GroveRooted ==
    ASSUME NEW g, NEW gone, NEW K, Grove(g, gone, K)
    PROVE  Rooted(g, gone, K)
BY DEF Grove, Rooted, Trunks, Whole, Owned

\* That is the nodes and the roots.
LEMMA SameRooted ==
    ASSUME NEW g, NEW gone, NEW K, Rooted(g, gone, K), NEW g2, g2.node = g.node, g2.root = g.root
    PROVE  Rooted(g2, gone, K)
<1>1. ASSUME NEW t \in Trees, t \notin gone PROVE \E S : Tree(g2, K[t], S, g2.root[t])
  <2>1. PICK S : Tree(g, K[t], S, g.root[t])
    BY <1>1 DEF Rooted
  <2>2. \A m \in K[t] : Par(g2, m) = Par(g, m) /\ \A i \in {L, R} : child(g2, m, i) = child(g, m, i)
    BY DEF Par, child
  <2>3. Tree(g2, K[t], S, g.root[t])
    BY <2>1, <2>2, SameTree
  <2> QED BY <2>3
<1> QED BY <1>1 DEF Rooted

\* The maps, of a state and of the next.
LEMMA MapsAre ==
    /\ Maps = MapsOf(h, given)
    /\ Maps' = MapsOf(h', given')
<1>1. Maps = MapsOf(h, given)
  BY DEF Maps, MapsOf, Holding, HasKey, Root, Usable
<1>2. Maps' = MapsOf(h', given')
  BY DEF Maps, MapsOf, Holding, HasKey, Root, Usable
<1> QED BY <1>1, <1>2

-----------------------------------------------------------------------------
(* The maps: what each call does to them.                                  *)

\* What a call makes of the maps, in terms of their keys.
LEMMA DictIs ==
    ASSUME NEW K, Grove(h, given, K)
    PROVE  Maps = DictOf(h, K)
BY MapsAre, GroveRooted, RootedMaps

\* The maps after a call.
LEMMA DictIsNext ==
    ASSUME NEW K, Grove(h', given', K)
    PROVE  Maps' = DictOf(h', K)
BY MapsAre, GroveRooted, RootedMaps

\* The keys and the values of a map.
LEMMA DictKeys ==
    ASSUME NEW g, NEW K, NEW t \in Trees
    PROVE  /\ DictOf(g, K)[t] = MapOf(g, K[t]) /\ DOMAIN MapOf(g, K[t]) = K[t]
           /\ \A k \in K[t] : MapOf(g, K[t])[k] = Val(g, k)
BY DEF DictOf, MapOf, Val

\* A map is known by its keys and values.
LEMMA MapIs ==
    ASSUME NEW g, NEW X, NEW f, f = [k \in DOMAIN f |-> f[k]], DOMAIN f = X, \A k \in X : f[k] = Val(g, k)
    PROVE  MapOf(g, X) = f
BY DEF MapOf, Val

\* A map depends on its values.
LEMMA SameMap ==
    ASSUME NEW g, NEW g2, NEW X, \A k \in X : Val(g2, k) = Val(g, k)
    PROVE  MapOf(g2, X) = MapOf(g, X)
BY DEF MapOf, Val

\* So do all of them.
LEMMA SameDict ==
    ASSUME NEW g, NEW g2, NEW K, \A t \in Trees : \A k \in K[t] : Val(g2, k) = Val(g, k)
    PROVE  DictOf(g2, K) = DictOf(g, K)
<1>1. \A t \in Trees : MapOf(g2, K[t]) = MapOf(g, K[t])
  BY SameMap
<1> QED BY <1>1 DEF DictOf

\* An insertion into the map.
LEMMA InsertMaps ==
    ASSUME NEW K, Grove(h, given, K), NEW t \in Trees, t \notin given, NEW k \in KeysOf[t], NEW v \in ValuesOf[k],
           k \notin K[t], InsertsKey(K, t, k, v)
    PROVE  Contract!Insert(t, k, v)
<1> DEFINE K2 == [K EXCEPT ![t] = @ \cup {k}]
           d == DictOf(h, K)
           X == K[t] \cup {k}
           f == [j \in DOMAIN d[t] \cup {k} |-> IF j = k THEN v ELSE d[t][j]]
<1>1. Inserted(h, h', t, K[t], k, v) /\ given' = given
  BY DEF InsertsKey
<1>2. Grove(h', given', K2)
  BY <1>1, InsertedGrove
<1>3. Maps = d
  BY DictIs
<1>4. K \in [Trees -> SUBSET Nodes] /\ \A m \in Nodes : Val(h', m) = IF m = k THEN v ELSE Val(h, m)
  BY <1>1 DEF Grove, Inserted
<1>5. K2 = [u \in Trees |-> IF u = t THEN X ELSE K[u]]
  BY <1>4
<1> HIDE DEF K2
<1>6. Maps' = DictOf(h', K2)
  BY <1>2, DictIsNext
<1>7. d[t] = MapOf(h, K[t]) /\ DOMAIN d[t] = K[t] /\ \A j \in K[t] : d[t][j] = Val(h, j)
  BY DictKeys
<1>8. MapOf(h', X) = f
  <2>1. DOMAIN f = X /\ f = [j \in DOMAIN f |-> f[j]]
    BY <1>7
  <2>2. \A j \in X : f[j] = Val(h', j)
    <3>1. X \subseteq Nodes
      BY <1>4 DEF Nodes
    <3> QED BY <1>4, <1>7, <3>1
  <2> HIDE DEF f, X
  <2> QED BY <2>1, <2>2, MapIs
<1>9. \A u \in Trees \ {t} : MapOf(h', K[u]) = MapOf(h, K[u])
  <2>1. ASSUME NEW u \in Trees \ {t} PROVE \A m \in K[u] : Val(h', m) = Val(h, m)
    <3>1. k \notin K[u] /\ K[u] \subseteq Nodes
      BY <1>4, Unshared
    <3> QED BY <1>4, <3>1
  <2> QED BY <2>1, SameMap
<1>10. d = [u \in Trees |-> MapOf(h, K[u])]
  BY DEF DictOf
<1>11. DictOf(h', K2) = [u \in Trees |-> IF u = t THEN f ELSE MapOf(h, K[u])]
  <2> HIDE DEF f, X
  <2>1. \A u \in Trees : MapOf(h', K2[u]) = IF u = t THEN f ELSE MapOf(h, K[u])
    BY <1>5, <1>8, <1>9
  <2> QED BY <2>1 DEF DictOf
<1>12. DictOf(h', K2) = [d EXCEPT ![t] = f]
  <2> HIDE DEF d, f
  <2> QED BY <1>10, <1>11
<1>13. [d EXCEPT ![t] = IF k \in DOMAIN @ THEN @ ELSE [j \in DOMAIN @ \cup {k} |-> IF j = k THEN v ELSE @[j]]]
         = [d EXCEPT ![t] = f]
  <2>1. k \notin DOMAIN d[t]
    BY <1>7
  <2> HIDE DEF d
  <2> QED BY <2>1
<1> HIDE DEF d, f
<1> QED BY <1>3, <1>6, <1>12, <1>13 DEF Contract!Insert

\* An erasure from the map.
LEMMA EraseMaps ==
    ASSUME NEW K, Grove(h, given, K), NEW t \in Trees, t \notin given, NEW k \in K[t], ErasesKey(K, t, k)
    PROVE  k \in DOMAIN Maps[t] /\ Contract!Erase(t, k)
<1> DEFINE K2 == [K EXCEPT ![t] = @ \ {k}]
           d == DictOf(h, K)
           X == K[t] \ {k}
           f == [j \in DOMAIN d[t] \ {k} |-> d[t][j]]
<1>1. Erased(h, h', t, K[t], k) /\ given' = given
  BY DEF ErasesKey
<1>2. Grove(h', given', K2)
  BY <1>1, ErasedGrove
<1>3. Maps = d
  BY DictIs
<1>4. K \in [Trees -> SUBSET Nodes] /\ \A m \in Nodes \ {k} : Val(h', m) = Val(h, m)
  BY <1>1 DEF Grove, Erased
<1>5. K2 = [u \in Trees |-> IF u = t THEN X ELSE K[u]]
  BY <1>4
<1> HIDE DEF K2
<1>6. Maps' = DictOf(h', K2)
  BY <1>2, DictIsNext
<1>7. d[t] = MapOf(h, K[t]) /\ DOMAIN d[t] = K[t] /\ \A j \in K[t] : d[t][j] = Val(h, j)
  BY DictKeys
<1>8. MapOf(h', X) = f
  <2>1. DOMAIN f = X /\ f = [j \in DOMAIN f |-> f[j]]
    BY <1>7
  <2>2. \A j \in X : f[j] = Val(h', j)
    <3>1. X \subseteq Nodes \ {k}
      BY <1>4
    <3> QED BY <1>4, <1>7, <3>1
  <2> HIDE DEF f, X
  <2> QED BY <2>1, <2>2, MapIs
<1>9. \A u \in Trees \ {t} : MapOf(h', K[u]) = MapOf(h, K[u])
  <2>1. ASSUME NEW u \in Trees \ {t} PROVE \A m \in K[u] : Val(h', m) = Val(h, m)
    <3>1. k \notin K[u] /\ K[u] \subseteq Nodes
      BY <1>4 DEF Grove, Asunder
    <3> QED BY <1>4, <3>1
  <2> QED BY <2>1, SameMap
<1>10. d = [u \in Trees |-> MapOf(h, K[u])]
  BY DEF DictOf
<1>11. DictOf(h', K2) = [u \in Trees |-> IF u = t THEN f ELSE MapOf(h, K[u])]
  <2> HIDE DEF f, X
  <2>1. \A u \in Trees : MapOf(h', K2[u]) = IF u = t THEN f ELSE MapOf(h, K[u])
    BY <1>5, <1>8, <1>9
  <2> QED BY <2>1 DEF DictOf
<1>12. DictOf(h', K2) = [d EXCEPT ![t] = f]
  <2> HIDE DEF d, f
  <2> QED BY <1>10, <1>11
<1>13. [d EXCEPT ![t] = [j \in DOMAIN @ \ {k} |-> @[j]]] = [d EXCEPT ![t] = f]
  <2> HIDE DEF d
  <2> QED OBVIOUS
<1> HIDE DEF d, f
<1> QED BY <1>3, <1>6, <1>7, <1>12, <1>13 DEF Contract!Erase

\* Two maps with different keys in one.
LEMMA MovedMap ==
    ASSUME NEW g, NEW X, NEW Y
    PROVE  Contract!Moved(MapOf(g, X), MapOf(g, Y)) = MapOf(g, X \cup Y)
<1> DEFINE m == MapOf(g, X)
           l == MapOf(g, Y)
           f == Contract!Moved(m, l)
<1>1. /\ DOMAIN m = X /\ DOMAIN l = Y
      /\ \A k \in X : m[k] = Val(g, k)
      /\ \A k \in Y : l[k] = Val(g, k)
  BY DEF MapOf, Val
<1> HIDE DEF m, l
<1>2. f = [k \in X \cup Y |-> IF k \in X THEN m[k] ELSE l[k]]
  BY <1>1 DEF Contract!Moved
<1> HIDE DEF f
<1>3. DOMAIN f = X \cup Y /\ f = [k \in DOMAIN f |-> f[k]]
  BY <1>2
<1>4. \A k \in X \cup Y : f[k] = Val(g, k)
  BY <1>1, <1>2
<1>5. MapOf(g, X \cup Y) = f
  BY <1>3, <1>4, MapIs
<1> QED BY <1>5 DEF f, m, l

\* Two maps are moved into the third.
LEMMA JoinMaps ==
    ASSUME NEW K, Grove(h, given, K), NEW a \in Trees, NEW b \in Trees, NEW r \in Trees,
           a \notin given, b \notin given, r \notin given, <<a, b, r>> \in Joins, JoinsTrees(K, a, b, r)
    PROVE  Contract!Join(a, b, r)
<1> DEFINE K2 == JoinedKeys(K, a, b, r)
           d == DictOf(h, K)
           X == K[r] \cup (K[a] \cup K[b])
           e == [k \in {} |-> {}]
           f == Contract!Moved(d[r], Contract!Moved(d[a], d[b]))
<1>1. Kept(h, h', r, K[a] \cup K[b] \cup K[r]) /\ given' = given \cup {a, b}
  BY DEF JoinsTrees
<1>2. Grove(h', given', K2)
  BY <1>1, JoinedGrove
<1>3. Maps = d
  BY DictIs
<1>4. K \in [Trees -> SUBSET Nodes] /\ \A m \in Nodes : Val(h', m) = Val(h, m)
  BY <1>1 DEF Grove, Kept
<1>5. /\ a # b /\ a # r /\ b # r
      /\ K2 = [u \in Trees |-> IF u = b THEN {} ELSE IF u = a THEN {} ELSE IF u = r THEN X ELSE K[u]]
  <2>1. a # b /\ a # r /\ b # r
    BY Joinable
  <2>2. X = K[a] \cup K[b] \cup K[r]
    OBVIOUS
  <2> HIDE DEF X
  <2> QED BY <2>1, <2>2 DEF JoinedKeys
<1> HIDE DEF K2
<1>6. Maps' = DictOf(h', K2)
  BY <1>2, DictIsNext
<1>7. d[r] = MapOf(h, K[r]) /\ d[a] = MapOf(h, K[a]) /\ d[b] = MapOf(h, K[b])
  BY DictKeys
<1>8. MapOf(h, X) = f
  <2>1. f = Contract!Moved(MapOf(h, K[r]), MapOf(h, K[a] \cup K[b]))
    BY <1>7, MovedMap
  <2> QED BY <2>1, MovedMap
<1>9. \A Y \in SUBSET Nodes : MapOf(h', Y) = MapOf(h, Y)
  <2>1. \A Y \in SUBSET Nodes : \A k \in Y : Val(h', k) = Val(h, k)
    BY <1>4
  <2> QED BY <2>1, SameMap
<1>10. d = [u \in Trees |-> MapOf(h, K[u])]
  BY DEF DictOf
<1>11. X \in SUBSET Nodes /\ {} \in SUBSET Nodes
  BY <1>4
<1>12. DictOf(h', K2) = [u \in Trees |-> IF u = b THEN e ELSE IF u = a THEN e ELSE IF u = r THEN f ELSE MapOf(h, K[u])]
  <2>1. MapOf(h', X) = f
    BY <1>8, <1>9, <1>11
  <2>2. MapOf(h', {}) = e
    BY NoKeys
  <2>3. \A u \in Trees : MapOf(h', K[u]) = MapOf(h, K[u])
    BY <1>4, <1>9
  <2> HIDE DEF f, X, e
  <2>4. \A u \in Trees : MapOf(h', K2[u]) = IF u = b THEN e ELSE IF u = a THEN e ELSE IF u = r THEN f ELSE MapOf(h, K[u])
    BY <1>5, <2>1, <2>2, <2>3
  <2> QED BY <2>4 DEF DictOf
<1>13. DictOf(h', K2) = [d EXCEPT ![r] = f, ![a] = e, ![b] = e]
  <2> HIDE DEF d, f, e
  <2> QED BY <1>5, <1>10, <1>12
<1>14. [d EXCEPT ![r] = Contract!Moved(@, Contract!Moved(d[a], d[b])), ![a] = e, ![b] = e]
         = [d EXCEPT ![r] = f, ![a] = e, ![b] = e]
  OBVIOUS
<1>15. Contract!Nothing = e
  BY DEF Contract!Nothing
<1> HIDE DEF d, f, e
<1> QED BY <1>3, <1>6, <1>13, <1>14, <1>15 DEF Contract!Join

\* A call that fails changes no map.
LEMMA FailKeepsMaps ==
    ASSUME NEW K, Grove(h, given, K), Next, h'.fault # "none"
    PROVE  Maps' = Maps
<1>1. h \in Heaps
  BY DEF Grove
<1>2. ASSUME NEW g, NEW call, Leaves(g, call)
      PROVE  h'.node = h.node /\ h'.root = h.root /\ g.fault # "none"
  BY <1>1, <1>2, LeavesTakes DEF Taken
<1>3. h'.node = h.node /\ h'.root = h.root /\ given' = given
  <2>1. ASSUME NEW t, NEW k, NEW v, Insert(t, k, v) PROVE h'.node = h.node /\ h'.root = h.root /\ given' = given
    BY <1>2, <2>1 DEF Insert
  <2>2. ASSUME NEW t, NEW k, Erase(t, k) PROVE h'.node = h.node /\ h'.root = h.root /\ given' = given
    BY <1>2, <2>2 DEF Erase
  <2>3. ASSUME NEW t, NEW k, Split(t, k) PROVE h'.node = h.node /\ h'.root = h.root /\ given' = given
    BY <1>2, <2>3 DEF Split
  <2>4. ASSUME NEW a, NEW b, NEW r, Join(a, b, r) PROVE h'.node = h.node /\ h'.root = h.root /\ given' = given
    <3>1. PICK g : Leaves(g, <<"join", a, b, r>>) /\ given' = IF g.fault = "none" THEN given \cup {a, b} ELSE given
      BY <2>4 DEF Join
    <3> QED BY <1>2, <3>1
  <2> QED BY <2>1, <2>2, <2>3, <2>4 DEF Next
<1>4. Rooted(h, given, K)
  BY GroveRooted
<1>5. Rooted(h', given', K)
  BY <1>3, <1>4, SameRooted
<1>6. DictOf(h', K) = DictOf(h, K)
  BY <1>3 DEF DictOf, MapOf
<1> QED BY <1>4, <1>5, <1>6, MapsAre, RootedMaps

(* The trees implement maps: each insertion, erasure and join changes the    *)
(* maps as KeyedStores says, and a split, a rotation or a failed call changes *)
(* none.                                                                     *)
THEOREM MapsAreKept == Spec => KeepsMaps
<1>1. Init => Contract!Init
  <2> SUFFICES ASSUME Init PROVE Maps = [t \in Trees |-> [k \in {} |-> {}]]
    BY DEF Contract!Init, Contract!Nothing
  <2>1. PICK K : Grove(h, given, K)
    BY InitStands DEF GroveStands, Init, None
  <2>2. \A t \in Trees : K[t] = {}
    <3>1. h.live = {}
      BY DEF Init, None
    <3> QED BY <2>1, <3>1 DEF Grove, Owned
  <2>3. Maps = DictOf(h, K)
    BY <2>1, DictIs
  <2>4. \A t \in Trees : MapOf(h, K[t]) = [k \in {} |-> {}]
    BY <2>2, NoKeys
  <2> QED BY <2>3, <2>4 DEF DictOf
<1>2. GroveStands /\ [Next]_vars => [Contract!Next]_Maps
  <2> SUFFICES ASSUME GroveStands, [Next]_vars PROVE Contract!Next \/ Maps' = Maps
    OBVIOUS
  <2>1. CASE UNCHANGED vars
    <3>1. h' = h /\ given' = given
      BY <2>1 DEF vars
    <3> QED BY <3>1, MapsAre
  <2>2. CASE Next
    <3>1. PICK K : Grove(h, given, K)
      BY <2>2, NextRuns DEF GroveStands
    <3>2. CASE h'.fault # "none"
      BY <2>2, <3>1, <3>2, FailKeepsMaps
    <3>3. CASE h'.fault = "none"
      <4>1. ASSUME NEW t \in Trees, NEW k \in KeysOf[t], NEW v \in ValuesOf[k], Insert(t, k, v)
            PROVE  Contract!Next \/ Maps' = Maps
        <5>1. t \notin given /\ InsertsKey(K, t, k, v)
          BY <3>1, <3>3, <4>1, InsertStep
        <5>2. CASE k \in K[t]
          BY <5>1, <5>2, MapsAre DEF InsertsKey
        <5>3. CASE k \notin K[t]
          <6>1. Contract!Insert(t, k, v)
            BY <3>1, <5>1, <5>3, InsertMaps
          <6> QED BY <6>1 DEF Contract!Next
        <5> QED BY <5>2, <5>3
      <4>2. ASSUME NEW t \in Trees, NEW k \in KeysIn(t), Erase(t, k)
            PROVE  Contract!Next \/ Maps' = Maps
        <5>1. t \notin given /\ ErasesKey(K, t, k)
          BY <3>1, <3>3, <4>2, EraseStep
        <5>2. CASE k \notin K[t]
          BY <5>1, <5>2, MapsAre DEF ErasesKey
        <5>3. CASE k \in K[t]
          <6>1. k \in DOMAIN Maps[t] /\ Contract!Erase(t, k)
            BY <3>1, <5>1, <5>3, EraseMaps
          <6> QED BY <6>1 DEF Contract!Next
        <5> QED BY <5>2, <5>3
      <4>3. ASSUME NEW t \in Trees, NEW k \in KeysIn(t), Split(t, k)
            PROVE  Maps' = Maps
        <5>1. t \notin given /\ SplitsAt(K, t, k)
          BY <3>1, <3>3, <4>3, SplitStep
        <5>2. Kept(h, h', t, K[t]) /\ given' = given
          BY <5>1 DEF SplitsAt
        <5>3. Grove(h', given', K)
          BY <3>1, <5>1, <5>2, KeptGrove
        <5>4. \A u \in Trees : \A m \in K[u] : Val(h', m) = Val(h, m)
          BY <3>1, <5>2 DEF Grove, Kept
        <5>5. DictOf(h', K) = DictOf(h, K)
          BY <5>4, SameDict
        <5> QED BY <3>1, <5>3, <5>5, DictIs, DictIsNext
      <4>4. ASSUME NEW a \in Trees, NEW b \in Trees, NEW r \in Trees, Join(a, b, r)
            PROVE  Contract!Next
        <5>1. /\ a \notin given /\ b \notin given /\ r \notin given /\ <<a, b, r>> \in Joins
              /\ JoinsTrees(K, a, b, r)
          BY <3>1, <3>3, <4>4, JoinStep
        <5>2. Contract!Join(a, b, r)
          BY <3>1, <5>1, JoinMaps
        <5> DEFINE j == <<a, b, r>>
        <5>3. j \in Joins /\ j[1] = a /\ j[2] = b /\ j[3] = r
          BY <5>1
        <5> HIDE DEF j
        <5>4. Contract!Join(j[1], j[2], j[3])
          BY <5>2, <5>3
        <5> QED BY <5>3, <5>4 DEF Contract!Next
      <4> QED BY <2>2, <4>1, <4>2, <4>3, <4>4 DEF Next
    <3> QED BY <3>2, <3>3
  <2> QED BY <2>1, <2>2
<1> QED BY <1>1, <1>2, Invariance, PTL DEF KeepsMaps, Contract!Spec, Spec
==============================================================================
