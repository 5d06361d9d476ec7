-------------------------- MODULE AvlTreeProperties --------------------------
(* What holds of the nodes of the trees between calls.                      *)
EXTENDS AvlTree

Root(t) == h.root[t]
Standing == {t \in Trees : Usable(t) /\ h.fault = "none"}
HasKey(t, k) == find_host_node(h, Root(t), k) = k
Holding(t) == {k \in Nodes : HasKey(t, k)}
Maps == [t \in Trees |-> IF Usable(t) THEN [k \in Holding(t) |-> h.node[k].val] ELSE [k \in {} |-> {}]]

(* The tree that split leaves behind has the host of the key as its root.   *)
SplitRootsTheHost ==
    [][h' # h /\ h'.live = h.live /\ h'.fault = "none" =>
       \A t \in Trees : \A k \in KeysIn(t) :
          Split(t, k) => h'.root[t] = find_host_node(h, Root(t), k)]_vars

(* Links lead to nodes that exist.                                          *)
TypeOK ==
    /\ h.live \subseteq Nodes
    /\ h.root \in [Trees -> Nodes \cup {Null}]
    /\ \A n \in h.live :
          LET o == h.node[n]
          IN  /\ {o.par, o.cld[L], o.cld[R], o.dir[L], o.dir[R]} \subseteq h.live \cup {Null}
              /\ o.val \in ValuesOf[n] /\ o.height \in Nat \ {0} /\ o.sz \in 1 .. Cardinality(Nodes)
    /\ h.fault \in {"none", "assertion", "null", "endless"}
    /\ given \subseteq Trees

(* A node that exists is in exactly one tree, where the descent for its key *)
(* ends at it: no call loses, shares or leaks a node, whatever it rotates,  *)
(* and size() counts the keys through every change of the subtrees.         *)
NodesHeld ==
    h.fault = "none" =>
    /\ TypeOK
    /\ h.live = UNION {Holding(t) : t \in Trees \ given}
    /\ \A t, u \in Trees \ given : t # u => Holding(t) \cap Holding(u) = {}
    /\ \A t \in Standing : sz(h, Root(t)) = Cardinality(Holding(t))

(* The thread through the nodes is the order of the keys, which erase uses  *)
(* to find the node that takes the place of one with two children.          *)
Threaded ==
    \A t \in Standing : \A n \in Holding(t) :
       LET below == {k \in Holding(t) : k < n}
           above == {k \in Holding(t) : k > n}
           prev == h.node[n].dir[L]
           next == h.node[n].dir[R]
       IN  /\ IF below = {} THEN prev = Null ELSE prev \in below /\ \A k \in below : k <= prev
           /\ IF above = {} THEN next = Null ELSE next \in above /\ \A k \in above : next <= k

(* The assertions, which say that a tree is ordered and balanced before and *)
(* after each call, hold but where a call is known to break them: erase of  *)
(* the only key; erase of the root when its right child is its successor;   *)
(* any call after a split has left a tree out of balance; join when r has   *)
(* not one node, with an empty tree, and of heights that differ by three,   *)
(* where it never ends; split of an empty tree, and of one that is higher   *)
(* than three or out of balance.                                            *)
Balanced(t) == is_valid(h, Root(t))
SwapsRootTwice(t) ==
    /\ child(h, Root(t), L) # Null
    /\ child(h, Root(t), R) # Null /\ child(h, Root(t), R) = h.node[Root(t)].dir[R]
HeightGap(a, b) == height(h, Root(a)) - height(h, Root(b))

FailsOnlyWhereKnown ==
    [][h.fault = "none" /\ h'.fault # "none" =>
       LET call == h'.failed
           t == call[2]
       IN  CASE call[1] = "insert" -> ~Balanced(t)
             [] call[1] = "erase" ->
                   \/ ~Balanced(t)
                   \/ Holding(t) = {call[3]}
                   \/ call[3] = Root(t) /\ SwapsRootTwice(t) /\ h'.fault = "assertion"
             [] call[1] = "join" ->
                   \/ Null \in {Root(t), Root(call[3])}
                   \/ Cardinality(Holding(call[4])) # 1
                   \/ ~(HeightGap(t, call[3]) \in -2 .. 2) /\ h'.fault = "endless"
                   \/ ~Balanced(t) \/ ~Balanced(call[3])
             [] call[1] = "split" -> height(h, Root(t)) \notin 1 .. 3 \/ ~Balanced(t)]_vars

(* The trees implement maps.                                                *)
Contract == INSTANCE KeyedStores WITH dict <- Maps
KeepsMaps == Contract!Spec
=============================================================================
