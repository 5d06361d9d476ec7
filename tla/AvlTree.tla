------------------------------ MODULE AvlTree ------------------------------
(* The threaded AVL tree of legacy/avl_tree.hpp. A node is named by its key *)
(* and lives in one heap h; dir links the neighbours in key order. Asserts  *)
(* are compiled in: one that fails, or a null node that is dereferenced,    *)
(* ends the program and is recorded in h.fault.                             *)
EXTENDS Integers, FiniteSets

CONSTANTS
    Trees,      \* the trees of the program
    KeysOf,     \* KeysOf[t]: the keys that may be inserted into t
    ValuesOf,   \* ValuesOf[k]: the values that may be mapped to k
    Joins,      \* the calls of join: triples <<a, b, r>> of trees
    Splits      \* bound: the trees that split is called on

Null == 0
Nodes == UNION {KeysOf[t] : t \in Trees}
\* The keys that t can come to have.
KeysIn(t) == KeysOf[t] \cup UNION {KeysOf[j[1]] \cup KeysOf[j[2]] : j \in {j \in Joins : j[3] = t}}
ASSUME KeysArePositive == Nodes \subseteq Nat \ {Null}
ASSUME FiniteMemory == IsFiniteSet(Nodes)
\* A key goes into one tree only, and join is called on trees in key order.
ASSUME KeysApart == \A t, u \in Trees : t # u => KeysOf[t] \cap KeysOf[u] = {}
\* A tree takes part in one join only, in which it has one part.
ASSUME JoinsOnce ==
    /\ \A j \in Joins : j \in Trees \X Trees \X Trees /\ j[1] # j[2] /\ j[1] # j[3] /\ j[2] # j[3]
    /\ \A i, j \in Joins : i # j => {i[1], i[2], i[3]} \cap {j[1], j[2], j[3]} = {}
ASSUME JoinsInOrder == \A j \in Joins : \A x \in KeysOf[j[1]], y \in KeysOf[j[2]], z \in KeysOf[j[3]] :
                          x < z /\ z < y

VARIABLES
    h,          \* the nodes and the roots
    given       \* trees whose nodes join has put into another tree
vars == <<h, given>>

-----------------------------------------------------------------------------
\* Bounds on the loops: a descent ends after as many steps as there are nodes;
\* one that rebalances and is not over after twice as many is taken for endless.
Size == Cardinality(Nodes)
Rounds == 2 * Size

NewNode == [val |-> Null, cld |-> <<Null, Null>>, dir |-> <<Null, Null>>,
            par |-> Null, height |-> 1, sz |-> 1]

L == 1
R == 2
Other(i) == 3 - i
child(g, n, i) == g.node[n].cld[i]
height(g, n) == IF n = Null THEN 0 ELSE g.node[n].height
sz(g, n) == IF n = Null THEN 0 ELSE g.node[n].sz
Larger(a, b) == IF a < b THEN b ELSE a
balance(g, n) == height(g, child(g, n, R)) - height(g, child(g, n, L))

real_height(g, n) ==
    LET tall[m \in Nodes \cup {Null}] ==
           IF m = Null THEN 0 ELSE 1 + Larger(tall[child(g, m, L)], tall[child(g, m, R)])
    IN  tall[n]
real_balance(g, n) == real_height(g, child(g, n, R)) - real_height(g, child(g, n, L))

Fail(g, why) == [g EXCEPT !.fault = IF @ = "none" THEN why ELSE @]
Checked(g, holds) == IF holds THEN g ELSE Fail(g, "assertion")
BalancesKnown(g, a, b) == Checked(g, \A n \in {a, b} : balance(g, n) = real_balance(g, n))

\* The links of a node that is not null; nothing for the null one.
SetPar(g, n, p) == IF n = Null THEN g ELSE [g EXCEPT !.node[n].par = p]
SetDir(g, n, i, m) == IF n = Null THEN g ELSE [g EXCEPT !.node[n].dir[i] = m]

update(g, n) ==
    [g EXCEPT !.node[n].height = Larger(height(g, child(g, n, L)), height(g, child(g, n, R))) + 1,
              !.node[n].sz = sz(g, child(g, n, L)) + sz(g, child(g, n, R)) + 1]

\* left_rotate is Rotate(g, t, a, L), right_rotate is Rotate(g, t, a, R): the
\* child b on the other side takes the place of a, which goes down to side i.
Turned(g, a, b, i) ==
    LET y == child(g, b, i)
    IN  SetPar([g EXCEPT !.node[a].cld[Other(i)] = y, !.node[b].cld[i] = a,
                         !.node[b].par = g.node[a].par, !.node[a].par = b], y, a)
Hung(g, t, p, a, b, i) ==
    IF p = Null THEN [g EXCEPT !.root[t] = b]
    ELSE [g EXCEPT !.node[p].cld[IF child(g, p, Other(i)) = a THEN Other(i) ELSE i] = b]
Rotate(g, t, a, i) ==
    LET b == child(g, a, Other(i))
        g1 == Turned(BalancesKnown(g, a, b), a, b, i)
    IN  IF b = Null THEN Fail(g, "assertion")
        ELSE BalancesKnown(update(update(Hung(g1, t, g.node[a].par, a, b, i), a), b), a, b)

imbalanced(g, n) == balance(g, n) <= -2 \/ balance(g, n) >= 2

\* One side of rebalance_local: side i of n is the higher one.
Upright(g, t, n, i) == IF balance(g, n) \in {-2, 2} THEN Rotate(g, t, n, Other(i)) ELSE g
Lower(g, t, n, i) ==
    LET c == child(g, n, i)
        sign == IF i = L THEN -1 ELSE 1
    IN  Upright(IF balance(g, c) = -sign THEN Rotate(g, t, c, i) ELSE g, t, n, i)

LowerLeft(g, t, n) == IF balance(g, n) <= -2 THEN Lower(g, t, n, L) ELSE g
LowerRight(g, t, n) == IF balance(g, n) >= 2 THEN Lower(g, t, n, R) ELSE g
\* Mutant: the height is not brought up to date.
rebalance_localStale(g, t, n) == LowerRight(LowerLeft(g, t, n), t, n)
rebalance_local(g, t, n) == LowerRight(LowerLeft(update(g, n), t, n), t, n)

\* rebalance calls itself on the parent: the nodes so far, and where it is.
Climb(was, t) ==
    LET g == rebalance_local(was.g, t, was.n)
    IN  IF was.n = Null THEN was ELSE [g |-> g, n |-> g.node[was.n].par]
rebalance(g, t, n) ==
    LET at[i \in 0 .. Rounds] == IF i = 0 THEN [g |-> g, n |-> n] ELSE Climb(at[i - 1], t)
        end == at[Rounds]
    IN  IF n = Null THEN Fail(g, "null")
        ELSE IF end.n = Null THEN end.g ELSE Fail(end.g, "endless")

is_sound(g, n) ==
    LET sound[m \in Nodes \cup {Null}] ==
           \A i \in {L, R} : m # Null /\ child(g, m, i) # Null =>
               g.node[child(g, m, i)].par = m /\ sound[child(g, m, i)]
    IN  sound[n]

\* The height is the real one when that holds of every node below as well.
Proper(g, n) ==
    /\ \A i \in {L, R} : child(g, n, i) # Null =>
          /\ g.node[child(g, n, i)].par = n
          /\ IF i = L THEN child(g, n, i) < n ELSE n < child(g, n, i)
    /\ height(g, n) = 1 + Larger(height(g, child(g, n, L)), height(g, child(g, n, R)))
    /\ ~imbalanced(g, n)
is_valid(g, n) ==
    LET valid[m \in Nodes \cup {Null}] ==
           m # Null => Proper(g, m) /\ \A i \in {L, R} : valid[child(g, m, i)]
    IN  n # Null => Proper(g, n) /\ \A i \in {L, R} : valid[child(g, n, i)]

\* The node where a descent from n ends that takes the side way[m] at m; 0: none.
Follow(g, n, way) ==
    LET next == [m \in Nodes \cup {Null} |->
                    IF m = Null \/ way[m] = 0 \/ child(g, m, way[m]) = Null THEN m
                    ELSE child(g, m, way[m])]
        at[i \in 0 .. Size] == IF i = 0 THEN n ELSE next[at[i - 1]]
    IN  at[Size]
\* The node with the key k, or the one that it would hang from.
find_host_node(g, n, k) ==
    Follow(g, n, [m \in Nodes |-> IF k = m THEN 0 ELSE IF k < m THEN L ELSE R])
\* first_node for L, last_node for R
outermost(g, n, i) == Follow(g, n, [m \in Nodes |-> i])

-----------------------------------------------------------------------------
None == [node |-> [n \in Nodes |-> NewNode], root |-> [t \in Trees |-> Null],
         live |-> {}, fault |-> "none", failed |-> <<>>]

\* A call whose nodes end up as g; one that fails ends the program, and is named.
Leaves(g, call) ==
    h' = IF g.fault = "none" THEN g ELSE [h EXCEPT !.fault = g.fault, !.failed = call]

Running == h.fault = "none"
Usable(t) == t \notin given

\* Mutant: the far neighbour is forgotten.
HangUnthreaded(g, t, n, k, v) ==
    LET i == IF k < n THEN L ELSE R
        g1 == [g EXCEPT !.node[k] = [NewNode EXCEPT !.val = v, !.par = n,
                                        !.dir = [j \in {L, R} |-> IF j = i THEN Null ELSE n]],
                        !.node[n].dir[i] = k, !.node[n].cld[i] = k, !.live = @ \cup {k}]
    IN  rebalance(update(update(g1, k), n), t, k)
\* insert_node, for a key that is not there yet: n is the node it hangs from.
Hang(g, t, n, k, v) ==
    LET i == IF k < n THEN L ELSE R
        beyond == g.node[n].dir[i]
        g1 == [g EXCEPT !.node[k] = [NewNode EXCEPT !.val = v, !.par = n,
                                        !.dir = [j \in {L, R} |-> IF j = i THEN beyond ELSE n]],
                        !.node[n].dir[i] = k, !.node[n].cld[i] = k, !.live = @ \cup {k}]
    IN  rebalance(update(update(SetDir(g1, beyond, Other(i), k), k), n), t, k)

\* Mutant: the value of a key that is there is replaced.
insert_nodeOverwrites(t, k, v) ==
    LET n == find_host_node(h, h.root[t], k)
    IN  IF n = Null THEN [h EXCEPT !.node[k] = [NewNode EXCEPT !.val = v],
                                   !.root[t] = k, !.live = @ \cup {k}]
        ELSE IF n = k THEN [h EXCEPT !.node[k].val = v] ELSE Hang(h, t, n, k, v)
insert_node(t, k, v) ==
    LET n == find_host_node(h, h.root[t], k)
    IN  IF n = Null THEN [h EXCEPT !.node[k] = [NewNode EXCEPT !.val = v],
                                   !.root[t] = k, !.live = @ \cup {k}]
        ELSE IF n = k THEN h ELSE Hang(h, t, n, k, v)

Insert(t, k, v) ==
    /\ Running /\ Usable(t)
    /\ LET g == insert_node(t, k, v)
       IN  Leaves(IF is_valid(h, h.root[t]) THEN Checked(g, is_valid(g, g.root[t]))
                  ELSE Fail(h, "assertion"), <<"insert", t, k>>)
    /\ UNCHANGED given

\* Mutant: the child that takes over is dropped below the root.
replace_childDrops(g, t, n, c, nc) ==
    LET g1 == SetPar(g, nc, n)
    IN  IF n = Null THEN [g1 EXCEPT !.root[t] = IF @ = c THEN nc ELSE @]
        ELSE [g1 EXCEPT !.node[n].cld[IF child(g1, n, L) = c THEN L ELSE R] = Null]
replace_child(g, t, n, c, nc) ==
    LET g1 == SetPar(g, nc, n)
    IN  IF n = Null THEN [g1 EXCEPT !.root[t] = IF @ = c THEN nc ELSE @]
        ELSE IF child(g1, n, L) = c THEN [g1 EXCEPT !.node[n].cld[L] = nc]
        ELSE Checked([g1 EXCEPT !.node[n].cld[R] = nc], child(g1, n, R) = c)

\* a and b change places: links, and the links of the nodes around them. The
\* root is exchanged once for each of the two that has no parent outside.
swap_positions(g, t, a, b) ==
    LET sw(m) == IF m = a THEN b ELSE IF m = b THEN a ELSE m
        moved(m) == LET o == g.node[sw(m)]
                    IN  [g.node[m] EXCEPT !.cld = <<sw(o.cld[L]), sw(o.cld[R])>>,
                                          !.par = sw(o.par)]
        twice == g.node[a].par \in {Null, b} /\ g.node[b].par \in {Null, a}
    IN  [g EXCEPT !.node = [m \in Nodes |-> moved(m)],
                  !.root[t] = IF twice THEN @ ELSE sw(@)]

\* The steps of remove_node, from where the node n is found. With two children
\* it changes places with the next node; then it leaves the thread; then a child,
\* if there is one, takes its place, where rebalance starts.
Both(g, n) == child(g, n, L) # Null /\ child(g, n, R) # Null
Placed(g, t, n) ==
    LET g1 == IF Both(g, n) THEN swap_positions(g, t, n, g.node[n].dir[R]) ELSE g
    IN  Checked(g1, Both(g, n) => is_sound(g1, g1.root[t]))
Unthreaded(g, n) ==
    SetDir(SetDir(g, g.node[n].dir[L], R, g.node[n].dir[R]), g.node[n].dir[R], L, g.node[n].dir[L])
Heir(g, n) == IF child(g, n, L) # Null THEN child(g, n, L) ELSE child(g, n, R)
Below(g, n) == IF Heir(g, n) = Null THEN g.node[n].par ELSE Heir(g, n)
Unlinked(g, t, n) == replace_child(g, t, g.node[n].par, n, Heir(g, n))
\* The check is made of a right child that takes the place.
TakenOver(g, t, n) ==
    LET g1 == Unlinked(g, t, n)
    IN  Checked(g1, child(g, n, L) = Null /\ Heir(g, n) # Null => is_sound(g1, g1.root[t]))

\* remove_node with the delete of erase, which forgets the node.
Forgotten(g, n) == [g EXCEPT !.node[n] = NewNode, !.live = @ \ {n}]
Unhang(t, n) ==
    LET g3 == Unthreaded(Placed(h, t, n), n)
        g5 == rebalance(TakenOver(g3, t, n), t, Below(g3, n))
    IN  Forgotten(Checked(g5, is_valid(g5, g5.root[t])), n)

Erase(t, k) ==
    /\ Running /\ Usable(t)
    /\ Leaves(IF ~is_valid(h, h.root[t]) THEN Fail(h, "assertion")
              ELSE IF find_host_node(h, h.root[t], k) = k THEN Unhang(t, k) ELSE h,
              <<"erase", t, k>>)
    /\ UNCHANGED given

\* The loops on imbalanced: of rotate_up on the node p, of join on the root.
Top(g, t, p) == IF p = Null THEN g.root[t] ELSE p
Level(g, t, p) ==
    LET u == update(g, Top(g, t, p))
    IN  IF u.fault = "none" /\ imbalanced(u, Top(g, t, p)) THEN rebalance_local(u, t, Top(g, t, p))
        ELSE u
Settle(g, t, p) ==
    LET after[i \in 0 .. Rounds] == IF i = 0 THEN g ELSE Level(after[i - 1], t, p)
        end == after[Rounds]
    IN  IF imbalanced(end, Top(end, t, p)) THEN Fail(end, "endless") ELSE end

\* join: the root of r takes the roots of a and b as children.
Join(a, b, r) ==
    /\ Running /\ Usable(a) /\ Usable(b) /\ Usable(r) /\ <<a, b, r>> \in Joins
    /\ LET top == h.root[r]
           al == outermost(h, h.root[a], R)
           bf == outermost(h, h.root[b], L)
           g1 == [h EXCEPT !.node[top].cld = <<h.root[a], h.root[b]>>,
                           !.node[top].dir = <<al, bf>>]
           g2 == SetDir(SetDir(g1, al, R, top), bf, L, top)
           g3 == Settle(SetPar(SetPar(g2, h.root[a], top), h.root[b], top), r, Null)
           g == CASE sz(h, top) # 1 -> Fail(h, "assertion")
                  [] sz(h, top) = 1 /\ Null \in {h.root[a], h.root[b]} -> Fail(h, "null")
                  [] OTHER -> Checked(g3, is_valid(g3, g3.root[r]))
       IN  /\ Leaves(g, <<"join", a, b, r>>)
           /\ given' = IF g.fault = "none" THEN given \cup {a, b} ELSE given

\* Mutant: one rotation only.
rotate_upOnce(g, t, n) ==
    LET p == g.node[n].par
    IN  IF p = Null THEN g ELSE Rotate(g, t, p, IF child(g, p, L) = n THEN R ELSE L)
Raise(g, t, n) ==
    LET p == g.node[n].par
    IN  IF p = Null \/ g.fault # "none" THEN g
        ELSE Settle(Rotate(g, t, p, IF child(g, p, L) = n THEN R ELSE L), t, p)
rotate_up(g, t, n) ==
    LET up[i \in 0 .. Rounds] == IF i = 0 THEN g ELSE Raise(up[i - 1], t, n)
        end == up[Rounds]
    IN  IF end.node[n].par = Null THEN end ELSE Fail(end, "endless")

\* split brings the host of k to the root of t; the other tree is not touched.
Split(t, k) ==
    /\ t \in Splits /\ Running /\ Usable(t)
    /\ LET n == find_host_node(h, h.root[t], k)
       IN  Leaves(IF n = Null THEN Fail(h, "null") ELSE rotate_up(h, t, n), <<"split", t, k>>)
    /\ UNCHANGED given

-----------------------------------------------------------------------------
Init ==
    /\ h = None
    /\ given = {}

Next ==
    \/ \E t \in Trees : \E k \in KeysOf[t] : \E v \in ValuesOf[k] : Insert(t, k, v)
    \/ \E t \in Trees : \E k \in KeysIn(t) : Erase(t, k) \/ Split(t, k)
    \/ \E a, b, r \in Trees : Join(a, b, r)

Spec == Init /\ [][Next]_vars
=============================================================================
