------------------------------ MODULE MCAvlTree ------------------------------
EXTENDS AvlTreeProperties, TLC

MCThreeTrees == "a" :> 1 .. 7 @@ "r" :> {8} @@ "b" :> {9}
MCValuesOf == [k \in 1 .. 9 |-> IF k = 5 THEN {1, 2} ELSE {1}]
MCJoins == {<<"a", "b", "r">>}

\* Bound: nothing more is done with a tree that split has left out of balance
\* when it has more than five nodes or there are others.
FewUnbalanced ==
    \/ \A t \in Standing : Balanced(t)
    \/ Cardinality(h.live) <= 5 /\ Root("b") = Null /\ Root("r") = Null

\* Bound: a key has its other value among five nodes at most.
FewOtherValues == (\E n \in h.live : h.node[n].val = 2) => Cardinality(h.live) <= 5
=============================================================================
