----------------------------- MODULE KeyedStores -----------------------------
(* What the trees promise: each is a map from keys to values. An insertion  *)
(* keeps the value of a key that is there, join moves two maps into a third.*)
CONSTANTS Trees, KeysOf, ValuesOf, Joins
VARIABLE dict

Nothing == [k \in {} |-> {}]
Init == dict = [t \in Trees |-> Nothing]

Insert(t, k, v) ==
    dict' = [dict EXCEPT ![t] = IF k \in DOMAIN @ THEN @
                                ELSE [j \in DOMAIN @ \cup {k} |-> IF j = k THEN v ELSE @[j]]]
Erase(t, k) == dict' = [dict EXCEPT ![t] = [j \in DOMAIN @ \ {k} |-> @[j]]]
Moved(m, l) == [k \in DOMAIN m \cup DOMAIN l |-> IF k \in DOMAIN m THEN m[k] ELSE l[k]]
Join(a, b, r) ==
    dict' = [dict EXCEPT ![r] = Moved(@, Moved(dict[a], dict[b])), ![a] = Nothing, ![b] = Nothing]

Next ==
    \/ \E t \in Trees : \E k \in KeysOf[t] : \E v \in ValuesOf[k] : Insert(t, k, v)
    \/ \E t \in Trees : \E k \in DOMAIN dict[t] : Erase(t, k)
    \/ \E j \in Joins : Join(j[1], j[2], j[3])

Spec == Init /\ [][Next]_dict
=============================================================================
