------------------------------- MODULE Variants -------------------------------
(* What derivators promise: each is empty or holds one value of one of its  *)
(* alternatives. A copy is like its source, a move leaves the source empty, *)
(* and a visitor is called with what is held.                               *)
CONSTANTS Names, Content, Empty, Absent
VARIABLES held, seen

Init == held = [d \in Names |-> Absent] /\ seen = Empty

Change(d, c) == held' = [held EXCEPT ![d] = c] /\ UNCHANGED seen

Hold(d) == \E c \in Content \cup {Empty} : Change(d, c)
Copy(d, other) == held[other] # Absent /\ Change(d, held[other])
Move(d, other) ==
    /\ held[d] = Absent /\ held[other] # Absent
    /\ held' = [held EXCEPT ![d] = held[other], ![other] = Empty] /\ UNCHANGED seen
Swap(d, other) ==
    /\ held[d] # Absent /\ held[other] # Absent
    /\ held' = [held EXCEPT ![d] = held[other], ![other] = held[d]] /\ UNCHANGED seen
Destroy(d) == held[d] # Absent /\ Change(d, Absent)
Visit(d) == held[d] # Absent /\ seen' = held[d] /\ UNCHANGED held

Next ==
    \E d \in Names :
       \/ Hold(d) \/ Destroy(d) \/ Visit(d)
       \/ \E other \in Names : Copy(d, other) \/ Move(d, other) \/ Swap(d, other)

Spec == Init /\ [][Next]_<<held, seen>>
=============================================================================
