---------------------------- MODULE MessageQueue ----------------------------
(* What serialize and deserialize promise together: a message comes out as  *)
(* it went in, in the order it went in.                                     *)
EXTENDS Naturals, Sequences

CONSTANT Items
VARIABLES queue, taken

Init == queue = <<>> /\ taken = 0
Send(m) == queue' = Append(queue, m) /\ UNCHANGED taken
Receive == queue # <<>> /\ taken' = Head(queue) /\ queue' = Tail(queue)
Next == Receive \/ \E m \in Items : Send(m)
Spec == Init /\ [][Next]_<<queue, taken>>
=============================================================================
