---------------------------- MODULE SocketValues ----------------------------
(* What the socket classes promise: each object has its socket as a value of *)
(* its own. A call changes the objects it names and no other; a move hands   *)
(* the value on; what is sent over a connection follows what was sent before.*)
EXTENDS Naturals, Sequences

CONSTANTS Objects, Absent, Raw, None
VARIABLE value      \* Absent, Raw, None, or [kind, up, wire]

Change(o, v) == value' = [value EXCEPT ![o] = v]
IsSocket(v) == v \notin {Absent, Raw, None}

Construct(o) == value[o] = Absent /\ \E v \in {None, Raw} : Change(o, v)
Destroy(o) == value[o] # Absent /\ Change(o, Absent)
Close(o) == value[o] # Absent /\ Change(o, None)
Adopt(o) == value[o] = Absent /\ IsSocket(value'[o]) /\ Change(o, value'[o])
Move(o, x) ==
    /\ value[o] = Absent /\ value[x] # Absent
    /\ value' = [value EXCEPT ![o] = value[x], ![x] = None]
Exchange(o, x) ==
    /\ Absent \notin {value[o], value[x]}
    /\ value' = [value EXCEPT ![o] = value[x], ![x] = value[o]]

\* open, listen, connect and accept: nothing has been sent over the new socket.
Renew(o) == IsSocket(value'[o]) /\ value'[o].wire = <<>> /\ Change(o, value'[o])

\* The pieces go on from the last one, or start a message.
Send(o) ==
    LET wire == value[o].wire
        more == value'[o].wire
        last == IF wire = <<>> THEN 0 ELSE wire[Len(wire)]
    IN  /\ IsSocket(value[o]) /\ IsSocket(value'[o]) /\ Len(more) > Len(wire)
        /\ \E start \in {0, last} :
              more = wire \o [i \in 1 .. Len(more) - Len(wire) |-> start + i]
        /\ Change(o, [value[o] EXCEPT !.wire = more])

Next ==
    \E o \in Objects :
       \/ Construct(o) \/ Destroy(o) \/ Close(o) \/ Renew(o) \/ Adopt(o) \/ Send(o)
       \/ \E x \in Objects \ {o} : Move(o, x) \/ Exchange(o, x)

Spec == value = [o \in Objects |-> Absent] /\ [][Next]_value
=============================================================================
