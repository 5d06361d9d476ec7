------------------------------ MODULE MCSockets ------------------------------
EXTENDS SocketProperties, TLC

Symmetry == Permutations(Connections)

\* Bounds: two sockets open between calls, one of them without an object, and one
\* with something sent over it. An accept that replaces a connection has three.
Few ==
    /\ Cardinality(Opened) <= 2
    /\ Cardinality(Lost \cup loose) <= 1
    /\ Cardinality({d \in Opened : kernel[d].wire # <<>>}) <= 1
=============================================================================
