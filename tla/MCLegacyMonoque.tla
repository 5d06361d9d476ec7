--------------------------- MODULE MCLegacyMonoque ---------------------------
EXTENDS LegacyProperties, TLC

CONSTANT Marked     \* a value that tells one element from the others

Symmetry == Permutations(Names)

\* Bounds: one element in all monoques is told from the others, enough to see it
\* lost, moved or written to by a call for another; and as many elements in all
\* as one monoque can have.
Slots(kind) == {p \in Blocks \X (1 .. Max1) : p[2] \in DOMAIN heap[p[1]] /\ heap[p[1]][p[2]] \in kind}
FewElements == Cardinality(Slots(Values)) <= Max1 /\ Cardinality(Slots({Marked})) <= 1
=============================================================================
