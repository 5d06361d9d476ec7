--------------------------- MODULE LegacySequences ---------------------------
(* What the legacy monoque promises beyond SequenceContract: the calls that *)
(* replace all elements do so or change nothing; resize and the assignment  *)
(* of copies of a value may end part of the way.                            *)
EXTENDS SequenceContract

Copies(n, v) == [i \in 1 .. n |-> v]
New(m, v) == elems[m] = Absent /\ Change(m, Copies(2, v))
AssignAll(m, v) == elems[m] # Absent /\ Change(m, Copies(3, v))
CopyAssign(m, n) == Absent \notin {elems[m], elems[n]} /\ Change(m, elems[n])
MoveConstruct(m, n) ==
    /\ elems[m] = Absent /\ elems[n] # Absent
    /\ elems' = [elems EXCEPT ![m] = elems[n], ![n] = <<>>]
Clear(m) == elems[m] # Absent /\ Change(m, <<>>)
\* How many there are in the end is what it ended with.
AssignCount(m, v) ==
    /\ Absent \notin {elems[m], elems'[m]}
    /\ Change(m, Copies(Len(elems'[m]), v))
Resize(m, v) ==
    /\ Absent \notin {elems[m], elems'[m]}
    /\ Change(m, [i \in 1 .. Len(elems'[m]) |-> IF i <= Len(elems[m]) THEN elems[m][i] ELSE v])

LegacyNext ==
    \/ Next
    \/ \E m \in Names :
          \/ Clear(m)
          \/ \E v \in Values : New(m, v) \/ AssignAll(m, v) \/ AssignCount(m, v) \/ Resize(m, v)
          \/ \E n \in Names : MoveConstruct(m, n) \/ CopyAssign(m, n)

LegacySpec == Init /\ [][LegacyNext]_elems
=============================================================================
