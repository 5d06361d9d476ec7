--------------------------- MODULE SequenceContract ---------------------------
(***************************************************************************)
(* What a monoque promises: each object is a sequence that is appended to, *)
(* shortened and written through, whatever memory holds it.  A copy comes  *)
(* into being as a whole, with the elements of its source.                 *)
(***************************************************************************)
EXTENDS Integers, Sequences

CONSTANTS Names, Values, Absent

VARIABLE elems      \* the elements of each monoque, or Absent

Init == elems = [m \in Names |-> Absent]

Change(m, s) == elems' = [elems EXCEPT ![m] = s]

Construct(m) == elems[m] = Absent /\ Change(m, <<>>)
Copy(m, n)   == elems[m] = Absent /\ elems[n] # Absent /\ Change(m, elems[n])
Destroy(m)   == elems[m] # Absent /\ Change(m, Absent)

EmplaceBack(m, v) == elems[m] # Absent /\ Change(m, Append(elems[m], v))
PopBack(m) ==
    /\ elems[m] \notin {Absent, <<>>}
    /\ Change(m, SubSeq(elems[m], 1, Len(elems[m]) - 1))
Assign(m, v) ==
    /\ elems[m] # Absent
    /\ \E i \in 1 .. Len(elems[m]) : Change(m, [elems[m] EXCEPT ![i] = v])
Swap(m, n) ==
    /\ elems[m] # Absent /\ elems[n] # Absent
    /\ elems' = [elems EXCEPT ![m] = elems[n], ![n] = elems[m]]

Next ==
    \E m \in Names :
       \/ Construct(m) \/ Destroy(m) \/ PopBack(m)
       \/ \E v \in Values : EmplaceBack(m, v) \/ Assign(m, v)
       \/ \E n \in Names : Copy(m, n) \/ Swap(m, n)

Spec == Init /\ [][Next]_elems
=============================================================================
