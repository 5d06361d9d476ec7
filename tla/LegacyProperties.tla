-------------------------- MODULE LegacyProperties --------------------------
(* What the legacy monoque keeps, whatever throws.                          *)
EXTENDS LegacyMonoque

Places(o) == {i \in DOMAIN o.data_pv : o.data_pv[i] # Null}

(* Every block that is allocated has one place in one monoque: no call,     *)
(* complete or not, leaks a block or lets two monoques share one. The size  *)
(* that the destructor names to the allocator is the one that push_back has *)
(* asked it for, though each computes it in its own way.                    *)
BlocksOwned ==
    /\ {b \in Blocks : heap[b] # <<>>} = UNION {Held(obj[m]) : m \in Alive}
    /\ \A m \in Alive :
          /\ Cardinality(Places(obj[m])) = Cardinality(Held(obj[m]))
          /\ \A n \in Alive \ {m} : Held(obj[m]) \cap Held(obj[n]) = {}
          /\ \A i \in Places(obj[m]) : Len(heap[obj[m].data_pv[i]]) = deallocated(i)

(* The blocks in use are the first ones and every element has a slot of its *)
(* own in them; the loop of shink_to_fit that ends at a null pointer thus   *)
(* finds every block.                                                       *)
NoHoles ==
    \A m \in Alive :
       /\ \A i \in Places(obj[m]) : 0 .. i \subseteq Places(obj[m])
       /\ \A i \in 0 .. obj[m].size_pv - 1 :
             /\ index1_pv(i) \in Places(obj[m])
             /\ index2_pv(i) < Len(heap[obj[m].data_pv[index1_pv(i)]])
             /\ \A j \in 0 .. i - 1 :
                   <<index1_pv(i), index2_pv(i)>> # <<index1_pv(j), index2_pv(j)>>

ASSUME SequenceAssumption == Absent \notin Seq(Values)

elems == [m \in Names |-> IF m \in Alive THEN Elements(obj[m], heap) ELSE Absent]

(* The monoques implement sequences, with all or nothing where the code     *)
(* builds the new contents aside.                                           *)
Contract == INSTANCE LegacySequences WITH elems <- elems
KeepsSequences == Contract!LegacySpec
=============================================================================
