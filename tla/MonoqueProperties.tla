-------------------------- MODULE MonoqueProperties --------------------------
(* What a correct monoque keeps, and the sequence it implements.            *)
EXTENDS Monoque

Present == {m \in Names : lifetime[m] # "none"}
Owned(m) == {obj[m].m_block_list[i] : i \in 0 .. obj[m].m_allocated_blocks - 1}
Address(o, i) == <<o.m_block_list[index1[i]], index2[i]>>

(* The members have their types; the elements fit in the blocks and the     *)
(* blocks in the list, which is as long as the two places that allocate it  *)
(* make it.                                                                 *)
TypeOK ==
    /\ \A m \in Names :
          LET o == obj[m]
          IN  /\ o.m_size \in 0 .. capacity(o)
              /\ o.m_allocated_blocks \in 0 .. o.m_capacity_blocks
              /\ o.m_capacity_blocks \in Capacities
              /\ o.m_block_list \in [0 .. o.m_capacity_blocks - 1 -> Blocks \cup {Null}]
              /\ o.freed \in BOOLEAN
    /\ \A b \in Blocks :
          heap[b] = Free \/ \E n \in 0 .. WordBits : heap[b] \in Contents(n)
    /\ lifetime \in [Names -> {"none", "alive"} \cup Names]
    /\ abandoned \subseteq Blocks

(* Every allocated block belongs to one place of the list of one monoque,   *)
(* and has the size of that place; nothing else is allocated, except what a *)
(* copy constructor that threw has lost.                                    *)
BlocksOwned ==
    /\ TypeOK
    /\ {b \in Blocks : heap[b] # Free} = abandoned \cup UNION {Owned(m) : m \in Names}
    /\ \A m \in Names :
          /\ Null \notin Owned(m) /\ Owned(m) \cap abandoned = {}
          /\ \A n \in Names \ {m} : Owned(m) \cap Owned(n) = {}
          /\ Cardinality(Owned(m)) = obj[m].m_allocated_blocks
          /\ \A i \in 0 .. obj[m].m_allocated_blocks - 1 :
                DOMAIN heap[obj[m].m_block_list[i]] = 0 .. size_of_block(i) - 1

(* No operation moves an element: growing, shrinking and popping leave the  *)
(* others where they are, and swap hands all of them over.                  *)
Keeps(m, n) ==
    /\ obj'[n].m_size >= obj[m].m_size - 1
    /\ \A i \in 0 .. obj[m].m_size - 1 :
          i < obj'[n].m_size => Address(obj[m], i) = Address(obj[n], i)'

ElementsDoNotMove ==
    [][\A m \in Names :
          lifetime[m] = "alive" /\ lifetime'[m] = "alive" =>
             \/ Keeps(m, m)
             \/ \E n \in Names : Keeps(m, n) /\ Keeps(n, m)]_vars

(* After shrink_to_fit there is no block that the elements could do without. *)
ShrinkLeavesTight ==
    [][\A m \in Names :
          ShrinkToFit(m) /\ fault' = "none" =>
             /\ obj'[m].m_size <= capacity(obj'[m])
             /\ \A k \in 0 .. obj'[m].m_allocated_blocks - 1 :
                   CapacityOf(k) < obj'[m].m_size]_vars

(* test6 reads each element back right after it has been emplaced, which    *)
(* takes a block list that is still allocated.                              *)
EmplacedIsThere == fault # "freed_list"

ASSUME AbsentAssumption == Absent \notin Seq(Values)

(* A monoque is the sequence of its elements; one that is being copied is   *)
(* not there yet.                                                           *)
elems == [m \in Names |->
            IF lifetime[m] # "alive" THEN Absent
            ELSE [i \in 1 .. obj[m].m_size |-> Read(obj[m], i - 1)]]

Contract == INSTANCE SequenceContract WITH elems <- elems
KeepsSequence == Contract!Spec

=============================================================================
