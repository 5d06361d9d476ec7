------------------------------ MODULE Derivator ------------------------------
(* rpnx::basic_derivator: a variant that keeps its value in memory of its   *)
(* own and its alternative as a pointer to a table. A call that throws does *)
(* so before it has changed anything and is a stuttering step.              *)
EXTENDS Integers, FiniteSets

CONSTANTS
    Names,       \* the derivator objects
    Last,        \* the alternatives are 0 .. Last
    Voids,       \* those that are void: one at most
    Values,      \* what the others hold
    Addresses,   \* the memory
    Null, Free, Absent

Alternatives == 0 .. Last
Content == [i : Alternatives \ Voids, v : Values]
Empty == [i |-> -1]

\* m_vtab is the index that the table has for its alternative, or null. void has
\* a table whether it is an alternative or not.
NoTable == -2
Derivators == [m_value : Addresses \cup {Null}, m_vtab : Alternatives \cup {-1, NoTable}]

ASSUME DerivatorAssumption ==
    /\ Last \in Nat /\ Voids \in SUBSET (0 .. Last)
    /\ \A i, j \in Voids : i = j
    /\ Null \notin Addresses /\ Free \notin Content /\ Absent \notin Derivators \cup Content \cup {Empty}

VARIABLES
    obj,     \* m_value and m_vtab of each derivator, or Absent
    heap,    \* what each address holds, or Free
    seen,    \* what the visitor was called with last
    fault    \* a null pointer was dereferenced, an assertion failed
vars == <<obj, heap, seen, fault>>

VoidIndex == IF Voids = {} THEN -1 ELSE CHOOSE i \in Voids : TRUE

Holding(a, i) == [m_value |-> a, m_vtab |-> i]
MadeVoid == Holding(Null, VoidIndex)
Alive == {d \in Names : obj[d] # Absent}
Usable == fault = "none"

\* destroy(): the memory without the value of d.
Without(d) ==
    [a \in Addresses |->
        IF d \in Alive /\ a = obj[d].m_value /\ obj[d].m_vtab # NoTable THEN Free ELSE heap[a]]

-----------------------------------------------------------------------------
emplaceKeepsPointer(d, i, v) ==
    /\ UNCHANGED <<seen, fault>>
    /\ IF i \in Voids /\ d \in Alive
       THEN obj' = [obj EXCEPT ![d].m_vtab = i] /\ heap' = Without(d)
       ELSE \E a \in Addresses :
               /\ heap[a] = Free
               /\ obj' = [obj EXCEPT ![d] = Holding(a, i)]
               /\ heap' = [Without(d) EXCEPT ![a] = [i |-> i, v |-> v]]
emplaceLeaks(d, i, v) ==
    /\ UNCHANGED <<seen, fault>>
    /\ \E a \in Addresses :
          /\ heap[a] = Free
          /\ obj' = [obj EXCEPT ![d] = Holding(a, i)]
          /\ heap' = [heap EXCEPT ![a] = [i |-> i, v |-> v]]

\* The new value is there before the old one is destroyed. Assigning a value
\* does the same.
emplace(d, i, v) ==
    /\ UNCHANGED <<seen, fault>>
    /\ IF i \in Voids
       THEN obj' = [obj EXCEPT ![d] = Holding(Null, i)] /\ heap' = Without(d)
       ELSE \E a \in Addresses :
               /\ heap[a] = Free
               /\ obj' = [obj EXCEPT ![d] = Holding(a, i)]
               /\ heap' = [Without(d) EXCEPT ![a] = [i |-> i, v |-> v]]

Construct(d, v) == Usable /\ d \notin Alive /\ emplace(d, 0, v)
Emplace(d, i, v) == Usable /\ d \in Alive /\ emplace(d, i, v)

\* A copy of a derivator without a value has no table.
CopyConstruct(d, other) ==
    /\ Usable /\ d \notin Alive /\ other \in Alive
    /\ UNCHANGED <<seen, fault>>
    /\ IF obj[other].m_value = Null
       THEN obj' = [obj EXCEPT ![d] = Holding(Null, NoTable)] /\ UNCHANGED heap
       ELSE \E a \in Addresses :
               /\ heap[a] = Free
               /\ obj' = [obj EXCEPT ![d] = Holding(a, obj[other].m_vtab)]
               /\ heap' = [heap EXCEPT ![a] = heap[obj[other].m_value]]

MoveConstructShares(d, other) ==
    /\ Usable /\ d \notin Alive /\ other \in Alive
    /\ obj' = [obj EXCEPT ![d] = obj[other]]
    /\ UNCHANGED <<heap, seen, fault>>
MoveConstruct(d, other) ==
    /\ Usable /\ d \notin Alive /\ other \in Alive
    /\ obj' = [obj EXCEPT ![d] = obj[other], ![other] = MadeVoid]
    /\ UNCHANGED <<heap, seen, fault>>

\* Takes a copy of the other's value and forgets its own.
CopyAssign(d, other) ==
    /\ Usable /\ {d, other} \subseteq Alive
    /\ UNCHANGED seen
    /\ IF obj[other].m_vtab = NoTable
       THEN fault' = "assertion" /\ UNCHANGED <<obj, heap>>
       ELSE /\ UNCHANGED fault
            /\ IF obj[other].m_value = Null
               THEN obj' = [obj EXCEPT ![d] = obj[other]] /\ UNCHANGED heap
               ELSE \E a \in Addresses :
                       /\ heap[a] = Free
                       /\ obj' = [obj EXCEPT ![d] = Holding(a, obj[other].m_vtab)]
                       /\ heap' = [heap EXCEPT ![a] = heap[obj[other].m_value]]

SwapOneWay(d, other) ==
    /\ Usable /\ {d, other} \subseteq Alive
    /\ obj' = [obj EXCEPT ![d] = obj[other]]
    /\ UNCHANGED <<heap, seen, fault>>
\* swap, and assigning an rvalue.
Swap(d, other) ==
    /\ Usable /\ {d, other} \subseteq Alive
    /\ obj' = [obj EXCEPT ![d] = obj[other], ![other] = obj[d]]
    /\ UNCHANGED <<heap, seen, fault>>

Destroy(d) ==
    /\ Usable /\ d \in Alive
    /\ obj' = [obj EXCEPT ![d] = Absent]
    /\ heap' = Without(d)
    /\ UNCHANGED <<seen, fault>>

\* index, get and holds_alternative read the table.
Index(d) ==
    /\ Usable /\ d \in Alive
    /\ obj[d].m_vtab = NoTable
    /\ fault' = "null"
    /\ UNCHANGED <<obj, heap, seen>>

visit(d) ==
    /\ Usable /\ d \in Alive
    /\ UNCHANGED <<obj, heap>>
    /\ LET i == obj[d].m_vtab
       IN  \/ /\ i \notin Alternatives /\ UNCHANGED seen
              /\ fault' = IF i = NoTable THEN "null" ELSE "assertion"
           \/ i \in Voids /\ seen' = Empty /\ UNCHANGED fault
           \/ i \in Alternatives \ Voids /\ seen' = heap[obj[d].m_value] /\ UNCHANGED fault

-----------------------------------------------------------------------------
Init ==
    /\ obj = [d \in Names |-> Absent]
    /\ heap = [a \in Addresses |-> Free]
    /\ seen = Empty
    /\ fault = "none"

Next ==
    \E d \in Names :
       \/ Destroy(d) \/ Index(d) \/ visit(d)
       \/ \E v \in Values : Construct(d, v) \/ \E i \in Alternatives : Emplace(d, i, v)
       \/ \E other \in Names :
             \/ CopyConstruct(d, other) \/ MoveConstruct(d, other)
             \/ CopyAssign(d, other) \/ Swap(d, other)

Spec == Init /\ [][Next]_vars
=============================================================================
