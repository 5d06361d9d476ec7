------------------------- MODULE DerivatorProperties -------------------------
(* What derivators keep of the memory and of what they hold.                *)
EXTENDS Derivator

Held(d) == IF d \in Alive THEN {obj[d].m_value} \ {Null} ELSE {}
Used == {a \in Addresses : heap[a] # Free}
Lost == Used \ UNION {Held(d) : d \in Names}

(* Types of the variables.                                                  *)
TypeOK ==
    /\ obj \in [Names -> {Absent} \cup Derivators]
    /\ heap \in [Addresses -> Content \cup {Free}]
    /\ seen \in Content \cup {Empty}
    /\ fault \in {"none", "null", "assertion"}

(* The table of a derivator is that of the value it points to: destroy and  *)
(* get treat the memory as what it is; without a value it is void's.        *)
TableFitsValue ==
    \A d \in Alive :
       IF obj[d].m_value = Null THEN obj[d].m_vtab \in {VoidIndex, NoTable}
       ELSE /\ heap[obj[d].m_value] \in Content
            /\ obj[d].m_vtab = heap[obj[d].m_value].i

(* A value has one derivator: no value is destroyed twice or under another. *)
OneOwner == \A d, e \in Names : d # e => Held(d) \cap Held(e) = {}

(* Only the assignment of a copy to a derivator that holds a value leaves   *)
(* memory behind; and a table is missing only where a copy was constructed  *)
(* of a derivator without a value, or was handed on from there.             *)
LosesOnlyWhereKnown ==
    [][/\ Lost' # Lost => \E d, e \in Names : Held(d) # {} /\ CopyAssign(d, e)
       /\ Lost \subseteq Lost'
       /\ \A d \in Alive' :
             obj'[d].m_vtab = NoTable =>
                \/ \E e \in Alive : obj[e].m_vtab = NoTable
                \/ \E e \in Alive : obj[e].m_value = Null /\ CopyConstruct(d, e)]_vars

\* What a derivator is for its users.
Value(d) ==
    IF d \notin Alive THEN Absent
    ELSE IF obj[d].m_value = Null THEN Empty ELSE heap[obj[d].m_value]

(* The derivators implement variants.                                       *)
Contract == INSTANCE Variants WITH held <- [d \in Names |-> Value(d)]
KeepsVariants == Contract!Spec
=============================================================================
