--------------------------- MODULE DerivatorProofs ---------------------------
(* Proofs of the properties of DerivatorProperties for any number of        *)
(* derivators, alternatives and addresses.                                  *)
EXTENDS DerivatorProperties, TLAPS

(* Each of the three needs the others: a value found free has no owner      *)
(* because owners' values are content, and a table fits because the value   *)
(* has no second owner that could have replaced it.                         *)
Inv == TypeOK /\ TableFitsValue /\ OneOwner

LEMMA Indices ==
    /\ NoTable \notin Alternatives /\ -1 \notin Alternatives
    /\ VoidIndex \in Alternatives \cup {-1} /\ VoidIndex # NoTable
    /\ \A i \in Voids : VoidIndex = i
<1>1. NoTable \notin Alternatives /\ -1 \notin Alternatives
  BY DerivatorAssumption DEF NoTable, Alternatives
<1>2. CASE Voids = {}
  BY <1>1, <1>2 DEF VoidIndex, NoTable
<1>3. CASE Voids # {}
  <2>1. PICK i \in Voids : TRUE
    BY <1>3
  <2>2. VoidIndex = i
    BY <2>1, <1>3, DerivatorAssumption DEF VoidIndex
  <2>3. i \in Alternatives
    BY <2>1, DerivatorAssumption DEF Alternatives
  <2> QED
    BY <1>1, <2>1, <2>2, <2>3, DerivatorAssumption
<1> QED
  BY <1>2, <1>3

\* An alternative that is not void is not what make_void leaves.
LEMMA VoidAlternative == \A i \in Alternatives \ Voids : i # VoidIndex /\ i # NoTable
<1>1. CASE Voids = {}
  BY <1>1, Indices DEF VoidIndex
<1>2. CASE Voids # {}
  BY <1>2, Indices
<1> QED
  BY <1>1, <1>2

\* What a live derivator is.
LEMMA Shape ==
    ASSUME Inv, NEW d \in Alive
    PROVE  /\ d \in Names /\ obj[d] \in Derivators
           /\ obj[d].m_value \in Addresses \cup {Null}
           /\ obj[d].m_vtab \in Alternatives \cup {-1, NoTable}
           /\ obj[d].m_value # Null =>
                 /\ heap[obj[d].m_value] \in Content
                 /\ obj[d].m_vtab = heap[obj[d].m_value].i
                 /\ obj[d].m_vtab \in Alternatives \ Voids
           /\ obj[d].m_value = Null => obj[d].m_vtab \in {VoidIndex, NoTable}
<1>1. d \in Names /\ obj[d] \in Derivators
  BY DEF Inv, TypeOK, Alive
<1>2. obj[d].m_value # Null =>
        heap[obj[d].m_value] \in Content /\ obj[d].m_vtab = heap[obj[d].m_value].i
  BY DEF Inv, TableFitsValue
<1> QED
  BY <1>1, <1>2 DEF Inv, TableFitsValue, Derivators, Content

\* A free address is nobody's.
LEMMA FreeIsNobodys ==
    ASSUME Inv, NEW a \in Addresses, heap[a] = Free, NEW d \in Alive
    PROVE  obj[d].m_value # a
BY Shape, DerivatorAssumption

\* Destroying the value of one derivator leaves the values of the others.
LEMMA OthersKept ==
    ASSUME Inv, NEW d \in Names
    PROVE  /\ Without(d) \in [Addresses -> Content \cup {Free}]
           /\ \A e \in Alive \ {d} : obj[e].m_value # Null =>
                 Without(d)[obj[e].m_value] = heap[obj[e].m_value]
<1>1. Without(d) \in [Addresses -> Content \cup {Free}]
  BY DEF Without, Inv, TypeOK
<1>2. ASSUME NEW e \in Alive \ {d}, obj[e].m_value # Null
      PROVE  Without(d)[obj[e].m_value] = heap[obj[e].m_value]
  <2>1. obj[e].m_value \in Addresses /\ e \in Names
    BY <1>2, Shape
  <2>2. d \in Alive => obj[d].m_value # obj[e].m_value
    BY <1>2, <2>1 DEF Inv, OneOwner, Held
  <2> QED
    BY <2>1, <2>2 DEF Without
<1> QED
  BY <1>1, <1>2

\* Giving a derivator a new value in free memory, whether what it held is
\* destroyed or forgotten.
LEMMA NewValue ==
    ASSUME Inv, NEW d \in Names, NEW a \in Addresses, heap[a] = Free, NEW c \in Content,
           NEW h, h = heap \/ h = Without(d),
           obj' = [obj EXCEPT ![d] = Holding(a, c.i)],
           heap' = [h EXCEPT ![a] = c], seen' = seen, fault' = fault
    PROVE  Inv'
<1>0. /\ h \in [Addresses -> Content \cup {Free}]
      /\ \A e \in Alive \ {d} : obj[e].m_value # Null =>
            h[obj[e].m_value] = heap[obj[e].m_value]
  BY OthersKept DEF Inv, TypeOK
<1>1. c.i \in Alternatives
  BY DEF Content
<1>2. Holding(a, c.i) \in Derivators
  BY <1>1 DEF Holding, Derivators
<1>3. obj' \in [Names -> {Absent} \cup Derivators]
  BY <1>2 DEF Inv, TypeOK
<1>4. /\ Alive' = Alive \cup {d}
      /\ obj'[d] = Holding(a, c.i)
      /\ \A e \in Names \ {d} : obj'[e] = obj[e]
  BY <1>2, DerivatorAssumption DEF Alive, Inv, TypeOK
<1>5. obj'[d].m_value = a /\ obj'[d].m_vtab = c.i /\ a # Null
  BY <1>4, DerivatorAssumption DEF Holding
<1>6. \A e \in Alive \ {d} : obj[e].m_value # a
  BY FreeIsNobodys
<1>7. TypeOK'
  BY <1>0, <1>3 DEF Inv, TypeOK
<1>8. TableFitsValue'
  <2>1. ASSUME NEW e \in Alive \ {d}, obj[e].m_value # Null
        PROVE  heap'[obj[e].m_value] = heap[obj[e].m_value]
    BY <2>1, <1>0, <1>6, Shape
  <2>2. heap'[a] = c
    BY <1>0
  <2>3. VoidIndex' = VoidIndex /\ NoTable' = NoTable
    BY DEF VoidIndex, NoTable
  <2> SUFFICES ASSUME NEW e \in Alive'
               PROVE  IF obj'[e].m_value = Null THEN obj'[e].m_vtab \in {VoidIndex, NoTable}
                      ELSE /\ heap'[obj'[e].m_value] \in Content
                           /\ obj'[e].m_vtab = heap'[obj'[e].m_value].i
    BY <2>3 DEF TableFitsValue, Content, Alternatives
  <2>4. CASE e = d
    BY <2>2, <2>4, <1>5
  <2>5. CASE e # d
    <3>1. e \in Alive \ {d} /\ obj'[e] = obj[e]
      BY <2>5, <1>4 DEF Alive
    <3> QED
      BY <3>1, <2>1, Shape
  <2> QED
    BY <2>4, <2>5
<1>9. OneOwner'
  <2>1. Held(d)' = {a}
    BY <1>4, <1>5 DEF Held
  <2>2. \A e \in Names \ {d} : Held(e)' = Held(e)
    BY <1>4 DEF Held
  <2>3. \A e \in Names \ {d} : a \notin Held(e)
    BY <1>6 DEF Held
  <2> QED
    BY <2>1, <2>2, <2>3 DEF Inv, OneOwner
<1> QED
  BY <1>7, <1>8, <1>9 DEF Inv

\* Leaving a derivator without a value, with its value destroyed or forgotten,
\* or not there at all.
LEMMA NoValue ==
    ASSUME Inv, NEW d \in Names, NEW o \in {Absent, MadeVoid, Holding(Null, NoTable)},
           heap' = heap \/ heap' = Without(d),
           obj' = [obj EXCEPT ![d] = o], seen' = seen, fault' = fault
    PROVE  Inv'
<1>0. /\ heap' \in [Addresses -> Content \cup {Free}]
      /\ \A e \in Alive \ {d} : obj[e].m_value # Null =>
            heap'[obj[e].m_value] = heap[obj[e].m_value]
  BY OthersKept DEF Inv, TypeOK
<1>1. o # Absent =>
        /\ o \in Derivators /\ o.m_value = Null /\ o.m_vtab \in {VoidIndex, NoTable}
  BY Indices DEF MadeVoid, Holding, Derivators
<1>2. obj' \in [Names -> {Absent} \cup Derivators]
  BY <1>1 DEF Inv, TypeOK
<1>3. /\ \A e \in Names \ {d} : obj'[e] = obj[e]
      /\ obj'[d] = o
  BY DEF Inv, TypeOK
<1>4. TypeOK'
  BY <1>0, <1>2 DEF Inv, TypeOK
<1>5. TableFitsValue'
  <2>3. VoidIndex' = VoidIndex /\ NoTable' = NoTable
    BY DEF VoidIndex, NoTable
  <2> SUFFICES ASSUME NEW e \in Alive'
               PROVE  IF obj'[e].m_value = Null THEN obj'[e].m_vtab \in {VoidIndex, NoTable}
                      ELSE /\ heap'[obj'[e].m_value] \in Content
                           /\ obj'[e].m_vtab = heap'[obj'[e].m_value].i
    BY <2>3 DEF TableFitsValue, Content, Alternatives
  <2>4. CASE e = d
    BY <2>4, <1>1, <1>3 DEF Alive
  <2>5. CASE e # d
    <3>1. e \in Alive \ {d} /\ obj'[e] = obj[e]
      BY <2>5, <1>3 DEF Alive
    <3> QED
      BY <3>1, <1>0, Shape
  <2> QED
    BY <2>4, <2>5
<1>6. OneOwner'
  <2>1. Held(d)' = {}
    BY <1>1, <1>3 DEF Held, Alive
  <2>2. \A e \in Names \ {d} : Held(e)' = Held(e)
    BY <1>3 DEF Held, Alive
  <2> QED
    BY <2>1, <2>2 DEF Inv, OneOwner
<1> QED
  BY <1>4, <1>5, <1>6 DEF Inv

\* Exchanging what two derivators are, or taking it from one of them.
LEMMA Moved ==
    ASSUME Inv, NEW d \in Names, NEW other \in Alive,
           \/ d \in Alive /\ obj' = [obj EXCEPT ![d] = obj[other], ![other] = obj[d]]
           \/ d \notin Alive /\ obj' = [obj EXCEPT ![d] = obj[other], ![other] = MadeVoid],
           heap' = heap, seen' = seen, fault' = fault
    PROVE  Inv'
<1>0. other \in Names
  BY DEF Alive
<1>1. /\ MadeVoid \in Derivators
      /\ MadeVoid.m_value = Null /\ MadeVoid.m_vtab = VoidIndex
  BY Indices DEF MadeVoid, Holding, Derivators
<1>2. /\ obj' \in [Names -> {Absent} \cup Derivators]
      /\ \A e \in Names \ {d, other} : obj'[e] = obj[e]
      /\ d # other => obj'[d] = obj[other]
      /\ d \notin Alive => d # other /\ obj'[other] = MadeVoid
      /\ d \in Alive => obj'[other] = obj[d]
      /\ d = other => obj'[d] = obj[other]
  BY <1>0, <1>1, Shape DEF Inv, TypeOK
<1>3. \A e \in Alive' :
         \/ e \in Alive /\ obj'[e] = obj[e]
         \/ e = d /\ obj'[e] = obj[other]
         \/ e = other /\ d \in Alive /\ obj'[e] = obj[d]
         \/ e = other /\ d \notin Alive /\ obj'[e] = MadeVoid
  BY <1>2 DEF Alive
<1>4. TypeOK'
  BY <1>2 DEF Inv, TypeOK
<1>5. TableFitsValue'
  <2>3. VoidIndex' = VoidIndex /\ NoTable' = NoTable
    BY DEF VoidIndex, NoTable
  <2> SUFFICES ASSUME NEW e \in Alive'
               PROVE  IF obj'[e].m_value = Null THEN obj'[e].m_vtab \in {VoidIndex, NoTable}
                      ELSE /\ heap[obj'[e].m_value] \in Content
                           /\ obj'[e].m_vtab = heap[obj'[e].m_value].i
    BY <2>3 DEF TableFitsValue, Content, Alternatives
  <2> QED
    BY <1>1, <1>3, Shape
<1>6. OneOwner'
  <2>1. \A e \in Names \ {d, other} : Held(e)' = Held(e)
    BY <1>2 DEF Held, Alive
  <2>2. other \in Alive /\ obj[other] # Absent /\ obj[other] \in Derivators
    BY Shape, DerivatorAssumption
  <2>3. Held(d)' = Held(other)
    BY <1>0, <1>2, <2>2 DEF Held, Alive
  <2>4. Held(other)' = Held(d)
    <3>1. CASE d \in Alive
      BY <3>1, <1>0, <1>2, Shape DEF Held, Alive
    <3>2. CASE d \notin Alive
      BY <3>2, <1>0, <1>1, <1>2 DEF Held, Alive
    <3> QED
      BY <3>1, <3>2
  <2> QED
    BY <2>1, <2>3, <2>4, <1>0 DEF Inv, OneOwner
<1> QED
  BY <1>4, <1>5, <1>6 DEF Inv

\* A call that stops on a null pointer or an assertion, or only looks.
LEMMA Looked ==
    ASSUME Inv, obj' = obj, heap' = heap, seen' \in Content \cup {Empty},
           fault' \in {"none", "null", "assertion"}
    PROVE  Inv'
<1>1. TypeOK'
  BY DEF Inv, TypeOK
<1>2. VoidIndex' = VoidIndex /\ NoTable' = NoTable /\ Alive' = Alive /\ Content' = Content
  BY DEF VoidIndex, NoTable, Alive, Content, Alternatives
<1>3. TableFitsValue'
  BY <1>2 DEF Inv, TableFitsValue
<1>4. OneOwner'
  BY <1>2 DEF Inv, OneOwner, Held
<1> QED
  BY <1>1, <1>3, <1>4 DEF Inv

LEMMA InitInv == Init => Inv
BY DerivatorAssumption DEF Init, Inv, TypeOK, TableFitsValue, OneOwner, Held, Alive, Empty

LEMMA EmplaceInv ==
    ASSUME Inv, NEW d \in Names, NEW i \in Alternatives, NEW v \in Values, emplace(d, i, v)
    PROVE  Inv'
<1>1. CASE i \in Voids
  <2>1. Holding(Null, i) = MadeVoid
    BY <1>1, Indices DEF MadeVoid
  <2> QED
    BY <1>1, <2>1, NoValue DEF emplace
<1>2. CASE i \notin Voids
  <2>1. PICK a \in Addresses :
           /\ heap[a] = Free
           /\ obj' = [obj EXCEPT ![d] = Holding(a, i)]
           /\ heap' = [Without(d) EXCEPT ![a] = [i |-> i, v |-> v]]
    BY <1>2 DEF emplace
  <2> DEFINE c == [i |-> i, v |-> v]
  <2>2. c \in Content /\ c.i = i
    BY <1>2 DEF Content
  <2>3. seen' = seen /\ fault' = fault
    BY DEF emplace
  <2> HIDE DEF c
  <2>4. heap' = [Without(d) EXCEPT ![a] = c]
    BY <2>1 DEF c
  <2>5. obj' = [obj EXCEPT ![d] = Holding(a, c.i)]
    BY <2>1, <2>2
  <2>6. heap[a] = Free /\ a \in Addresses /\ c \in Content
    BY <2>1, <2>2
  <2> QED
    BY <2>3, <2>4, <2>5, <2>6, NewValue
<1> QED
  BY <1>1, <1>2

\* A copy of a value, into memory that was free.
LEMMA CopyInv ==
    ASSUME Inv, NEW d \in Names, NEW other \in Alive, obj[other].m_value # Null,
           NEW a \in Addresses, heap[a] = Free,
           obj' = [obj EXCEPT ![d] = Holding(a, obj[other].m_vtab)],
           heap' = [heap EXCEPT ![a] = heap[obj[other].m_value]],
           seen' = seen, fault' = fault
    PROVE  Inv'
<1>1. /\ heap[obj[other].m_value] \in Content
      /\ obj[other].m_vtab = heap[obj[other].m_value].i
  BY Shape
<1> QED
  BY <1>1, NewValue

LEMMA NextInv == Inv /\ [Next]_vars => Inv'
<1> SUFFICES ASSUME Inv, [Next]_vars PROVE Inv'
  OBVIOUS
<1>0. CASE UNCHANGED vars
  BY <1>0, Looked DEF vars, Inv, TypeOK
<1> SUFFICES ASSUME NEW d \in Names,
                    \/ Destroy(d) \/ Index(d) \/ visit(d)
                    \/ \E v \in Values :
                          Construct(d, v) \/ \E i \in Alternatives : Emplace(d, i, v)
                    \/ \E other \in Names :
                          \/ CopyConstruct(d, other) \/ MoveConstruct(d, other)
                          \/ CopyAssign(d, other) \/ Swap(d, other)
             PROVE  Inv'
  BY <1>0 DEF Next
<1>1. CASE Destroy(d)
  BY <1>1, NoValue DEF Destroy
<1>2. CASE Index(d)
  BY <1>2, Looked DEF Index, Inv, TypeOK
<1>3. CASE visit(d)
  <2>1. CASE seen' = seen /\ fault' \in {"none", "null", "assertion"}
    BY <1>3, <2>1, Looked DEF visit, Inv, TypeOK
  <2>2. CASE seen' = Empty /\ fault' = fault
    BY <1>3, <2>2, Looked DEF visit, Inv, TypeOK
  <2>3. CASE /\ obj[d].m_vtab \in Alternatives \ Voids
             /\ seen' = heap[obj[d].m_value] /\ fault' = fault
    <3>1. obj[d].m_value # Null
      <4>1. obj[d].m_vtab \notin {VoidIndex, NoTable}
        BY <2>3, Indices, VoidAlternative
      <4> QED
        BY <1>3, <4>1, Shape DEF visit
    <3> QED
      BY <1>3, <2>3, <3>1, Shape, Looked DEF visit, Inv, TypeOK
  <2> QED
    BY <1>3, <2>1, <2>2, <2>3 DEF visit
<1>4. ASSUME NEW v \in Values, Construct(d, v) PROVE Inv'
  BY <1>4, EmplaceInv, DerivatorAssumption DEF Construct, Alternatives
<1>5. ASSUME NEW v \in Values, NEW i \in Alternatives, Emplace(d, i, v) PROVE Inv'
  BY <1>5, EmplaceInv DEF Emplace
<1>6. ASSUME NEW other \in Names, CopyConstruct(d, other) PROVE Inv'
  BY <1>6, CopyInv, NoValue DEF CopyConstruct
<1>7. ASSUME NEW other \in Names, MoveConstruct(d, other) PROVE Inv'
  BY <1>7, Moved DEF MoveConstruct
<1>8. ASSUME NEW other \in Names, CopyAssign(d, other) PROVE Inv'
  <2>1. CASE obj[other].m_vtab = NoTable
    BY <1>8, <2>1, Looked DEF CopyAssign, Inv, TypeOK
  <2>2. CASE obj[other].m_vtab # NoTable /\ obj[other].m_value = Null
    <3>1. obj[other] \in Derivators /\ obj[other].m_vtab = VoidIndex
      BY <1>8, <2>2, Shape DEF CopyAssign
    <3>2. obj[other] = MadeVoid
      BY <2>2, <3>1 DEF MadeVoid, Holding, Derivators
    <3> QED
      BY <1>8, <2>2, <3>2, NoValue DEF CopyAssign
  <2>3. CASE obj[other].m_vtab # NoTable /\ obj[other].m_value # Null
    BY <1>8, <2>3, CopyInv DEF CopyAssign
  <2> QED
    BY <2>1, <2>2, <2>3
<1>9. ASSUME NEW other \in Names, Swap(d, other) PROVE Inv'
  BY <1>9, Moved DEF Swap
<1> QED
  BY <1>1, <1>2, <1>3, <1>4, <1>5, <1>6, <1>7, <1>8, <1>9

(* The invariant that the three below are parts of.                         *)
THEOREM Invariance == Spec => []Inv
BY InitInv, NextInv, PTL DEF Spec

(* Every value of the variables is one of its type.                         *)
THEOREM TypeCorrect == Spec => []TypeOK
BY Invariance, PTL DEF Inv

(* destroy, get and visit treat the memory as what it holds.                *)
THEOREM TablesFit == Spec => []TableFitsValue
BY Invariance, PTL DEF Inv

(* No value is destroyed twice, whatever was copied, moved and swapped, a   *)
(* derivator with itself too.                                               *)
THEOREM ValuesHaveOneOwner == Spec => []OneOwner
BY Invariance, PTL DEF Inv

-----------------------------------------------------------------------------
\* A derivator that is not touched, nor its memory, is what it was.
LEMMA SameValue ==
    ASSUME NEW e \in Names, obj'[e] = obj[e],
           e \in Alive /\ obj[e].m_value # Null => heap'[obj[e].m_value] = heap[obj[e].m_value]
    PROVE  Value(e)' = Value(e)
BY DEF Value, Alive

LEMMA ValueTypes ==
    ASSUME Inv, NEW d \in Alive
    PROVE  Value(d) \in Content \cup {Empty} /\ Value(d) # Absent
BY Shape, DerivatorAssumption DEF Value

\* What a step does to one derivator is a step of the variants.
LEMMA OneChanges ==
    ASSUME NEW d \in Names, \A e \in Names \ {d} : Value(e)' = Value(e), seen' = seen,
           \/ Value(d)' \in Content \cup {Empty}
           \/ Value(d) # Absent /\ Value(d)' = Absent
    PROVE  Contract!Next
<1>1. [e \in Names |-> Value(e)]' = [[e \in Names |-> Value(e)] EXCEPT ![d] = Value(d)']
  OBVIOUS
<1>2. \A c : Value(d)' = c => Contract!Change(d, c)
  BY <1>1 DEF Contract!Change
<1>3. CASE Value(d)' \in Content \cup {Empty}
  BY <1>2, <1>3 DEF Contract!Next, Contract!Hold
<1>4. CASE Value(d) # Absent /\ Value(d)' = Absent
  BY <1>2, <1>4 DEF Contract!Next, Contract!Destroy
<1> QED
  BY <1>3, <1>4

\* The new value is the one that the variants change.
LEMMA NewValueStep ==
    ASSUME Inv, NEW d \in Names, NEW a \in Addresses, heap[a] = Free, NEW c \in Content,
           NEW h, h = heap \/ h = Without(d),
           obj' = [obj EXCEPT ![d] = Holding(a, c.i)],
           heap' = [h EXCEPT ![a] = c], seen' = seen
    PROVE  Contract!Next
<1>0. /\ h \in [Addresses -> Content \cup {Free}]
      /\ \A e \in Alive \ {d} : obj[e].m_value # Null =>
            h[obj[e].m_value] = heap[obj[e].m_value]
  BY OthersKept DEF Inv, TypeOK
<1>1. /\ obj'[d] = Holding(a, c.i) /\ obj'[d] # Absent
      /\ \A e \in Names \ {d} : obj'[e] = obj[e]
  <2>1. Holding(a, c.i) \in Derivators
    BY DEF Holding, Derivators, Content
  <2> QED
    BY <2>1, DerivatorAssumption DEF Inv, TypeOK
<1>2. Value(d)' = c
  BY <1>0, <1>1, DerivatorAssumption DEF Value, Holding, Alive
<1>3. ASSUME NEW e \in Names \ {d} PROVE Value(e)' = Value(e)
  <2>1. ASSUME e \in Alive, obj[e].m_value # Null
        PROVE  heap'[obj[e].m_value] = heap[obj[e].m_value]
    BY <2>1, <1>0, Shape, FreeIsNobodys
  <2> QED
    BY <1>1, <2>1, SameValue
<1> QED
  BY <1>2, <1>3, OneChanges

LEMMA NoValueStep ==
    ASSUME Inv, NEW d \in Names, NEW o \in {Absent, MadeVoid, Holding(Null, NoTable)},
           heap' = heap \/ heap' = Without(d), o = Absent => d \in Alive,
           obj' = [obj EXCEPT ![d] = o], seen' = seen
    PROVE  Contract!Next
<1>0. \A e \in Alive \ {d} : obj[e].m_value # Null =>
         heap'[obj[e].m_value] = heap[obj[e].m_value]
  BY OthersKept
<1>1. obj'[d] = o /\ \A e \in Names \ {d} : obj'[e] = obj[e]
  BY DEF Inv, TypeOK
<1>2. \A e \in Names \ {d} : Value(e)' = Value(e)
  BY <1>0, <1>1, SameValue
<1>3. CASE o = Absent
  BY <1>1, <1>2, <1>3, ValueTypes, OneChanges DEF Value, Alive
<1>4. CASE o # Absent
  <2>1. o.m_value = Null
    BY <1>4 DEF MadeVoid, Holding
  <2>2. Value(d)' = Empty
    BY <1>1, <1>4, <2>1 DEF Value, Alive
  <2> QED
    BY <1>2, <2>2, OneChanges
<1> QED
  BY <1>3, <1>4

LEMMA MovedStep ==
    ASSUME Inv, NEW d \in Names, NEW other \in Alive,
           \/ d \in Alive /\ obj' = [obj EXCEPT ![d] = obj[other], ![other] = obj[d]]
           \/ d \notin Alive /\ obj' = [obj EXCEPT ![d] = obj[other], ![other] = MadeVoid],
           heap' = heap, seen' = seen
    PROVE  Contract!Next
<1>0. other \in Names /\ Value(other) # Absent
  BY ValueTypes DEF Alive
<1>1. \A e \in Names \ {d, other} : Value(e)' = Value(e)
  BY SameValue DEF Inv, TypeOK
<1>2. CASE d \in Alive
  <2>1. obj'[d] = obj[other] /\ obj'[other] = obj[d]
    BY <1>0, <1>2 DEF Inv, TypeOK
  <2>2. Value(d)' = Value(other) /\ Value(other)' = Value(d)
    BY <1>0, <1>2, <2>1 DEF Value, Alive
  <2>3. [e \in Names |-> Value(e)]' =
           [[e \in Names |-> Value(e)] EXCEPT ![d] = Value(other), ![other] = Value(d)]
    BY <1>0, <1>1, <2>2
  <2>4. Value(d) # Absent
    BY <1>2, ValueTypes
  <2> QED
    BY <1>0, <2>3, <2>4 DEF Contract!Next, Contract!Swap
<1>3. CASE d \notin Alive
  <2>1. d # other /\ obj'[d] = obj[other] /\ obj'[other] = MadeVoid
    BY <1>0, <1>3 DEF Inv, TypeOK
  <2>2. MadeVoid \in Derivators /\ MadeVoid # Absent /\ MadeVoid.m_value = Null
    BY Indices, DerivatorAssumption DEF MadeVoid, Holding, Derivators
  <2>3. Value(d)' = Value(other) /\ Value(other)' = Empty
    BY <1>0, <1>3, <2>1, <2>2 DEF Value, Alive
  <2>4. [e \in Names |-> Value(e)]' =
           [[e \in Names |-> Value(e)] EXCEPT ![d] = Value(other), ![other] = Empty]
    BY <1>0, <1>1, <2>1, <2>3
  <2>5. Value(d) = Absent
    BY <1>3 DEF Value
  <2> QED
    BY <1>0, <2>4, <2>5 DEF Contract!Next, Contract!Move
<1> QED
  BY <1>2, <1>3

LEMMA SameStep ==
    ASSUME obj' = obj, heap' = heap, seen' = seen
    PROVE  UNCHANGED <<[d \in Names |-> Value(d)], seen>>
BY DEF Value, Alive

LEMMA emplaceStep ==
    ASSUME Inv, NEW d \in Names, NEW i \in Alternatives, NEW v \in Values, emplace(d, i, v)
    PROVE  Contract!Next
<1>1. CASE i \in Voids
  <2>1. Holding(Null, i) = MadeVoid
    BY <1>1, Indices DEF MadeVoid
  <2>2. MadeVoid # Absent
    BY Indices, DerivatorAssumption DEF MadeVoid, Holding, Derivators
  <2> QED
    BY <1>1, <2>1, <2>2, NoValueStep DEF emplace
<1>2. CASE i \notin Voids
  <2>1. PICK a \in Addresses :
           /\ heap[a] = Free
           /\ obj' = [obj EXCEPT ![d] = Holding(a, i)]
           /\ heap' = [Without(d) EXCEPT ![a] = [i |-> i, v |-> v]]
    BY <1>2 DEF emplace
  <2> DEFINE c == [i |-> i, v |-> v]
  <2>2. c \in Content /\ c.i = i
    BY <1>2 DEF Content
  <2>3. seen' = seen
    BY DEF emplace
  <2> HIDE DEF c
  <2>4. heap' = [Without(d) EXCEPT ![a] = c]
    BY <2>1 DEF c
  <2>5. obj' = [obj EXCEPT ![d] = Holding(a, c.i)]
    BY <2>1, <2>2
  <2>6. heap[a] = Free /\ a \in Addresses /\ c \in Content
    BY <2>1, <2>2
  <2> QED
    BY <2>3, <2>4, <2>5, <2>6, NewValueStep
<1> QED
  BY <1>1, <1>2

LEMMA CopyStep ==
    ASSUME Inv, NEW d \in Names, NEW other \in Alive, obj[other].m_value # Null,
           NEW a \in Addresses, heap[a] = Free,
           obj' = [obj EXCEPT ![d] = Holding(a, obj[other].m_vtab)],
           heap' = [heap EXCEPT ![a] = heap[obj[other].m_value]],
           seen' = seen
    PROVE  Contract!Next
<1>1. /\ heap[obj[other].m_value] \in Content
      /\ obj[other].m_vtab = heap[obj[other].m_value].i
  BY Shape
<1> QED
  BY <1>1, NewValueStep

\* Neither of the derivators without a value is one that is not there.
LEMMA NotAbsent == MadeVoid # Absent /\ Holding(Null, NoTable) # Absent
BY Indices, DerivatorAssumption DEF MadeVoid, Holding, Derivators

LEMMA StepRefines ==
    ASSUME Inv, [Next]_vars
    PROVE  Contract!Next \/ UNCHANGED <<[d \in Names |-> Value(d)], seen>>
<1>0. CASE UNCHANGED vars
  BY <1>0, SameStep DEF vars
<1> SUFFICES ASSUME NEW d \in Names,
                    \/ Destroy(d) \/ Index(d) \/ visit(d)
                    \/ \E v \in Values :
                          Construct(d, v) \/ \E i \in Alternatives : Emplace(d, i, v)
                    \/ \E other \in Names :
                          \/ CopyConstruct(d, other) \/ MoveConstruct(d, other)
                          \/ CopyAssign(d, other) \/ Swap(d, other)
             PROVE  Contract!Next \/ UNCHANGED <<[e \in Names |-> Value(e)], seen>>
  BY <1>0 DEF Next
<1>1. CASE Destroy(d)
  BY <1>1, NoValueStep DEF Destroy
<1>2. CASE Index(d)
  BY <1>2, SameStep DEF Index
<1>3. CASE visit(d)
  <2>1. CASE seen' = seen
    BY <1>3, <2>1, SameStep DEF visit
  <2>2. CASE seen' = Value(d)
    <3>1. [e \in Names |-> Value(e)]' = [e \in Names |-> Value(e)]
      BY <1>3 DEF visit, Value, Alive
    <3>2. Value(d) # Absent
      BY <1>3, ValueTypes DEF visit
    <3> QED
      BY <2>2, <3>1, <3>2 DEF Contract!Next, Contract!Visit
  <2>3. CASE obj[d].m_vtab \in Voids /\ seen' = Empty
    <3>1. obj[d].m_value = Null
      BY <1>3, <2>3, Shape DEF visit
    <3> QED
      BY <1>3, <2>2, <2>3, <3>1 DEF visit, Value
  <2>4. CASE obj[d].m_vtab \in Alternatives \ Voids /\ seen' = heap[obj[d].m_value]
    <3>1. obj[d].m_value # Null
      BY <1>3, <2>4, Shape, VoidAlternative DEF visit
    <3> QED
      BY <1>3, <2>2, <2>4, <3>1 DEF visit, Value
  <2> QED
    BY <1>3, <2>1, <2>3, <2>4 DEF visit
<1>4. ASSUME NEW v \in Values, Construct(d, v) PROVE Contract!Next
  BY <1>4, emplaceStep, DerivatorAssumption DEF Construct, Alternatives
<1>5. ASSUME NEW v \in Values, NEW i \in Alternatives, Emplace(d, i, v) PROVE Contract!Next
  BY <1>5, emplaceStep DEF Emplace
<1>6. ASSUME NEW other \in Names, CopyConstruct(d, other) PROVE Contract!Next
  BY <1>6, CopyStep, NoValueStep, NotAbsent DEF CopyConstruct
<1>7. ASSUME NEW other \in Names, MoveConstruct(d, other) PROVE Contract!Next
  BY <1>7, MovedStep DEF MoveConstruct
<1>8. ASSUME NEW other \in Names, CopyAssign(d, other)
      PROVE  Contract!Next \/ UNCHANGED <<[e \in Names |-> Value(e)], seen>>
  <2>1. CASE obj[other].m_vtab = NoTable
    BY <1>8, <2>1, SameStep DEF CopyAssign
  <2>2. CASE obj[other].m_vtab # NoTable /\ obj[other].m_value = Null
    <3>1. obj[other] \in Derivators /\ obj[other].m_vtab = VoidIndex
      BY <1>8, <2>2, Shape DEF CopyAssign
    <3>2. obj[other] = MadeVoid
      BY <2>2, <3>1 DEF MadeVoid, Holding, Derivators
    <3> QED
      BY <1>8, <2>2, <3>2, NoValueStep, NotAbsent DEF CopyAssign
  <2>3. CASE obj[other].m_vtab # NoTable /\ obj[other].m_value # Null
    BY <1>8, <2>3, CopyStep DEF CopyAssign
  <2> QED
    BY <2>1, <2>2, <2>3
<1>9. ASSUME NEW other \in Names, Swap(d, other) PROVE Contract!Next
  BY <1>9, MovedStep DEF Swap
<1> QED
  BY <1>1, <1>2, <1>3, <1>4, <1>5, <1>6, <1>7, <1>8, <1>9

LEMMA InitRefines == Init => Contract!Init
BY DEF Init, Contract!Init, Value, Alive

(* Derivators implement variants: a copy is like its source, a move leaves  *)
(* its source empty, a visitor is called with what is held, and no call     *)
(* changes what another derivator holds.                                    *)
THEOREM Implementation == Spec => KeepsVariants
<1>1. Inv /\ [Next]_vars => [Contract!Next]_<<[d \in Names |-> Value(d)], seen>>
  BY StepRefines
<1> QED
  BY <1>1, InitRefines, Invariance, PTL DEF Spec, KeepsVariants, Contract!Spec

-----------------------------------------------------------------------------
\* What a derivator holds is in use, and nobody's loss.
LEMMA HeldIsUsed ==
    ASSUME Inv, NEW d \in Names
    PROVE  Held(d) \subseteq Used
BY Shape, DerivatorAssumption DEF Held, Used

\* What becomes of one derivator, of its memory and of the rest.
LEMMA OneLoses ==
    ASSUME Inv, NEW d \in Names, \A e \in Names \ {d} : Held(e)' = Held(e),
           NEW a \in SUBSET (Addresses \ Used), Held(d)' = a,
           Used' = Used \cup a \/ Used' = (Used \ Held(d)) \cup a
    PROVE  /\ Lost \subseteq Lost'
           /\ Used' = (Used \ Held(d)) \cup a \/ Held(d) = {} => Lost' = Lost
<1> DEFINE Rest == UNION {Held(e) : e \in Names \ {d}}
<1>1. Held(d) \subseteq Used /\ Rest \subseteq Used
  BY HeldIsUsed
<1>2. Held(d) \cap Rest = {}
  BY DEF Inv, OneOwner
<1>3. UNION {Held(e) : e \in Names} = Held(d) \cup Rest
  OBVIOUS
<1>4. (UNION {Held(e) : e \in Names})' = a \cup Rest
  OBVIOUS
<1> HIDE DEF Rest
<1> QED
  BY <1>1, <1>2, <1>3, <1>4 DEF Lost

\* A step that gives d a value in free memory.
LEMMA NewValueLoses ==
    ASSUME Inv, NEW d \in Names, NEW a \in Addresses, heap[a] = Free, NEW c \in Content,
           NEW h, h = heap \/ h = Without(d),
           obj' = [obj EXCEPT ![d] = Holding(a, c.i)],
           heap' = [h EXCEPT ![a] = c]
    PROVE  /\ Lost \subseteq Lost'
           /\ h = Without(d) \/ Held(d) = {} => Lost' = Lost
           /\ \A e \in Alive' : obj'[e].m_vtab = NoTable => \E x \in Alive : obj[x].m_vtab = NoTable
<1>1. /\ obj'[d] = Holding(a, c.i) /\ obj'[d] # Absent
      /\ \A e \in Names \ {d} : obj'[e] = obj[e]
  <2>1. Holding(a, c.i) \in Derivators
    BY DEF Holding, Derivators, Content
  <2> QED
    BY <2>1, DerivatorAssumption DEF Inv, TypeOK
<1>2. Held(d)' = {a}
  BY <1>1, DerivatorAssumption DEF Held, Alive, Holding
<1>3. \A e \in Names \ {d} : Held(e)' = Held(e)
  BY <1>1 DEF Held, Alive
<1>4. {a} \in SUBSET (Addresses \ Used)
  BY DEF Used
<1>5. h = heap => Used' = Used \cup {a}
  BY DerivatorAssumption DEF Used, Inv, TypeOK
<1>6. h = Without(d) => Used' = (Used \ Held(d)) \cup {a}
  <2>1. \A b \in Addresses : Without(d)[b] = Free <=> heap[b] = Free \/ b \in Held(d)
    BY Shape, DerivatorAssumption, Indices DEF Without, Held
  <2>2. Without(d) \in [Addresses -> Content \cup {Free}]
    BY OthersKept
  <2> QED
    BY <2>1, <2>2, DerivatorAssumption DEF Used
<1>7. \A e \in Alive' : obj'[e].m_vtab = NoTable => \E x \in Alive : obj[x].m_vtab = NoTable
  <2>1. c.i # NoTable
    BY Indices DEF Content
  <2> QED
    BY <1>1, <2>1 DEF Alive, Holding
<1>8. Lost \subseteq Lost' /\ (h = Without(d) \/ Held(d) = {} => Lost' = Lost)
  BY <1>2, <1>3, <1>4, <1>5, <1>6, OneLoses
<1> QED
  BY <1>7, <1>8

LEMMA NoValueLoses ==
    ASSUME Inv, NEW d \in Names, NEW o \in {Absent, MadeVoid, Holding(Null, NoTable)},
           NEW h, h = heap \/ h = Without(d), heap' = h,
           obj' = [obj EXCEPT ![d] = o]
    PROVE  /\ Lost \subseteq Lost'
           /\ h = Without(d) \/ Held(d) = {} => Lost' = Lost
           /\ \A e \in Alive' : obj'[e].m_vtab = NoTable =>
                 (e = d /\ o = Holding(Null, NoTable)) \/ \E x \in Alive : obj[x].m_vtab = NoTable
<1>1. obj'[d] = o /\ \A e \in Names \ {d} : obj'[e] = obj[e]
  BY DEF Inv, TypeOK
<1>2. Held(d)' = {}
  BY <1>1 DEF Held, Alive, MadeVoid, Holding
<1>3. \A e \in Names \ {d} : Held(e)' = Held(e)
  BY <1>1 DEF Held, Alive
<1>4. h = heap => Used' = Used \cup {}
  BY DEF Used
<1>5. h = Without(d) => Used' = (Used \ Held(d)) \cup {}
  <2>1. \A b \in Addresses : Without(d)[b] = Free <=> heap[b] = Free \/ b \in Held(d)
    BY Shape, DerivatorAssumption, Indices DEF Without, Held
  <2> QED
    BY <2>1 DEF Used
<1>6. \A e \in Alive' : obj'[e].m_vtab = NoTable =>
         (e = d /\ o = Holding(Null, NoTable)) \/ \E x \in Alive : obj[x].m_vtab = NoTable
  BY <1>1, Indices DEF Alive, MadeVoid, Holding
<1>7. Lost \subseteq Lost' /\ (h = Without(d) \/ Held(d) = {} => Lost' = Lost)
  <2>1. {} \in SUBSET (Addresses \ Used)
    OBVIOUS
  <2> QED
    BY <1>2, <1>3, <1>4, <1>5, <2>1, OneLoses
<1> QED
  BY <1>6, <1>7

LEMMA MovedLoses ==
    ASSUME Inv, NEW d \in Names, NEW other \in Alive,
           \/ d \in Alive /\ obj' = [obj EXCEPT ![d] = obj[other], ![other] = obj[d]]
           \/ d \notin Alive /\ obj' = [obj EXCEPT ![d] = obj[other], ![other] = MadeVoid],
           heap' = heap
    PROVE  /\ Lost' = Lost
           /\ \A e \in Alive' : obj'[e].m_vtab = NoTable => \E x \in Alive : obj[x].m_vtab = NoTable
<1>0. other \in Names /\ obj[other] # Absent
  BY DEF Alive
<1>1. /\ \A e \in Names \ {d, other} : obj'[e] = obj[e]
      /\ d # other => obj'[d] = obj[other]
      /\ d \notin Alive => d # other /\ obj'[other] = MadeVoid
      /\ d \in Alive => obj'[other] = obj[d]
      /\ d = other => obj'[d] = obj[other]
  BY <1>0 DEF Inv, TypeOK
<1>2. /\ \A e \in Names \ {d, other} : Held(e)' = Held(e)
      /\ Held(d)' = Held(other) /\ Held(other)' = Held(d)
  <2>1. \A e \in Names \ {d, other} : Held(e)' = Held(e)
    BY <1>1 DEF Held, Alive
  <2>2. Held(d)' = Held(other)
    BY <1>0, <1>1 DEF Held, Alive
  <2>3. CASE d \in Alive
    <3>1. Held(other)' = Held(d)
      BY <1>0, <1>1, <2>3 DEF Held, Alive
    <3> QED
      BY <2>1, <2>2, <3>1
  <2>4. CASE d \notin Alive
    <3>1. Held(other)' = {} /\ Held(d) = {}
      BY <1>0, <1>1, <2>4 DEF Held, Alive, MadeVoid, Holding
    <3> QED
      BY <2>1, <2>2, <3>1
  <2> QED
    BY <2>3, <2>4
<1>3. (UNION {Held(e) : e \in Names})' = UNION {Held(e) : e \in Names}
  BY <1>0, <1>2
<1>4. Lost' = Lost
  BY <1>3 DEF Lost, Used
<1>5. \A e \in Alive' : obj'[e].m_vtab = NoTable => \E x \in Alive : obj[x].m_vtab = NoTable
  <2>1. MadeVoid.m_vtab # NoTable
    BY Indices DEF MadeVoid, Holding
  <2> QED
    BY <1>0, <1>1, <2>1 DEF Alive
<1> QED
  BY <1>4, <1>5

LEMMA emplaceLoses ==
    ASSUME Inv, NEW d \in Names, NEW i \in Alternatives, NEW v \in Values, emplace(d, i, v)
    PROVE  /\ Lost' = Lost
           /\ \A e \in Alive' : obj'[e].m_vtab = NoTable => \E x \in Alive : obj[x].m_vtab = NoTable
<1>1. CASE i \in Voids
  <2>1. Holding(Null, i) = MadeVoid /\ MadeVoid # Holding(Null, NoTable)
    BY <1>1, Indices DEF MadeVoid, Holding
  <2> QED
    BY <1>1, <2>1, NoValueLoses DEF emplace
<1>2. CASE i \notin Voids
  <2>1. PICK a \in Addresses :
           /\ heap[a] = Free
           /\ obj' = [obj EXCEPT ![d] = Holding(a, i)]
           /\ heap' = [Without(d) EXCEPT ![a] = [i |-> i, v |-> v]]
    BY <1>2 DEF emplace
  <2> DEFINE c == [i |-> i, v |-> v]
  <2>2. c \in Content /\ c.i = i
    BY <1>2 DEF Content
  <2> HIDE DEF c
  <2>3. heap' = [Without(d) EXCEPT ![a] = c]
    BY <2>1 DEF c
  <2>4. obj' = [obj EXCEPT ![d] = Holding(a, c.i)]
    BY <2>1, <2>2
  <2>5. heap[a] = Free /\ a \in Addresses /\ c \in Content
    BY <2>1, <2>2
  <2> QED
    BY <2>3, <2>4, <2>5, NewValueLoses
<1> QED
  BY <1>1, <1>2

LEMMA CopyLoses ==
    ASSUME Inv, NEW d \in Names, NEW other \in Alive, obj[other].m_value # Null,
           NEW a \in Addresses, heap[a] = Free,
           obj' = [obj EXCEPT ![d] = Holding(a, obj[other].m_vtab)],
           heap' = [heap EXCEPT ![a] = heap[obj[other].m_value]]
    PROVE  /\ Lost \subseteq Lost'
           /\ Held(d) = {} => Lost' = Lost
           /\ \A e \in Alive' : obj'[e].m_vtab = NoTable => \E x \in Alive : obj[x].m_vtab = NoTable
<1>1. /\ heap[obj[other].m_value] \in Content
      /\ obj[other].m_vtab = heap[obj[other].m_value].i
  BY Shape
<1> QED
  BY <1>1, NewValueLoses

\* What LosesOnlyWhereKnown says of a step.
Losses ==
    /\ Lost' # Lost => \E d, e \in Names : Held(d) # {} /\ CopyAssign(d, e)
    /\ Lost \subseteq Lost'
    /\ \A d \in Alive' :
          obj'[d].m_vtab = NoTable =>
             \/ \E e \in Alive : obj[e].m_vtab = NoTable
             \/ \E e \in Alive : obj[e].m_value = Null /\ CopyConstruct(d, e)

LEMMA StepLoses ==
    ASSUME Inv, [Next]_vars
    PROVE  Losses
<1>0. ASSUME obj' = obj, heap' = heap PROVE Losses
  BY <1>0 DEF Losses, Lost, Used, Held, Alive
<1>1. ASSUME Lost' = Lost,
             \A e \in Alive' : obj'[e].m_vtab = NoTable => \E x \in Alive : obj[x].m_vtab = NoTable
      PROVE  Losses
  BY <1>1 DEF Losses
<1>2. ASSUME NEW d \in Names, Destroy(d) PROVE Losses
  <2>1. Absent # Holding(Null, NoTable)
    BY NotAbsent
  <2> QED
    BY <1>1, <1>2, <2>1, NoValueLoses DEF Destroy
<1>3. ASSUME NEW d \in Names, Index(d) \/ visit(d) PROVE Losses
  BY <1>0, <1>3 DEF Index, visit
<1>4. ASSUME NEW d \in Names, NEW v \in Values, Construct(d, v) PROVE Losses
  BY <1>1, <1>4, emplaceLoses, DerivatorAssumption DEF Construct, Alternatives
<1>5. ASSUME NEW d \in Names, NEW v \in Values, NEW i \in Alternatives, Emplace(d, i, v)
      PROVE  Losses
  BY <1>1, <1>5, emplaceLoses DEF Emplace
<1>6. ASSUME NEW d \in Names, NEW other \in Names, CopyConstruct(d, other) PROVE Losses
  <2>1. Held(d) = {} /\ other \in Alive
    BY <1>6 DEF CopyConstruct, Held
  <2>2. CASE obj[other].m_value = Null
    <3>1. /\ Lost' = Lost
          /\ \A e \in Alive' : obj'[e].m_vtab = NoTable =>
                e = d \/ \E x \in Alive : obj[x].m_vtab = NoTable
      BY <1>6, <2>1, <2>2, NoValueLoses DEF CopyConstruct
    <3> QED
      BY <1>6, <2>1, <2>2, <3>1 DEF Losses
  <2>3. CASE obj[other].m_value # Null
    BY <1>1, <1>6, <2>1, <2>3, CopyLoses DEF CopyConstruct
  <2> QED
    BY <2>2, <2>3
<1>7. ASSUME NEW d \in Names, NEW other \in Names, MoveConstruct(d, other) PROVE Losses
  BY <1>1, <1>7, MovedLoses DEF MoveConstruct
<1>8. ASSUME NEW d \in Names, NEW other \in Names, CopyAssign(d, other) PROVE Losses
  <2>1. CASE obj[other].m_vtab = NoTable
    BY <1>0, <1>8, <2>1 DEF CopyAssign
  <2>2. CASE obj[other].m_vtab # NoTable /\ obj[other].m_value = Null
    <3>1. obj[other] \in Derivators /\ obj[other].m_vtab = VoidIndex
      BY <1>8, <2>2, Shape DEF CopyAssign
    <3>2. obj[other] = MadeVoid /\ MadeVoid # Holding(Null, NoTable)
      BY <2>2, <3>1, Indices DEF MadeVoid, Holding, Derivators
    <3>3. /\ Lost \subseteq Lost' /\ (Held(d) = {} => Lost' = Lost)
          /\ \A e \in Alive' : obj'[e].m_vtab = NoTable => \E x \in Alive : obj[x].m_vtab = NoTable
      BY <1>8, <2>2, <3>2, NoValueLoses DEF CopyAssign
    <3> QED
      BY <1>8, <3>3 DEF Losses
  <2>3. CASE obj[other].m_vtab # NoTable /\ obj[other].m_value # Null
    <3>1. /\ Lost \subseteq Lost' /\ (Held(d) = {} => Lost' = Lost)
          /\ \A e \in Alive' : obj'[e].m_vtab = NoTable => \E x \in Alive : obj[x].m_vtab = NoTable
      BY <1>8, <2>3, CopyLoses DEF CopyAssign
    <3> QED
      BY <1>8, <3>1 DEF Losses
  <2> QED
    BY <2>1, <2>2, <2>3
<1>9. ASSUME NEW d \in Names, NEW other \in Names, Swap(d, other) PROVE Losses
  BY <1>1, <1>9, MovedLoses DEF Swap
<1> QED
  BY <1>0, <1>2, <1>3, <1>4, <1>5, <1>6, <1>7, <1>8, <1>9 DEF Next, vars

(* Memory is lost only when a copy is assigned to a derivator that holds a  *)
(* value, and a table is missing only where a copy was constructed of a     *)
(* derivator without a value, or was handed on from there.                  *)
THEOREM LossesKnown == Spec => LosesOnlyWhereKnown
<1>1. Inv /\ [Next]_vars => [Losses]_vars
  BY StepLoses
<1>2. [Losses]_vars =>
         [/\ Lost' # Lost => \E d, e \in Names : Held(d) # {} /\ CopyAssign(d, e)
          /\ Lost \subseteq Lost'
          /\ \A d \in Alive' :
                obj'[d].m_vtab = NoTable =>
                   \/ \E e \in Alive : obj[e].m_vtab = NoTable
                   \/ \E e \in Alive : obj[e].m_value = Null /\ CopyConstruct(d, e)]_vars
  BY DEF Losses
<1> QED
  BY <1>1, <1>2, Invariance, PTL DEF Spec, LosesOnlyWhereKnown
=============================================================================
